------------------------------ MODULE MainDriver ------------------------------
(***************************************************************************)
(* The owner Durable Object's scheduler (instance.ts) over the ledger of   *)
(* MainQueue: alarms and kicks start driveMain, which runs one residency   *)
(* at a time; agent-scoped calls borrow the main slot; steering requests   *)
(* cross several awaits before they reach the running turn's inbox; SSE    *)
(* requests wait for an input's outcome; the process may die at any step.  *)
(*                                                                         *)
(* The object is single-threaded: a step runs from one await to the next,  *)
(* and steps of different handlers interleave.  The upstream agent is      *)
(* external: it consumes an inbox message once its durability gate opens,  *)
(* is idle when its inbox is empty, logs what it consumed, and a resumed   *)
(* one starts with the inbox its durable log holds.                        *)
(***************************************************************************)
EXTENDS MainQueue

CONSTANTS
    Streamed,    \* inputs an SSE request may wait for
    MaxTurns,    \* bound: turns claimed in a behavior
    MaxCrashes,  \* bound: process deaths
    MaxFaults,   \* bound: failing flushes, resumes and wakes
    MaxCalls     \* bound: agent-scoped calls, renames and repeated submissions

ASSUME BoundsAssumption ==
    /\ MaxTurns \in Nat /\ MaxCrashes \in Nat /\ MaxFaults \in Nat /\ MaxCalls \in Nat
    /\ Streamed \subseteq Inputs \ Reminders

\* The entries of activeTurns.
Turns == [session : Sessions, id : 1..MaxTurns, open : BOOLEAN, accepting : BOOLEAN,
          cancelled : BOOLEAN, stopped : BOOLEAN]

ASSUME TurnsAssumption == None \notin Turns

VARIABLES
    \* Durable.
    alarm,        \* the Durable Object alarm is set
    \* In memory, lost with the process.
    driving,      \* who set mainDriving: "free", "driver" or "call"
    pc,           \* where that holder stands
    target,       \* the session it drives
    fromAlarm,    \* driveMain's argument
    interrupted,  \* driveMain's local flag and its reason: "no", "timeout" or "failure"
    turn,         \* the entry of activeTurns, or None
    resident,     \* per session: "cold", "byMain", "byRename" (resuming) or "live"
    gate,         \* per input: its inbox message, see Inbox and "taken" below
    steer,        \* per input: where its steering request stands
    aim,          \* the turn that request captured
    joined,       \* turn id an agent-scoped call joined, or 0
    streams,      \* inputs an SSE request waits for
    arming,       \* inputs whose request awaits scheduleMainWake
    wake,         \* a handler's scheduleMainWake is under way
    alarmRuns,    \* an alarm handler has not completed
    \* History and bounds.
    acked,        \* inputs whose submission was answered, while runnable
    seen,         \* per input: the turn whose model step consumed it, or 0
    turnCount, crashes, faults, calls

mainVars    == <<driving, pc, target, fromAlarm, interrupted, turn>>
agentVars   == <<resident, gate, joined, seen>>
requestVars == <<steer, aim, streams, arming, acked>>
wakeVars    == <<alarm, wake, alarmRuns>>
boundVars   == <<turnCount, crashes, faults, calls>>
driverVars  == <<vars, mainVars, agentVars, requestVars, wakeVars, boundVars>>

\* The messages of the inbox: those this process spliced, by their gate, and
\* those the durable log of a dead one held, "stale" when it died with a claim
\* of their session.  "taken": consumed, the removal is not durable yet.
Gated == {"held", "released", "refused"}
Leftover == {"left", "stale"}
Inbox == Gated \cup Leftover
Spliced(i) == row[i] \in {"admitted", "settled"}

hasWorkUnclaimed == \E s \in ready : paused[s] = 0  \* mutant: a claim is not work
hasWork == slot # None \/ \E s \in ready : paused[s] = 0

FreeMainUnlocked == turn = None  \* mutant: mainDriving is not tested
FreeMain == driving = "free" /\ turn = None

\* An admission answered for a session that is then paused waits for the user.
AckedAfter(i) == acked \cup {j \in Inputs : row[j] = "queued" /\ SessionOf[j] = SessionOf[i]}

NewTurn(s) == [session |-> s, id |-> turnCount + 1, open |-> FALSE,
               accepting |-> FALSE, cancelled |-> FALSE, stopped |-> FALSE]

Fault == faults < MaxFaults /\ faults' = faults + 1
Call  == calls < MaxCalls /\ calls' = calls + 1 /\ UNCHANGED <<turnCount, crashes, faults>>

DriverInit ==
    /\ Init
    /\ alarm = FALSE /\ wake = FALSE /\ alarmRuns = FALSE
    /\ driving = "free" /\ pc = "off" /\ target = None
    /\ fromAlarm = FALSE /\ interrupted = "no" /\ turn = None
    /\ resident = [s \in Sessions |-> "cold"]
    /\ gate = [i \in Inputs |-> "none"]
    /\ steer = [i \in Inputs |-> "idle"]
    /\ aim = [i \in Inputs |-> 0]
    /\ joined = 0
    /\ streams = {} /\ arming = {} /\ acked = {}
    /\ seen = [i \in Inputs |-> 0]
    /\ turnCount = 0 /\ crashes = 0 /\ faults = 0 /\ calls = 0

----------------------------------------
(* driveMain. *)

Drive(byAlarm) ==
    /\ driving' = "driver"
    /\ fromAlarm' = byAlarm
    /\ interrupted' = "no"
    /\ IF slot # None THEN pc' = "resuming" /\ target' = SessionOf[slot]
                      ELSE pc' = "dispatching" /\ target' = None
    /\ UNCHANGED turn

StartDriving(byAlarm) == FreeMain /\ Drive(byAlarm)

\* mainDriving is reset, then the alarm is recomputed.
StopDriving ==
    /\ driving' = "free" /\ pc' = "off" /\ target' = None
    /\ fromAlarm' = FALSE /\ interrupted' = "no"
    /\ wake' = TRUE

\* The last step of the handlers that kick: a no-op while the slot is busy.
kickMain == IF FreeMain THEN StartDriving(FALSE) ELSE UNCHANGED mainVars

\* The alarm is consumed; its handler drives unless the main slot is busy.
AlarmFires ==
    /\ alarm /\ ~alarmRuns
    /\ alarm' = FALSE
    /\ alarmRuns' = TRUE
    /\ IF FreeMain THEN StartDriving(TRUE) /\ UNCHANGED wake
                   ELSE wake' = TRUE /\ UNCHANGED mainVars
    /\ UNCHANGED <<vars, agentVars, requestVars, boundVars>>

\* scheduleMainWake, the part after its await: arm for any work, else delete.
scheduleMainWake ==
    /\ wake
    /\ wake' = FALSE
    /\ alarm' = hasWork
    /\ alarmRuns' = (alarmRuns /\ fromAlarm)
    /\ UNCHANGED <<vars, mainVars, agentVars, requestVars, boundVars>>

\* The alarm cannot be written: a failed alarm handler is delivered again.
WakeFails ==
    /\ wake /\ Fault
    /\ wake' = FALSE
    /\ alarm' = (alarm \/ (alarmRuns /\ ~fromAlarm))
    /\ alarmRuns' = (alarmRuns /\ fromAlarm)
    /\ UNCHANGED <<vars, mainVars, agentVars, requestVars, turnCount, crashes, calls>>

\* A changed runtime setting or a stopped container recomputes the alarm.
RescheduleRequested ==
    /\ ~wake /\ wake' = TRUE
    /\ Call
    /\ UNCHANGED <<vars, mainVars, agentVars, requestVars, alarm, alarmRuns>>

\* getOrResumeAgent: a session another caller is resuming is refused as BUSY.
ResumeBegins(s) ==
    /\ resident[s] \in {"cold", "live"}
    /\ resident' = [resident EXCEPT ![s] = IF @ = "cold" THEN "byMain" ELSE @]

\* inbox.clear() leaves no message of the session.
InboxCleared(s) == [i \in Inputs |-> IF SessionOf[i] = s /\ gate[i] \in Inbox THEN "none" ELSE gate[i]]

\* A claim found at the start belongs to a dead run: resume its agent, clear
\* its inbox and close it as interrupted.
ResumeStale ==
    /\ pc = "resuming"
    /\ \/ /\ resident[target] # "byRename"
          /\ finish(TRUE)
          /\ resident' = [resident EXCEPT ![target] = "live"]
          /\ gate' = InboxCleared(target)
          /\ acked' = acked \ {i \in Inputs : SessionOf[i] = target /\ paused'[target] = 1}
          /\ pc' = "dispatching"
          /\ UNCHANGED <<driving, target, fromAlarm, interrupted, turn, wakeVars, boundVars>>
       \/ /\ resident[target] = "byRename" \/ faults < MaxFaults
          /\ faults' = IF resident[target] = "byRename" THEN faults ELSE faults + 1
          /\ StopDriving
          /\ UNCHANGED <<vars, resident, gate, acked, turn, alarm, alarmRuns, turnCount, crashes, calls>>
    /\ UNCHANGED <<joined, seen, steer, aim, streams, arming>>

\* A due reminder is queued or the attempt is deferred; no await follows.
DispatchDue ==
    /\ pc = "dispatching"
    /\ pc' = "claiming"
    /\ \/ \E i \in Reminders, w \in Weights : DispatchReminder(i, w)
       \/ UNCHANGED vars
    /\ UNCHANGED <<driving, target, fromAlarm, interrupted, turn,
                   agentVars, requestVars, wakeVars, boundVars>>

Claim ==
    /\ pc = "claiming"
    /\ \/ /\ claim
          /\ slot' # None
          /\ pc' = "arming"
          /\ target' = SessionOf[slot']
          /\ UNCHANGED <<driving, fromAlarm, interrupted, wake>>
       \/ /\ claim
          /\ slot' = None
          /\ StopDriving
       \/ /\ ~\E s \in ready : paused[s] = 0
          /\ UNCHANGED vars
          /\ StopDriving
    /\ UNCHANGED <<turn, agentVars, requestVars, alarm, alarmRuns, boundVars>>

\* The awaited wake before the turn is claimed, outside the try block: when
\* it fails the claim is left behind for the next drive to close as stale.
ArmClaim ==
    /\ pc = "arming"
    /\ \/ /\ alarm' = hasWork
          /\ pc' = "claimTurn"
          /\ UNCHANGED <<driving, target, fromAlarm, interrupted, wake, faults>>
       \/ Fault /\ StopDriving /\ UNCHANGED alarm
    /\ UNCHANGED <<vars, turn, agentVars, requestVars, alarmRuns, turnCount, crashes, calls>>

\* Settle the owner after teardown and end its SSE requests; an alarm-started
\* drive stops after one residency, a kicked one goes on.
Finish ==
    /\ pc = "finishing" /\ driving = "driver"
    /\ finish(interrupted # "no")
    /\ streams' = streams \ {slot}
    /\ acked' = acked \ {i \in Inputs : SessionOf[i] = target /\ paused'[target] = 1}
    /\ \/ /\ ~fromAlarm
          /\ pc' = "dispatching" /\ interrupted' = "no"
          /\ UNCHANGED <<driving, target, fromAlarm, wake>>
       \/ StopDriving
    /\ UNCHANGED <<turn, agentVars, steer, aim, arming, alarm, alarmRuns, boundVars>>

----------------------------------------
(* claimTurn and runClaimedTurn, shared by the driver and agent calls. *)

\* Register the turn before the agent is opened.
ClaimTurn ==
    /\ pc = "claimTurn" /\ turnCount < MaxTurns
    /\ turn' = NewTurn(target)
    /\ turnCount' = turnCount + 1
    /\ pc' = "opening"
    /\ UNCHANGED <<vars, driving, target, fromAlarm, interrupted, agentVars,
                   requestVars, wakeVars, crashes, faults, calls>>

OpenAgent ==
    /\ pc = "opening"
    /\ ResumeBegins(target)
    /\ pc' = "open"
    /\ UNCHANGED <<vars, driving, target, fromAlarm, interrupted, turn, gate, joined, seen,
                   requestVars, wakeVars, boundVars>>

\* afterFollowup: a stop accepted while the agent was opened reaches it now.
StopPendingNever == FALSE  \* mutant: afterFollowup is lost
StopPending == turn.cancelled

\* The opened agent is handed to the turn: the own message is spliced into its
\* inbox behind a closed gate, or the call runs.
StartTurn ==
    /\ pc = "open"
    /\ resident' = [resident EXCEPT ![target] = "live"]
    /\ turn' = [turn EXCEPT !.open = TRUE, !.stopped = StopPending]
    /\ gate' = IF driving = "driver" THEN [gate EXCEPT ![slot] = "held"] ELSE gate
    /\ pc' = "admitting"
    /\ UNCHANGED <<vars, driving, target, fromAlarm, interrupted, joined, seen,
                   requestVars, wakeVars, boundVars>>

\* The turn is dropped when its agent cannot be opened: a rename is resuming
\* the session, or the resume or the workspace fails.
OpenFails ==
    /\ \/ /\ pc = "opening" /\ resident[target] = "byRename"
          /\ UNCHANGED <<faults, resident>>
       \/ /\ pc = "open" /\ Fault
          /\ \E r \in {"cold", "live"} :
                resident' = [resident EXCEPT ![target] = IF @ = "byMain" THEN r ELSE @]
    /\ turn' = None
    /\ interrupted' = "failure"
    /\ pc' = "finishing"
    /\ UNCHANGED <<vars, driving, target, fromAlarm, gate, joined, seen,
                   requestVars, wakeVars, turnCount, crashes, calls>>

\* Admission resolved: from here steers and calls may join the turn.  A call
\* that left the agent idle, with no goal round pending, admits nothing.
Admitted ==
    /\ pc = "admitting"
    /\ driving = "driver" => gate[slot] # "held"
    /\ \/ turn' = [turn EXCEPT !.accepting = TRUE]
       \/ driving = "call" /\ UNCHANGED turn
    /\ pc' = "running"
    /\ UNCHANGED <<vars, driving, target, fromAlarm, interrupted, agentVars,
                   requestVars, wakeVars, boundVars>>

\* whenIdle resolved with nothing in the inbox and no joined call pending.
\* A call may leave the agent idle over what a dead process left in the inbox.
AgentIdle == \A i \in Inputs : gate[i] \notin Gated
NothingPending == AgentIdle /\ joined # turn.id

Closing ==
    /\ pc = "running" /\ NothingPending
    /\ turn' = [turn EXCEPT !.accepting = FALSE]
    /\ pc' = "draining"
    /\ UNCHANGED <<vars, driving, target, fromAlarm, interrupted, agentVars,
                   requestVars, wakeVars, boundVars>>

\* The turn is released behind a flush of its session, which makes what it
\* consumed durable; a failed one counts as an interruption.
Release ==
    /\ pc = "draining"
    /\ turn' = None
    /\ pc' = "finishing"
    /\ \/ /\ gate' = [i \in Inputs |-> IF SessionOf[i] = target /\ gate[i] = "taken"
                                        THEN "none" ELSE gate[i]]
          /\ UNCHANGED <<interrupted, faults>>
       \/ /\ Fault
          /\ interrupted' = IF interrupted = "no" THEN "failure" ELSE interrupted
          /\ UNCHANGED gate
    /\ UNCHANGED <<vars, driving, target, fromAlarm, resident, joined, seen, requestVars,
                   wakeVars, turnCount, crashes, calls>>

StopLater == [turn EXCEPT !.cancelled = TRUE]  \* mutant: the timer marks but does not stop
StopWork == [turn EXCEPT !.cancelled = TRUE, !.stopped = TRUE]

\* The residency timer: stop the work and mark the residency interrupted.
Timeout ==
    /\ pc \in {"admitting", "running", "draining"}
    /\ ~turn.stopped \/ (driving = "driver" /\ interrupted = "no")
    /\ turn' = StopWork
    /\ interrupted' = IF driving = "driver" THEN "timeout" ELSE interrupted
    /\ UNCHANGED <<vars, driving, pc, target, fromAlarm, agentVars, requestVars,
                   wakeVars, boundVars>>

\* A user's stop; an agent that has no work yet is stopped by StartTurn.
requestTurnCancellation ==
    /\ turn # None /\ ~turn.cancelled
    /\ turn' = [turn EXCEPT !.cancelled = TRUE, !.stopped = turn.open]
    /\ UNCHANGED <<vars, driving, pc, target, fromAlarm, interrupted, agentVars,
                   requestVars, wakeVars, boundVars>>

----------------------------------------
(* Agent-scoped calls and renames. *)

\* withAgentControl borrows the main slot, withAgentTurn claims a turn too.
withAgentControl(s) ==
    /\ FreeMain /\ Call
    /\ driving' = "call" /\ target' = s /\ pc' = "control"
    /\ UNCHANGED <<vars, fromAlarm, interrupted, turn, agentVars, requestVars,
                   wakeVars>>

withAgentTurn(s) ==
    /\ FreeMain /\ Call
    /\ driving' = "call" /\ target' = s /\ pc' = "claimTurn"
    /\ UNCHANGED <<vars, fromAlarm, interrupted, turn, agentVars, requestVars,
                   wakeVars>>

\* The slot is released and the scheduler kicked at once.
EndCall ==
    /\ driving = "call"
    /\ \/ pc = "finishing" /\ UNCHANGED resident
       \/ pc = "control" /\ resident' = [resident EXCEPT ![target] =
                                            IF @ = "byRename" THEN @ ELSE "live"]
    /\ Drive(FALSE)
    /\ UNCHANGED <<vars, gate, joined, seen, requestVars, wakeVars, boundVars>>

\* A call for the session whose turn still accepts work joins that turn.
JoinTurn ==
    /\ turn # None /\ turn.accepting /\ joined = 0 /\ Call
    /\ joined' = turn.id
    /\ UNCHANGED <<vars, mainVars, resident, gate, seen, requestVars, wakeVars>>

JoinedSettles ==
    /\ joined # 0
    /\ joined' = 0
    /\ UNCHANGED <<vars, mainVars, resident, gate, seen, requestVars, wakeVars, boundVars>>

\* Renaming a cold session resumes its agent outside the main slot.
RenameBegins(s) ==
    /\ resident[s] = "cold" /\ Call
    /\ resident' = [resident EXCEPT ![s] = "byRename"]
    /\ UNCHANGED <<vars, mainVars, gate, joined, seen, requestVars, wakeVars>>

RenameEnds(s) ==
    /\ resident[s] = "byRename"
    /\ resident' = [resident EXCEPT ![s] = "live"]
    /\ UNCHANGED <<vars, mainVars, gate, joined, seen, requestVars, wakeVars, boundVars>>

----------------------------------------
(* Submissions, queue edits and SSE requests. *)

\* enqueueMain commits the receipt, then awaits the wake.
SubmitPrompt(i, w) ==
    /\ Enqueue(i, w)
    /\ arming' = arming \cup {i}
    /\ UNCHANGED <<mainVars, agentVars, steer, aim, streams, acked, wakeVars, boundVars>>

\* The same identity again: the receipt stands, the wake is repeated.
RetryPrompt(i) ==
    /\ row[i] \notin {"absent", "rejected"} /\ i \notin arming \cup Reminders /\ Call
    /\ arming' = arming \cup {i}
    /\ UNCHANGED <<vars, mainVars, agentVars, steer, aim, streams, acked, wakeVars>>

\* After the wake: the answer, the kick and, for SSE, the wait for the outcome
\* unless there already is one.
AnswerPrompt(i) ==
    /\ i \in arming
    /\ arming' = arming \ {i}
    /\ alarm' = hasWork
    /\ acked' = IF paused[SessionOf[i]] = 1 THEN acked ELSE AckedAfter(i)
    /\ \/ UNCHANGED streams /\ kickMain
       \/ /\ i \in Streamed /\ row[i] \notin Terminal
          /\ streams' = streams \cup {i}
          /\ kickMain
       \/ /\ i \in Streamed /\ row[i] \in Terminal
          /\ UNCHANGED <<streams, mainVars>>
    /\ UNCHANGED <<vars, agentVars, steer, aim, wake, alarmRuns, boundVars>>

\* The wake fails: the submission is not answered, its receipt stands.
AnswerFails(i) ==
    /\ i \in arming /\ Fault
    /\ arming' = arming \ {i}
    /\ UNCHANGED <<vars, mainVars, agentVars, steer, aim, streams, acked, wakeVars,
                   turnCount, crashes, calls>>

Disconnect(i) ==
    /\ i \in streams
    /\ streams' = streams \ {i}
    /\ UNCHANGED <<vars, mainVars, agentVars, steer, aim, arming, acked, wakeVars, boundVars>>

RemoveQueued(i) ==
    /\ row[i] = "queued"
    /\ remove(i)
    /\ streams' = streams \ {i}
    /\ kickMain
    /\ UNCHANGED <<agentVars, steer, aim, arming, acked, wakeVars, boundVars>>

EditQueued(i, w) ==
    /\ edit(i, w)
    /\ kickMain
    /\ UNCHANGED <<agentVars, requestVars, wakeVars, boundVars>>

----------------------------------------
(* Steering: startApiPrompt's steer branch, and promotion in updateQueue. *)

Targets(i) == turn # None /\ turn.id = aim[i]
Accepts(i) == Targets(i) /\ turn.accepting

\* admissionReady is resolved by the admission and by every way a turn ends.
AdmissionReady(i) == Targets(i) => turn.accepting \/ pc = "draining"

\* The request is refused before it made a receipt.
AbandonSteer(i) ==
    /\ steer' = [steer EXCEPT ![i] = "idle"]
    /\ aim' = [aim EXCEPT ![i] = 0]

SteerBegins(i) ==
    /\ steer[i] = "idle" /\ row[i] = "absent" /\ i \notin Reminders
    /\ turn # None /\ turn.session = SessionOf[i]
    /\ steer' = [steer EXCEPT ![i] = "ready"]
    /\ aim' = [aim EXCEPT ![i] = turn.id]
    /\ UNCHANGED <<vars, mainVars, agentVars, streams, arming, acked, wakeVars, boundVars>>

SteerReady(i) ==
    /\ steer[i] = "ready" /\ AdmissionReady(i)
    /\ IF Accepts(i)
        THEN steer' = [steer EXCEPT ![i] = "enqueue"] /\ UNCHANGED aim
        ELSE AbandonSteer(i)
    /\ UNCHANGED <<vars, mainVars, agentVars, streams, arming, acked, wakeVars, boundVars>>

\* The receipt is created, the ledger is full or rejected this identity before,
\* or the identity has a receipt: then the wake is repeated and nothing else done.
SteerEnqueue(i) ==
    /\ steer[i] = "enqueue"
    /\ \/ /\ \E w \in Weights : EnqueueSteer(i, w)
          /\ steer' = [steer EXCEPT ![i] = "armed"]
          /\ UNCHANGED aim
          /\ UNCHANGED wake
       \/ /\ \/ row[i] = "rejected" /\ UNCHANGED wake
             \/ row[i] = "absent" /\ (\E w \in Weights : ~HasRoom(w)) /\ UNCHANGED wake
             \/ row[i] \notin {"absent", "rejected"} /\ wake' = TRUE
          /\ AbandonSteer(i)
          /\ UNCHANGED vars
    /\ UNCHANGED <<mainVars, agentVars, streams, arming, acked, alarm, alarmRuns, boundVars>>

\* The wake after the receipt fails and the request ends with it: nothing calls
\* finishSteer, and the row keeps its place in the queue until a restart.
SteerWakeFails(i) ==
    /\ steer[i] = "armed" /\ Fault
    /\ steer' = [steer EXCEPT ![i] = "stranded"]
    /\ UNCHANGED <<vars, mainVars, agentVars, aim, streams, arming, acked, wakeVars,
                   turnCount, crashes, calls>>

\* The same steer again, into a run that accepts: it is not the creator of the
\* receipt, so it repeats the wake, answers success and delivers nothing.
RetrySteer(i) ==
    /\ steer[i] = "stranded" /\ Call
    /\ turn # None /\ turn.session = SessionOf[i] /\ turn.accepting
    /\ wake' = TRUE
    /\ UNCHANGED <<vars, mainVars, agentVars, requestVars, alarm, alarmRuns>>

RefuseSteer(i) == finishSteer(i, FALSE, FALSE)

\* After the wake the target is checked again before the inbox is touched.
SteerAdmit(i) ==
    /\ steer[i] = "armed"
    /\ alarm' = hasWork
    /\ \/ /\ Accepts(i)
          /\ gate' = [gate EXCEPT ![i] = "held"]
          /\ steer' = [steer EXCEPT ![i] = "inbox"]
          /\ UNCHANGED vars
       \/ /\ ~Accepts(i)
          /\ RefuseSteer(i)
          /\ steer' = [steer EXCEPT ![i] = "idle"]
          /\ UNCHANGED gate
    /\ UNCHANGED <<mainVars, resident, joined, seen, aim, streams, arming, acked,
                   wake, alarmRuns, boundVars>>

Promote(i) ==
    /\ turn # None /\ turn.session = SessionOf[i] /\ turn.accepting /\ steer[i] = "idle"
    /\ stageSteer(i)
    /\ gate' = [gate EXCEPT ![i] = "held"]
    /\ steer' = [steer EXCEPT ![i] = "inbox"]
    /\ aim' = [aim EXCEPT ![i] = turn.id]
    /\ UNCHANGED <<mainVars, resident, joined, seen, streams, arming, acked, wakeVars, boundVars>>

----------------------------------------
(* The durability gate of an inbox message (createDurablePromptAdmitter). *)

\* The canonical append that carries the splice acknowledges the input.
AppendCommits(i) ==
    /\ gate[i] \in {"held", "refused"}
    /\ row[i] \in {"steering", "promoting", "claimed"}
    /\ acknowledgeMainInputs(i)
    /\ UNCHANGED <<mainVars, agentVars, requestVars, wakeVars, boundVars>>

\* The flush resolves: the splice is durable, or the message is refused.
FlushOk(i) ==
    /\ gate[i] = "held" /\ row[i] \notin {"steering", "promoting", "claimed"}
    /\ gate' = [gate EXCEPT ![i] = "released"]
    /\ steer' = [steer EXCEPT ![i] = IF @ = "inbox" THEN "idle" ELSE @]
    /\ UNCHANGED <<vars, mainVars, resident, joined, seen, aim, streams, arming, acked,
                   wakeVars, boundVars>>

FlushFails(i) ==
    /\ gate[i] = "held" /\ Fault
    /\ gate' = [gate EXCEPT ![i] = "refused"]
    /\ steer' = [steer EXCEPT ![i] = IF @ = "inbox" THEN "idle" ELSE @]
    /\ IF row[i] \in {"steering", "promoting"} THEN finishSteer(i, TRUE, FALSE)
                                               ELSE UNCHANGED vars
    /\ UNCHANGED <<mainVars, resident, joined, seen, aim, streams, arming, acked,
                   wakeVars, turnCount, crashes, calls>>

GateIgnored(i) == gate[i] \in Inbox  \* mutant: the step does not wait for the gate

\* A leftover has no gate in this process.
GateSettled(i) == gate[i] \in {"released", "refused"} \cup Leftover

\* agent/pre-step: the model sees a released message, a refused one is rejected.
PreStep(i) ==
    /\ GateSettled(i)
    /\ pc \in {"admitting", "running"} /\ turn.session = SessionOf[i]
    /\ gate' = [gate EXCEPT ![i] = IF Spliced(i) \/ gate[i] \in Leftover THEN "taken" ELSE "none"]
    /\ seen' = IF gate[i] # "refused" THEN [seen EXCEPT ![i] = turn.id] ELSE seen
    /\ UNCHANGED <<vars, mainVars, resident, joined, requestVars, wakeVars, boundVars>>

\* A canonical append carries the removal from the inbox.
ConsumptionCommits(i) ==
    /\ gate[i] = "taken"
    /\ gate' = [gate EXCEPT ![i] = "none"]
    /\ UNCHANGED <<vars, mainVars, resident, joined, seen, requestVars, wakeVars, boundVars>>

----------------------------------------
\* What the durable log of a dead process still has in the inbox.
InLog(i) == gate[i] \in {"taken"} \cup Leftover \/ (gate[i] # "none" /\ Spliced(i))
LeftBehind(i) ==
    CASE ~InLog(i) -> "none"
      [] InLog(i) /\ slot # None /\ SessionOf[slot] = SessionOf[i] -> "stale"
      [] OTHER -> "left"

\* The process dies and restarts; an alarm whose handler had not completed is
\* delivered again.
Crash ==
    /\ crashes < MaxCrashes /\ crashes' = crashes + 1
    /\ Restart
    /\ alarm' = (alarm \/ alarmRuns)
    /\ wake' = FALSE /\ alarmRuns' = FALSE
    /\ driving' = "free" /\ pc' = "off" /\ target' = None
    /\ fromAlarm' = FALSE /\ interrupted' = "no" /\ turn' = None
    /\ resident' = [s \in Sessions |-> "cold"]
    /\ gate' = [i \in Inputs |-> LeftBehind(i)]
    /\ steer' = [i \in Inputs |-> "idle"]
    /\ aim' = [i \in Inputs |-> 0]
    /\ joined' = 0 /\ streams' = {} /\ arming' = {}
    /\ UNCHANGED <<acked, seen, turnCount, faults, calls>>

DriveStep == ResumeStale \/ ArmClaim \/ ClaimTurn \/ OpenAgent \/ StartTurn \/ OpenFails
             \/ Admitted \/ Closing \/ Release \/ Finish

CallStep == EndCall \/ JoinTurn \/ JoinedSettles
            \/ \E s \in Sessions : withAgentControl(s) \/ withAgentTurn(s)
                                   \/ RenameBegins(s) \/ RenameEnds(s)

RequestStep == \E i \in Inputs :
    \/ RetryPrompt(i) \/ AnswerPrompt(i) \/ AnswerFails(i) \/ Disconnect(i) \/ RemoveQueued(i)
    \/ SteerBegins(i) \/ SteerReady(i) \/ SteerEnqueue(i) \/ SteerAdmit(i) \/ Promote(i)
    \/ SteerWakeFails(i) \/ RetrySteer(i)
    \/ AppendCommits(i) \/ FlushOk(i) \/ FlushFails(i) \/ PreStep(i) \/ ConsumptionCommits(i)
    \/ \E w \in Weights : SubmitPrompt(i, w) \/ EditQueued(i, w)

\* A drive, a stale close or a settled residency goes on to dispatch and claim
\* in the same synchronous block.
DriverNext ==
    \/ DispatchDue \/ Claim
    \/ /\ pc \notin {"dispatching", "claiming"}
       /\ \/ AlarmFires \/ scheduleMainWake \/ WakeFails \/ RescheduleRequested \/ Timeout \/ requestTurnCancellation
          \/ DriveStep \/ CallStep \/ RequestStep \/ Crash

DriverSpec == DriverInit /\ [][DriverNext]_driverVars

\* Fairness.  Storage, the event loop and the platform answer: promises of
\* the driver settle, a due alarm is delivered, a flush ends, timers fire.
\* The agent is only trusted to become idle once it has been stopped, and
\* a call that joined a turn to settle; no request is ever repeated.
DriveProgress == ResumeStale \/ DispatchDue \/ Claim \/ ArmClaim \/ ClaimTurn \/ OpenAgent
                 \/ StartTurn \/ OpenFails \/ Admitted \/ Release \/ Finish \/ EndCall

StoppedAgentIdles == turn # None /\ turn.stopped /\ (Closing \/ \E i \in Inputs : PreStep(i))

FlushProgress  == \E i \in Inputs : AppendCommits(i) \/ FlushOk(i) \/ FlushFails(i)
AnswerProgress == \E i \in Inputs : AnswerPrompt(i) \/ AnswerFails(i)

Fairness ==
    /\ WF_driverVars(DriveProgress)
    /\ WF_driverVars(AlarmFires)
    /\ WF_driverVars(scheduleMainWake \/ WakeFails)
    /\ WF_driverVars(Timeout)
    /\ WF_driverVars(StoppedAgentIdles)
    /\ WF_driverVars(JoinedSettles)
    /\ WF_driverVars(FlushProgress)
    /\ WF_driverVars(AnswerProgress)
    /\ WF_driverVars(\E s \in Sessions : RenameEnds(s))

FairDriverSpec == DriverSpec /\ Fairness

----------------------------------------
(* Properties. *)

DriverTypeOK ==
    /\ TypeOK
    /\ alarm \in BOOLEAN /\ wake \in BOOLEAN /\ alarmRuns \in BOOLEAN
    /\ driving \in {"free", "driver", "call"}
    /\ pc \in {"off", "resuming", "dispatching", "claiming", "arming", "claimTurn", "opening",
               "open", "admitting", "running", "draining", "finishing", "control"}
    /\ target \in Sessions \cup {None}
    /\ fromAlarm \in BOOLEAN /\ interrupted \in {"no", "timeout", "failure"}
    /\ turn \in Turns \cup {None}
    /\ resident \in [Sessions -> {"cold", "byMain", "byRename", "live"}]
    /\ gate \in [Inputs -> Inbox \cup {"none", "taken"}]
    /\ steer \in [Inputs -> {"idle", "ready", "enqueue", "armed", "stranded", "inbox"}]
    /\ aim \in [Inputs -> 0..MaxTurns] /\ seen \in [Inputs -> 0..MaxTurns]
    /\ joined \in 0..MaxTurns
    /\ streams \subseteq Inputs /\ arming \subseteq Inputs /\ acked \subseteq Inputs
    /\ turnCount \in 0..MaxTurns /\ crashes \in 0..MaxCrashes /\ faults \in 0..MaxFaults
    /\ calls \in 0..MaxCalls

\* While the driver is past its claim the durable slot is its own, and the
\* residency ends by its own finish, with a failed wake or with the process:
\* no handler that ran during an await starts another drive, which would close
\* the live claim as a stale one.
Residing == driving = "driver" /\ pc \notin {"off", "resuming", "dispatching", "claiming"}
ResidencyOwnsSlot ==
    [][Residing =>
        /\ slot # None /\ SessionOf[slot] = target
        /\ turn # None => turn.session = target
        /\ \/ Residing' /\ slot' = slot
           \/ pc = "finishing" \/ driving' = "free"]_driverVars

\* The model consumes an input only once its inbox splice is durable: never one
\* that was rejected, cancelled or is unsettled.
SeenIsDurable ==
    \A i \in Inputs : seen[i] # 0 => row[i] \in {"admitted", "settled", "interrupted"}

\* The turn a committed or admitted steer was aimed at (a request that has not
\* reached its enqueue yet may find the identity queued instead).
Pinned(i) == aim[i] # 0 /\ steer[i] \notin {"ready", "enqueue"}

\* The model consumes an input at most once, and a steered one in the run it
\* was aimed at or not at all.  Only what the durable log of a dead process
\* still had in the inbox comes back, in a later run of its session.
SeenOnce ==
    [][\A i \in Inputs : seen'[i] # seen[i] =>
          \/ seen[i] = 0 /\ (Pinned(i) => seen'[i] = aim[i])
          \/ gate[i] \in Leftover]_driverVars

\* What a run that died with its claim left in the inbox goes with the claim:
\* the residency that follows, and every later one, starts without it.
StaleInboxGoes ==
    \A i \in Inputs : gate[i] = "stale" =>
        slot # None /\ SessionOf[slot] = SessionOf[i] /\ ~Residing

\* Every uncommitted steer has a live request that will settle it, or its wake
\* failed in this life of the process: no other keeps queue capacity after its
\* request and run are gone.
SteeringHasRequest ==
    \A i \in Inputs :
        /\ row[i] = "steering" => steer[i] \in {"armed", "inbox", "stranded"}
        /\ row[i] = "promoting" => steer[i] = "inbox"

\* A stop accepted while the agent was still being opened is not lost.
StopReachesAgent ==
    turn # None /\ turn.cancelled /\ pc \in {"running", "draining"} => turn.stopped

\* A joined call never outlives the turn whose workspace scope it runs in.
JoinedCallInsideTurn == joined # 0 => turn # None /\ turn.id = joined /\ turn.accepting

\* Promotions, gates and steering requests agree, over crashes and failures:
\* nothing is consumed before it is durable, a dead claim's inbox is cleared,
\* and an uncommitted steer has a request or its wake failed.
SteeringIsExact == SeenIsDurable /\ StaleInboxGoes /\ SteeringHasRequest

\* A running turn hears the stop that was accepted while it opened, and no
\* joined call outlives it.
TurnIsAttended == StopReachesAgent /\ JoinedCallInsideTurn

\* An answered submission that can run, or that runs, always has a wake: after
\* any crash the alarm finds it with no further request.
AckedWorkHasAlarm ==
    \A i \in acked :
        row[i] \in {"queued"} \cup Owning /\ paused[SessionOf[i]] # 1 => alarm \/ alarmRuns

\* An answered submission closes, or its session is paused for the user: with
\* no further request, across crashes, failed resumes and hanging turns.
AnsweredInputCloses ==
    \A i \in Inputs :
        i \in acked /\ row[i] \in {"queued", "claimed", "admitted"}
            ~> row[i] \in Terminal \/ paused[SessionOf[i]] = 1

\* The SSE request of a turn ends with its input: none waits for an input that
\* already has its outcome.
StreamsEnd == \A i \in streams : row[i] \notin Terminal

\* A session is paused only when its claim outlived the process or its
\* residency ran into the deadline.
PausedOnlyByCrashOrTimeout ==
    [][\A s \in Sessions : paused[s] # 1 /\ paused'[s] = 1 =>
            pc = "resuming" \/ interrupted = "timeout"]_driverVars
==============================================================================
