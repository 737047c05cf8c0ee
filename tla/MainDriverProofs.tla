--------------------------- MODULE MainDriverProofs ---------------------------
(***************************************************************************)
(* Proofs about the scheduler, for any sessions, inputs, limits and bounds *)
(* on turns, crashes, faults and calls.  Its steps move the ledger only by *)
(* the ledger's operations (LedgerUsed), so the theorems of MainQueue hold *)
(* of it.  On top of the ledger's invariants the inductive invariant says  *)
(* where the holder of the main slot stands (DriveOK, TurnOK), where each  *)
(* input stands between its steering request, its inbox gate and its row   *)
(* (InboxOK) and which submissions are answered for (AckOK).               *)
(***************************************************************************)
EXTENDS MainDriver, MainQueueProofs

Opened == {"admitting", "running", "draining"}
HasTurn == {"opening", "open"} \cup Opened
BeforeTurn == {"arming", "claimTurn", "opening", "open"}
TurnSteps == {"claimTurn", "finishing"} \cup HasTurn
BetweenTurns == {"dispatching", "claiming"}

\* Who holds the main slot, and what the claim is meanwhile.
DriveOK ==
    /\ driving = "free" <=> pc = "off"
    /\ driving = "driver" => pc # "control"
    /\ driving = "call" => pc \in TurnSteps \cup {"control"}
    /\ pc \notin BetweenTurns \cup {"off"} => target # None
    /\ driving = "driver" /\ pc \in BetweenTurns => slot = None
    /\ driving = "driver" /\ pc \notin BetweenTurns => slot # None /\ SessionOf[slot] = target
    /\ driving = "driver" /\ pc \in BeforeTurn => row[slot] = "claimed"

\* The registered turn is the last one claimed, open once its agent is.
TurnOK ==
    /\ turn # None <=> pc \in HasTurn
    /\ turn # None =>
          /\ turn.session = target /\ turn.id = turnCount
          /\ turn.open <=> pc \in Opened
          /\ turn.accepting => pc = "running"
          /\ turn.open /\ turn.cancelled => turn.stopped
    /\ joined # 0 => turn # None /\ turn.id = joined /\ turn.accepting

Durable == {"admitted", "settled", "interrupted"}

\* A message this process spliced into the inbox belongs to an unfinished turn
\* and was not consumed, what is consumed or left over is durable, and a
\* steering request stands where its row and its gate say.
InboxOK(i) ==
    /\ gate[i] \in Gated =>
          /\ pc \in {"admitting", "running"} /\ seen[i] = 0
          /\ row[i] \in Durable \cup {"steering", "promoting", "claimed"}
          /\ Pinned(i) => turn.id = aim[i]
    /\ gate[i] \in {"released", "taken"} \cup Leftover => row[i] \in Durable
    /\ steer[i] \in {"armed", "stranded"} => row[i] = "steering" /\ gate[i] = "none"
    /\ steer[i] = "inbox" => gate[i] = "held"
    /\ row[i] = "steering" => steer[i] \in {"armed", "inbox", "stranded"}
    /\ row[i] = "promoting" => steer[i] = "inbox"
    /\ Pinned(i) => row[i] \in {"steering", "promoting"} \cup Terminal
    /\ seen[i] # 0 => row[i] \in Durable

InboxesOK == \A i \in Inputs : InboxOK(i)

\* What was answered was queued then, its session is not paused since, and
\* an alarm will find it as long as it can run.
AckOK ==
    \A i \in acked :
        /\ row[i] \notin {"absent", "steering"} /\ paused[SessionOf[i]] # 1
        /\ row[i] \in {"queued"} \cup Owning => alarm \/ alarmRuns

DriverInv ==
    /\ DriverTypeOK /\ LedgerInv
    /\ DriveOK /\ TurnOK /\ InboxesOK /\ StaleInboxGoes /\ AckOK

----------------------------------------
(* What the ledger's operations do to the rows, the slot and the pauses. *)

\* The row of input i moves from one of the first states to one of the second.
Moves(i, from, to) ==
    row[i] \in from /\ row'[i] \in to /\ \A j \in Inputs \ {i} : row'[j] = row[j]

\* No session is paused that was not.
NonePaused == \A s \in Sessions : paused'[s] = 1 => paused[s] = 1

\* What the operations on one row do to the rows, the slot and the pauses.
LEMMA RowMoves ==
    ASSUME TypeOK, NEW i \in Inputs
    PROVE  /\ \A w \in Weights : Enqueue(i, w) =>
                  Moves(i, {"absent"}, {"queued"}) /\ slot' = slot /\ NonePaused
           /\ \A w \in Weights : EnqueueSteer(i, w) =>
                  Moves(i, {"absent"}, {"steering"}) /\ slot' = slot /\ NonePaused
           /\ \A w \in Weights : DispatchReminder(i, w) =>
                  /\ Moves(i, {"absent"}, {"queued"}) /\ slot' = slot /\ NonePaused
                  /\ paused'[SessionOf[i]] # 1
           /\ \A w \in Weights : edit(i, w) => row' = row /\ slot' = slot /\ NonePaused
           /\ stageSteer(i) => Moves(i, {"queued"}, {"promoting"}) /\ slot' = slot /\ NonePaused
           /\ remove(i) => Moves(i, {"queued", "steering", "promoting"}, {"cancelled"})
                           /\ slot' = slot /\ NonePaused
           /\ \A a, d \in BOOLEAN : finishSteer(i, a, d) =>
                  /\ Moves(i, {"steering", "promoting"}, {"settled", "interrupted", "rejected"})
                  /\ slot' = slot /\ NonePaused
           /\ finishSteer(i, TRUE, FALSE) => row'[i] = "interrupted"
           /\ acknowledgeMainInputs(i) =>
                  /\ \/ Moves(i, {"queued", "steering", "promoting"}, {"settled"})
                     \/ Moves(i, {"claimed"}, {"admitted"})
                  /\ slot' = slot /\ NonePaused
<1>1. SessionOf[i] \in Sessions BY InputsAssumption
<1>2. ASSUME NEW w \in Weights PROVE
         /\ Enqueue(i, w) => Moves(i, {"absent"}, {"queued"}) /\ slot' = slot /\ NonePaused
         /\ EnqueueSteer(i, w) => Moves(i, {"absent"}, {"steering"}) /\ slot' = slot /\ NonePaused
         /\ DispatchReminder(i, w) => /\ Moves(i, {"absent"}, {"queued"}) /\ slot' = slot /\ NonePaused
                                      /\ paused'[SessionOf[i]] # 1
         /\ edit(i, w) => row' = row /\ slot' = slot /\ NonePaused
  BY <1>1 DEF TypeOK, Moves, NonePaused, Enqueue, EnqueueSteer, DispatchReminder, edit,
    insertMainInput, IsNew, resume, readyVars
<1>3. stageSteer(i) => Moves(i, {"queued"}, {"promoting"}) /\ slot' = slot /\ NonePaused
  BY DEF TypeOK, Moves, NonePaused, stageSteer, readyVars, slotVars
<1>4. remove(i) => Moves(i, {"queued", "steering", "promoting"}, {"cancelled"})
                   /\ slot' = slot /\ NonePaused
  BY <1>1 DEF TypeOK, Moves, NonePaused, remove, settle, CancelledState, DropReady, readyVars, Waiting
<1>5. ASSUME NEW a \in BOOLEAN, NEW d \in BOOLEAN, finishSteer(i, a, d)
      PROVE  /\ Moves(i, {"steering", "promoting"}, {"settled", "interrupted", "rejected"})
             /\ slot' = slot /\ NonePaused
  BY <1>5, SteerOutcomeTerminal DEF TypeOK, Moves, NonePaused, finishSteer, settle, readyVars
<1>6. finishSteer(i, TRUE, FALSE) => row'[i] = "interrupted"
  BY DEF TypeOK, finishSteer, settle, SteerOutcome
<1>7. acknowledgeMainInputs(i) =>
         /\ \/ Moves(i, {"queued", "steering", "promoting"}, {"settled"})
            \/ Moves(i, {"claimed"}, {"admitted"})
         /\ slot' = slot /\ NonePaused
  BY DEF TypeOK, Moves, NonePaused, acknowledgeMainInputs, settle, readyVars, slotVars, Waiting
<1>8. QED BY <1>2, <1>3, <1>4, <1>5, <1>6, <1>7

\* A claim takes a queued input of a session that is not paused, or no input.
LEMMA ClaimMoves ==
    ASSUME TypeOK, claim
    PROVE  /\ slot = None /\ NonePaused
           /\ \/ slot' = None /\ row' = row
              \/ /\ slot' \in Inputs /\ Moves(slot', {"queued"}, {"claimed"})
                 /\ paused[SessionOf[slot']] = 0 /\ paused' = paused
<1>1. PICK s \in ready :
         /\ IsNextReady(s)
         /\ \/ /\ \E i \in Queued(s) : slot' = i /\ row' = [row EXCEPT ![i] = "claimed"]
               /\ UNCHANGED readyVars
            \/ DropReady(s) /\ UNCHANGED <<slot, row>>
  BY DEF claim
<1>2. s \in Sessions /\ paused[s] = 0 /\ slot = None BY <1>1 DEF TypeOK, IsNextReady, claim
<1>3. CASE DropReady(s) /\ UNCHANGED <<slot, row>> BY <1>2, <1>3 DEF TypeOK, DropReady, NonePaused
<1>4. CASE /\ \E i \in Queued(s) : slot' = i /\ row' = [row EXCEPT ![i] = "claimed"]
           /\ UNCHANGED readyVars
  BY <1>2, <1>4 DEF TypeOK, Moves, NonePaused, Queued, InState, readyVars
<1>5. QED BY <1>1, <1>3, <1>4

\* finish closes the owner's row and may pause the owner's session, no other.
LEMMA FinishMoves ==
    ASSUME TypeOK, NEW b \in BOOLEAN, finish(b)
    PROVE  /\ slot \in Inputs /\ slot' = None
           /\ row'[slot] \in {"settled", "interrupted"}
           /\ \A j \in Inputs \ {slot} : row'[j] = row[j]
           /\ \A s \in Sessions \ {SessionOf[slot]} : paused'[s] = paused[s]
           /\ paused'[SessionOf[slot]] # -1
<1> DEFINE s == SessionOf[slot]
<1>1. slot \in Inputs /\ slot' = None BY DEF finish, TypeOK
<1>2. s \in Sessions BY <1>1, InputsAssumption
<1>3. row' = [row EXCEPT ![slot] = IF b THEN "interrupted" ELSE "settled"] BY DEF finish, settle
<1>4. \/ paused' = [paused EXCEPT ![s] = 0]
      \/ paused' = [paused EXCEPT ![s] = IF b /\ paused[s] # -1 THEN 1 ELSE 0]
  BY DEF finish, DropReady
<1>5. QED BY <1>1, <1>2, <1>3, <1>4 DEF TypeOK

\* A restart closes the uncommitted steers and leaves the other rows alone.
LEMMA RestartMoves ==
    ASSUME TypeOK, Restart
    PROVE  /\ slot' = slot /\ paused' = paused /\ ready' = ready
           /\ \A i \in Inputs :
                /\ row[i] \in {"steering", "promoting"} => row'[i] \in {"rejected", "interrupted"}
                /\ row[i] \notin {"steering", "promoting"} => row'[i] = row[i]
  BY DEF TypeOK, Restart, readyVars

----------------------------------------
(* The ledger under the scheduler. *)

\* Every step of the scheduler is an operation of the ledger or leaves it alone.
LEMMA DriverUsesLedger == DriverNext => [Next]_vars
<1> SUFFICES ASSUME DriverNext PROVE [Next]_vars OBVIOUS
<1>1. CASE DispatchDue
  <2>1. Reminders \subseteq Inputs BY InputsAssumption
  <2>2. QED BY <1>1, <2>1 DEF DispatchDue, Next
<1>2. CASE Claim BY <1>2 DEF Claim, Next
<1>3. CASE AlarmFires \/ scheduleMainWake \/ WakeFails \/ RescheduleRequested \/ Timeout
           \/ requestTurnCancellation
  BY <1>3 DEF AlarmFires, scheduleMainWake, WakeFails, RescheduleRequested, Timeout, requestTurnCancellation
<1>4. CASE DriveStep
  <2>1. CASE ResumeStale \/ Finish BY <2>1 DEF ResumeStale, Finish, Next
  <2>2. CASE ArmClaim \/ ClaimTurn \/ OpenAgent \/ StartTurn \/ OpenFails \/ Admitted \/ Closing \/ Release
    BY <2>2 DEF ArmClaim, ClaimTurn, OpenAgent, StartTurn, OpenFails, Admitted, Closing, Release
  <2>3. QED BY <1>4, <2>1, <2>2 DEF DriveStep
<1>5. CASE CallStep
  BY <1>5 DEF CallStep, EndCall, JoinTurn, JoinedSettles, withAgentControl, withAgentTurn,
    RenameBegins, RenameEnds
<1>6. CASE RequestStep
  <2>1. PICK i \in Inputs :
          \/ RetryPrompt(i) \/ AnswerPrompt(i) \/ AnswerFails(i) \/ Disconnect(i) \/ RemoveQueued(i)
          \/ SteerBegins(i) \/ SteerReady(i) \/ SteerEnqueue(i) \/ SteerAdmit(i) \/ Promote(i)
          \/ SteerWakeFails(i) \/ RetrySteer(i)
          \/ AppendCommits(i) \/ FlushOk(i) \/ FlushFails(i) \/ PreStep(i) \/ ConsumptionCommits(i)
          \/ \E w \in Weights : SubmitPrompt(i, w) \/ EditQueued(i, w)
    BY <1>6 DEF RequestStep
  <2>2. CASE \/ RetryPrompt(i) \/ AnswerPrompt(i) \/ Disconnect(i) \/ SteerBegins(i)
             \/ SteerReady(i) \/ FlushOk(i) \/ PreStep(i) \/ ConsumptionCommits(i)
             \/ AnswerFails(i) \/ SteerWakeFails(i) \/ RetrySteer(i)
    BY <2>2 DEF RetryPrompt, AnswerPrompt, Disconnect, SteerBegins, SteerReady, FlushOk,
      PreStep, ConsumptionCommits, AnswerFails, SteerWakeFails, RetrySteer
  <2>3. CASE RemoveQueued(i) \/ Promote(i) \/ AppendCommits(i)
    BY <2>3 DEF RemoveQueued, Promote, AppendCommits, Next
  <2>4. CASE SteerEnqueue(i) BY <2>4 DEF SteerEnqueue, Next
  <2>5. CASE SteerAdmit(i) \/ FlushFails(i)
    <3>1. finishSteer(i, FALSE, FALSE) \/ finishSteer(i, TRUE, FALSE) \/ UNCHANGED vars
      BY <2>5 DEF SteerAdmit, RefuseSteer, FlushFails
    <3>2. QED BY <3>1 DEF Next
  <2>6. CASE \E w \in Weights : SubmitPrompt(i, w) \/ EditQueued(i, w)
    BY <2>6 DEF SubmitPrompt, EditQueued, Next
  <2>7. QED BY <2>1, <2>2, <2>3, <2>4, <2>5, <2>6
<1>7. CASE Crash BY <1>7 DEF Crash, Next
<1>8. QED BY <1>1, <1>2, <1>3, <1>4, <1>5, <1>6, <1>7 DEF DriverNext

\* The scheduler implements the ledger: what MainQueueProofs proves of every
\* behavior of the ledger holds of the ledger under the scheduler.
THEOREM LedgerUsed == DriverSpec => Spec
  <1>1. DriverInit => Init BY DEF DriverInit
  <1>2. [DriverNext]_driverVars => [Next]_vars BY DriverUsesLedger DEF driverVars
  <1>3. QED BY <1>1, <1>2, PTL DEF DriverSpec, Spec

----------------------------------------
(* The scheduler's own memory. *)

\* Updates of the registered turn keep its type, and give what they say.
LEMMA TurnUpdates ==
    ASSUME NEW t \in Turns, NEW b \in BOOLEAN, NEW c \in BOOLEAN
    PROVE  /\ [t EXCEPT !.accepting = b] \in Turns
           /\ [t EXCEPT !.cancelled = b, !.stopped = c] \in Turns
           /\ [t EXCEPT !.open = b, !.stopped = c] \in Turns
  BY DEF Turns

\* What the types and TurnOK say of the turn that an action looks at.
LEMMA TurnFacts ==
    ASSUME DriverTypeOK, TurnOK
    PROVE  /\ pc \in HasTurn => turn \in Turns
           /\ turn # None => /\ turn \in Turns /\ turn.id \in 1..MaxTurns
                             /\ turn.open \in BOOLEAN /\ turn.cancelled \in BOOLEAN
  BY DEF DriverTypeOK, TurnOK, Turns

\* hasWork is a truth value.
LEMMA HasWorkType == hasWork \in BOOLEAN
  BY DEF hasWork

\* What the start of a drive does to the types.
LEMMA DriveType ==
    ASSUME DriverTypeOK, NEW byAlarm \in BOOLEAN, Drive(byAlarm)
    PROVE  /\ driving' = "driver" /\ pc' \in {"resuming", "dispatching"}
           /\ target' \in Sessions \cup {None}
           /\ fromAlarm' = byAlarm /\ interrupted' = "no" /\ turn' = turn
  BY InputsAssumption DEF DriverTypeOK, TypeOK, Drive

\* What a kick does to the types, whether it starts a drive or not.
LEMMA KickType ==
    ASSUME DriverTypeOK, kickMain
    PROVE  /\ driving' \in {"free", "driver", "call"}
           /\ pc' = pc \/ pc' \in {"resuming", "dispatching"}
           /\ target' \in Sessions \cup {None}
           /\ fromAlarm' \in BOOLEAN /\ interrupted' \in {"no", "timeout", "failure"}
           /\ turn' = turn
  BY DriveType DEF DriverTypeOK, kickMain, StartDriving, mainVars

\* The types of the memory of the process and of the alarm.
LEMMA DriverTypeStep ==
    DriverTypeOK /\ DriveOK /\ TurnOK /\ [DriverNext]_driverVars => DriverTypeOK'
<1> SUFFICES ASSUME DriverTypeOK, DriveOK, TurnOK, [DriverNext]_driverVars PROVE DriverTypeOK'
  OBVIOUS
<1> USE BoundsAssumption
<1>1. TypeOK' BY DriverUsesLedger, TypeStep DEF DriverTypeOK, driverVars
<1>2. /\ slot \in Inputs \cup {None} /\ slot' \in Inputs \cup {None}
      /\ \A j \in Inputs : SessionOf[j] \in Sessions
  BY <1>1, InputsAssumption DEF DriverTypeOK, TypeOK
<1>3. CASE DispatchDue
  BY <1>3, <1>1, <1>2 DEF DispatchDue, agentVars, requestVars, wakeVars, boundVars, DriverTypeOK
<1>4. CASE Claim
  BY <1>4, <1>1, <1>2, ZenonT(60) DEF Claim, StopDriving, agentVars, requestVars, boundVars,
    DriverTypeOK
<1>5. CASE AlarmFires
  BY <1>5, <1>1, <1>2, DriveType, ZenonT(60) DEF AlarmFires, mainVars, agentVars, requestVars,
    boundVars, StartDriving, DriverTypeOK
<1>6. CASE scheduleMainWake
  <2>1. alarm' \in BOOLEAN /\ wake' \in BOOLEAN /\ alarmRuns' \in BOOLEAN
    BY <1>6, HasWorkType DEF scheduleMainWake, DriverTypeOK
  <2>2. UNCHANGED <<mainVars, agentVars, requestVars, boundVars>> BY <1>6 DEF scheduleMainWake
  <2>3. QED
    BY <1>1, <2>1, <2>2, ZenonT(60) DEF mainVars, agentVars, requestVars, boundVars, DriverTypeOK
<1>61. CASE WakeFails
  <2>1. alarm' \in BOOLEAN /\ wake' \in BOOLEAN /\ alarmRuns' \in BOOLEAN /\ faults' \in 0..MaxFaults
    <3>1. /\ wake' = FALSE /\ faults < MaxFaults /\ faults' = faults + 1
          /\ alarm' = (alarm \/ (alarmRuns /\ ~fromAlarm)) /\ alarmRuns' = (alarmRuns /\ fromAlarm)
      BY <1>61 DEF WakeFails, Fault
    <3>2. alarm' \in BOOLEAN /\ wake' \in BOOLEAN /\ alarmRuns' \in BOOLEAN
      BY <3>1, ZenonT(60) DEF DriverTypeOK
    <3>3. faults' \in 0..MaxFaults BY <3>1, BoundsAssumption DEF DriverTypeOK
    <3>4. QED BY <3>2, <3>3
  <2>2. UNCHANGED <<mainVars, agentVars, requestVars, turnCount, crashes, calls>>
    BY <1>61 DEF WakeFails
  <2>3. QED BY <1>1, <2>1, <2>2, ZenonT(60) DEF mainVars, agentVars, requestVars, DriverTypeOK
<1>7. CASE RescheduleRequested
  BY <1>7, <1>1, <1>2 DEF RescheduleRequested, Call, mainVars, agentVars, requestVars,
    DriverTypeOK
<1>8. CASE Timeout
  BY <1>8, <1>1, <1>2, TurnUpdates, TurnFacts, ZenonT(60) DEF Timeout, StopWork, agentVars,
    requestVars, wakeVars, boundVars, DriverTypeOK, HasTurn, Opened
<1>9. CASE requestTurnCancellation
  <2>1. turn' \in Turns BY <1>9, TurnUpdates, TurnFacts DEF requestTurnCancellation
  <2>2. QED
    BY <1>9, <1>1, <2>1 DEF requestTurnCancellation, agentVars, requestVars, wakeVars,
      boundVars, DriverTypeOK
<1>10. CASE ResumeStale
  <2>1. CASE pc' = "dispatching" /\ resident' = [resident EXCEPT ![target] = "live"]
    <3>1. /\ UNCHANGED <<driving, target, fromAlarm, interrupted, turn, wake, alarm, alarmRuns>>
          /\ UNCHANGED <<turnCount, crashes, calls, joined, seen, steer, aim, streams, arming>>
      BY <1>10, <2>1 DEF ResumeStale, StopDriving, wakeVars, boundVars
    <3>2. acked' \subseteq acked BY <1>10, <2>1 DEF ResumeStale
    <3>3. faults' = faults BY <1>10, <2>1 DEF ResumeStale, StopDriving, boundVars
    <3>4. gate' \in [Inputs -> Inbox \cup {"none", "taken"}]
      BY <1>10, <2>1 DEF ResumeStale, StopDriving, InboxCleared, DriverTypeOK
    <3>5. QED BY <1>1, <2>1, <3>1, <3>2, <3>3, <3>4 DEF DriverTypeOK
  <2>2. CASE StopDriving /\ UNCHANGED <<resident, acked>>
    <3>1. /\ UNCHANGED <<turn, alarm, alarmRuns, turnCount, crashes, calls>>
          /\ UNCHANGED <<gate, joined, seen, steer, aim, streams, arming>>
      BY <1>10, <2>2 DEF ResumeStale, StopDriving, wakeVars, boundVars
    <3>2. faults' \in 0..MaxFaults
      BY <1>10, <2>2 DEF ResumeStale, StopDriving, boundVars, DriverTypeOK
    <3>3. QED BY <1>1, <2>2, <3>1, <3>2 DEF StopDriving, DriverTypeOK
  <2>3. QED BY <1>10, <2>1, <2>2 DEF ResumeStale
<1>11. CASE ArmClaim
  <2>1. alarm' \in BOOLEAN /\ faults' \in 0..MaxFaults
    BY <1>11, HasWorkType DEF ArmClaim, Fault, DriverTypeOK
  <2>2. /\ UNCHANGED <<turn, alarmRuns, turnCount, crashes, calls>>
        /\ UNCHANGED <<agentVars, requestVars>>
        /\ \/ pc' = "claimTurn" /\ UNCHANGED <<driving, target, fromAlarm, interrupted, wake>>
           \/ StopDriving
    BY <1>11 DEF ArmClaim
  <2>3. QED BY <1>1, <2>1, <2>2 DEF StopDriving, agentVars, requestVars, DriverTypeOK
<1>12. CASE ClaimTurn
  <2>1. turnCount + 1 \in 1..MaxTurns /\ target \in Sessions
    BY <1>12 DEF ClaimTurn, DriverTypeOK, DriveOK, BetweenTurns
  <2>2. turn' \in Turns BY <1>12, <2>1 DEF ClaimTurn, NewTurn, Turns
  <2>3. QED BY <1>12, <1>1, <2>1, <2>2 DEF ClaimTurn, agentVars, requestVars, wakeVars, DriverTypeOK
<1>13. CASE OpenAgent
  BY <1>13, <1>1, <1>2, ZenonT(60) DEF OpenAgent, ResumeBegins, requestVars, wakeVars,
    boundVars, DriverTypeOK
<1>14. CASE StartTurn
  <2>1. turn \in Turns /\ turn.cancelled \in BOOLEAN
    BY <1>14, TurnFacts DEF StartTurn, TurnOK, HasTurn
  <2>2. turn' = [turn EXCEPT !.open = TRUE, !.stopped = turn.cancelled]
    BY <1>14 DEF StartTurn, StopPending
  <2>3. turn' \in Turns BY <2>1, <2>2, TurnUpdates
  <2>4. /\ pc' = "admitting" /\ resident' \in [Sessions -> {"cold", "byMain", "byRename", "live"}]
        /\ gate' \in [Inputs -> Inbox \cup {"none", "taken"}]
    BY <1>14 DEF StartTurn, DriverTypeOK, Inbox, Gated
  <2>5. QED BY <1>14, <1>1, <2>3, <2>4 DEF StartTurn, requestVars, wakeVars, boundVars, DriverTypeOK
<1>15. CASE OpenFails BY <1>15, <1>1, <1>2 DEF OpenFails, Fault, requestVars, wakeVars, DriverTypeOK
<1>16. CASE Admitted
  <2>1. turn' \in Turns BY <1>16, TurnUpdates, TurnFacts DEF Admitted, HasTurn, Opened
  <2>2. QED
    BY <1>16, <1>1, <2>1 DEF Admitted, agentVars, requestVars, wakeVars, boundVars, DriverTypeOK
<1>17. CASE Closing
  BY <1>17, <1>1, <1>2, TurnUpdates, TurnFacts, ZenonT(60) DEF Closing, NothingPending,
    AgentIdle, agentVars, requestVars, wakeVars, boundVars, DriverTypeOK, HasTurn, Opened
<1>18. CASE Release
  <2>1. /\ gate' \in [Inputs -> Inbox \cup {"none", "taken"}]
        /\ interrupted' \in {"no", "timeout", "failure"} /\ faults' \in 0..MaxFaults
    BY <1>18 DEF Release, Fault, DriverTypeOK
  <2>2. QED BY <1>18, <1>1, <2>1 DEF Release, requestVars, wakeVars, DriverTypeOK
<1>19. CASE Finish BY <1>19, <1>1, <1>2 DEF Finish, StopDriving, agentVars, boundVars, DriverTypeOK
<1>20. CASE EndCall
  BY <1>20, <1>1, <1>2, DriveType DEF EndCall, requestVars, wakeVars, boundVars, DriverTypeOK
<1>21. CASE JoinTurn
  BY <1>21, <1>1, <1>2, TurnFacts DEF JoinTurn, Call, mainVars, requestVars, wakeVars,
    DriverTypeOK
<1>22. CASE JoinedSettles
  BY <1>22, <1>1, <1>2 DEF JoinedSettles, mainVars, requestVars, wakeVars, boundVars,
    DriverTypeOK
<1>23. ASSUME NEW s \in Sessions, withAgentControl(s) PROVE DriverTypeOK'
  BY <1>23, <1>1, <1>2 DEF withAgentControl, Call, agentVars, requestVars, wakeVars,
    DriverTypeOK
<1>24. ASSUME NEW s \in Sessions, withAgentTurn(s) PROVE DriverTypeOK'
  BY <1>24, <1>1, <1>2 DEF withAgentTurn, Call, agentVars, requestVars, wakeVars, DriverTypeOK
<1>25. ASSUME NEW s \in Sessions, RenameBegins(s) PROVE DriverTypeOK'
  BY <1>25, <1>1, <1>2 DEF RenameBegins, Call, mainVars, requestVars, wakeVars, DriverTypeOK
<1>26. ASSUME NEW s \in Sessions, RenameEnds(s) PROVE DriverTypeOK'
  BY <1>26, <1>1, <1>2 DEF RenameEnds, mainVars, requestVars, wakeVars, boundVars, DriverTypeOK
<1>27. ASSUME NEW i \in Inputs, RetryPrompt(i) PROVE DriverTypeOK'
  BY <1>27, <1>1, <1>2 DEF RetryPrompt, Call, mainVars, agentVars, wakeVars, DriverTypeOK
<1>28. ASSUME NEW i \in Inputs, AnswerPrompt(i) PROVE DriverTypeOK'
  BY <1>28, <1>1, <1>2, HasWorkType, KickType DEF AnswerPrompt, AckedAfter, mainVars, agentVars,
    boundVars, DriverTypeOK
<1>29. ASSUME NEW i \in Inputs, Disconnect(i) PROVE DriverTypeOK'
  BY <1>29, <1>1, <1>2 DEF Disconnect, mainVars, agentVars, wakeVars, boundVars, DriverTypeOK
<1>30. ASSUME NEW i \in Inputs, RemoveQueued(i) PROVE DriverTypeOK'
  BY <1>30, <1>1, <1>2, KickType DEF RemoveQueued, mainVars, agentVars, wakeVars, boundVars,
    DriverTypeOK
<1>31. ASSUME NEW i \in Inputs, SteerBegins(i) PROVE DriverTypeOK'
  BY <1>31, <1>1, <1>2, TurnFacts DEF SteerBegins, mainVars, agentVars, wakeVars, boundVars,
    DriverTypeOK
<1>32. ASSUME NEW i \in Inputs, SteerReady(i) PROVE DriverTypeOK'
  BY <1>32, <1>1, <1>2 DEF SteerReady, AbandonSteer, mainVars, agentVars, wakeVars, boundVars,
    DriverTypeOK
<1>33. ASSUME NEW i \in Inputs, SteerEnqueue(i) PROVE DriverTypeOK'
  <2>1. /\ steer' \in [Inputs -> {"idle", "ready", "enqueue", "armed", "stranded", "inbox"}]
        /\ aim' \in [Inputs -> 0..MaxTurns]
    BY <1>33, BoundsAssumption DEF SteerEnqueue, AbandonSteer, DriverTypeOK
  <2>4. wake' \in BOOLEAN BY <1>33, ZenonT(60) DEF SteerEnqueue, DriverTypeOK
  <2>2. UNCHANGED <<mainVars, agentVars, streams, arming, acked, alarm, alarmRuns, boundVars>>
    BY <1>33 DEF SteerEnqueue
  <2>3. QED BY <1>1, <2>1, <2>2, <2>4, ZenonT(60) DEF mainVars, agentVars, boundVars, DriverTypeOK
<1>331. ASSUME NEW i \in Inputs, AnswerFails(i) PROVE DriverTypeOK'
  BY <1>331, <1>1, <1>2 DEF AnswerFails, Fault, mainVars, agentVars, wakeVars, DriverTypeOK
<1>332. ASSUME NEW i \in Inputs, SteerWakeFails(i) \/ RetrySteer(i)
        PROVE  DriverTypeOK'
  <2>1. /\ steer' \in [Inputs -> {"idle", "ready", "enqueue", "armed", "stranded", "inbox"}]
        /\ faults' \in 0..MaxFaults /\ calls' \in 0..MaxCalls
    BY <1>332, BoundsAssumption DEF SteerWakeFails, RetrySteer, Fault, Call, requestVars,
      wakeVars, DriverTypeOK
  <2>4. wake' \in BOOLEAN
    BY <1>332, ZenonT(60) DEF SteerWakeFails, RetrySteer, wakeVars, DriverTypeOK
  <2>2. UNCHANGED <<mainVars, agentVars, aim, streams, arming, acked, alarm, alarmRuns, turnCount, crashes>>
    BY <1>332 DEF SteerWakeFails, RetrySteer, Call, requestVars, wakeVars
  <2>3. QED BY <1>1, <2>1, <2>2, <2>4, ZenonT(60) DEF mainVars, agentVars, DriverTypeOK
<1>333. ASSUME NEW i \in Inputs, ConsumptionCommits(i) PROVE DriverTypeOK'
  BY <1>333, <1>1, <1>2 DEF ConsumptionCommits, mainVars, requestVars, wakeVars, boundVars,
    DriverTypeOK
<1>34. ASSUME NEW i \in Inputs, SteerAdmit(i) PROVE DriverTypeOK'
  <2>1. /\ alarm' \in BOOLEAN
        /\ gate' \in [Inputs -> Inbox \cup {"none", "taken"}]
        /\ steer' \in [Inputs -> {"idle", "ready", "enqueue", "armed", "stranded", "inbox"}]
    BY <1>34, HasWorkType DEF SteerAdmit, DriverTypeOK, Inbox, Gated
  <2>2. QED BY <1>34, <1>1, <2>1 DEF SteerAdmit, mainVars, boundVars, DriverTypeOK
<1>35. ASSUME NEW i \in Inputs, Promote(i) PROVE DriverTypeOK'
  BY <1>35, <1>1, <1>2, TurnFacts DEF Promote, mainVars, wakeVars, boundVars, DriverTypeOK,
    Inbox, Gated
<1>36. ASSUME NEW i \in Inputs, AppendCommits(i) PROVE DriverTypeOK'
  BY <1>36, <1>1, <1>2 DEF AppendCommits, mainVars, agentVars, requestVars, wakeVars, boundVars,
    DriverTypeOK
<1>37. ASSUME NEW i \in Inputs, FlushOk(i) PROVE DriverTypeOK'
  BY <1>37, <1>1, <1>2 DEF FlushOk, mainVars, wakeVars, boundVars, DriverTypeOK, Inbox, Gated
<1>38. ASSUME NEW i \in Inputs, FlushFails(i) PROVE DriverTypeOK'
  BY <1>38, <1>1, <1>2 DEF FlushFails, Fault, mainVars, wakeVars, DriverTypeOK, Inbox, Gated
<1>39. ASSUME NEW i \in Inputs, PreStep(i) PROVE DriverTypeOK'
  <2>1. turn.id \in 0..MaxTurns BY <1>39, TurnFacts DEF PreStep, TurnOK, HasTurn, Opened
  <2>2. /\ gate' \in [Inputs -> Inbox \cup {"none", "taken"}]
        /\ seen' \in [Inputs -> 0..MaxTurns]
    BY <1>39, <2>1 DEF PreStep, DriverTypeOK
  <2>3. QED
    BY <1>39, <1>1, <2>2 DEF PreStep, mainVars, requestVars, wakeVars, boundVars, DriverTypeOK
<1>40. ASSUME NEW i \in Inputs, NEW w \in Weights, SubmitPrompt(i, w) PROVE DriverTypeOK'
  BY <1>40, <1>1, <1>2 DEF SubmitPrompt, mainVars, agentVars, wakeVars, boundVars, DriverTypeOK
<1>41. ASSUME NEW i \in Inputs, NEW w \in Weights, EditQueued(i, w) PROVE DriverTypeOK'
  BY <1>41, <1>1, <1>2, KickType DEF EditQueued, mainVars, agentVars, requestVars, wakeVars,
    boundVars, DriverTypeOK
<1>42. CASE Crash
  <2>1. alarm' \in BOOLEAN /\ crashes' \in 0..MaxCrashes BY <1>42 DEF Crash, DriverTypeOK
  <2>2. aim' \in [Inputs -> 0..MaxTurns] BY <1>42 DEF Crash, DriverTypeOK
  <2>3. /\ resident' \in [Sessions -> {"cold", "byMain", "byRename", "live"}]
        /\ gate' \in [Inputs -> Inbox \cup {"none", "taken"}]
        /\ steer' \in [Inputs -> {"idle", "ready", "enqueue", "armed", "stranded", "inbox"}]
    BY <1>42 DEF Crash, LeftBehind, Inbox, Leftover
  <2>4. /\ driving' = "free" /\ pc' = "off" /\ target' = None /\ fromAlarm' = FALSE
        /\ interrupted' = "no" /\ turn' = None /\ streams' = {} /\ arming' = {}
        /\ wake' = FALSE /\ alarmRuns' = FALSE
    BY <1>42 DEF Crash
  <2>5. joined' \in 0..MaxTurns BY <1>42 DEF Crash
  <2>6. /\ acked' \subseteq Inputs /\ seen' \in [Inputs -> 0..MaxTurns]
        /\ turnCount' \in 0..MaxTurns /\ faults' \in 0..MaxFaults /\ calls' \in 0..MaxCalls
    BY <1>42 DEF Crash, DriverTypeOK
  <2>7. QED BY <1>1, <2>1, <2>2, <2>3, <2>4, <2>5, <2>6 DEF DriverTypeOK
<1>43. CASE UNCHANGED driverVars
  BY <1>1, <1>43 DEF driverVars, mainVars, agentVars, requestVars, wakeVars, boundVars, DriverTypeOK
<1>44. QED
  BY <1>3, <1>4, <1>5, <1>6, <1>7, <1>8, <1>9, <1>10, <1>11, <1>12, <1>13, <1>14, <1>15, <1>16,
     <1>17, <1>18, <1>19, <1>20, <1>21, <1>22, <1>23, <1>24, <1>25, <1>26, <1>27, <1>28, <1>29,
     <1>30, <1>31, <1>32, <1>33, <1>34, <1>35, <1>36, <1>37, <1>38, <1>39, <1>40, <1>41, <1>42,
     <1>43, <1>61, <1>331, <1>332, <1>333
     DEF DriverNext, DriveStep, CallStep, RequestStep

\* The holder and the claim stand where they stood.
LEMMA DriveKept ==
    ASSUME DriveOK, UNCHANGED <<driving, pc, target, slot>>,
           driving = "driver" /\ pc \in BeforeTurn => row'[slot] = row[slot]
    PROVE  DriveOK'
  BY DEF DriveOK

\* A drive that starts between residencies finds the slot as DriveOK says.
LEMMA DriveStarts ==
    ASSUME TypeOK, NEW byAlarm \in BOOLEAN, Drive(byAlarm), UNCHANGED slot PROVE DriveOK'
<1>1. slot # None => SessionOf[slot] # None BY InputsAssumption, SessionsAssumption DEF TypeOK
<1>2. QED BY <1>1 DEF Drive, DriveOK, BetweenTurns, BeforeTurn

\* Who holds the main slot, step by step.
LEMMA DriveStepOK ==
    DriverTypeOK /\ DriveOK /\ TurnOK /\ InboxesOK /\ [DriverNext]_driverVars => DriveOK'
<1> SUFFICES ASSUME DriverTypeOK, DriveOK, TurnOK, InboxesOK, [DriverNext]_driverVars PROVE DriveOK'
  OBVIOUS
<1>1. /\ TypeOK /\ slot \in Inputs \cup {None}
      /\ slot # None => SessionOf[slot] \in Sessions
      /\ target \in Sessions \cup {None} /\ driving \in {"free", "driver", "call"}
      /\ None \notin Sessions /\ None \notin Inputs
  BY InputsAssumption, SessionsAssumption DEF DriverTypeOK, TypeOK
<1>2. CASE DispatchDue
  <2>1. /\ UNCHANGED <<driving, target>> /\ slot' = slot /\ pc = "dispatching" /\ pc' = "claiming"
    BY <1>2, <1>1, RowMoves, InputsAssumption DEF DispatchDue, vars, slotVars
  <2>2. QED BY <2>1 DEF DriveOK, BetweenTurns, BeforeTurn, TurnSteps, HasTurn, Opened
<1>3. CASE Claim
  <2>1. /\ pc = "claiming"
        /\ \/ /\ pc' = "arming" /\ driving' = driving /\ slot' \in Inputs /\ row'[slot'] = "claimed"
              /\ target' = SessionOf[slot']
           \/ driving' = "free" /\ pc' = "off"
    BY <1>3, <1>1, ClaimMoves DEF Claim, StopDriving, Moves
  <2>2. slot' \in Inputs => SessionOf[slot'] # None /\ slot' # None
    BY InputsAssumption, SessionsAssumption
  <2>3. QED BY <2>1, <2>2 DEF DriveOK, BetweenTurns, BeforeTurn, TurnSteps, HasTurn, Opened
<1>4. CASE AlarmFires
  <2>1. UNCHANGED <<slot, row>> BY <1>4 DEF AlarmFires, vars, inputVars, slotVars
  <2>2. CASE StartDriving(TRUE) BY <1>1, <2>1, <2>2, DriveStarts DEF StartDriving
  <2>3. CASE UNCHANGED mainVars BY <2>1, <2>3, DriveKept DEF mainVars
  <2>4. QED BY <1>4, <2>2, <2>3 DEF AlarmFires
<1>5. CASE scheduleMainWake \/ WakeFails \/ RescheduleRequested
  <2>1. UNCHANGED <<driving, pc, target, slot, row>>
    BY <1>5 DEF scheduleMainWake, WakeFails, mainVars, RescheduleRequested, vars, inputVars,
      slotVars
  <2>2. QED BY <2>1, DriveKept
<1>6. CASE Timeout \/ requestTurnCancellation
  <2>1. UNCHANGED <<driving, pc, target, slot, row>>
    BY <1>6 DEF Timeout, requestTurnCancellation, vars, inputVars, slotVars
  <2>2. QED BY <2>1, DriveKept
<1>7. CASE ResumeStale
  <2>1. pc = "resuming" /\ driving = "driver"
    BY <1>7, <1>1 DEF ResumeStale, DriveOK, TurnSteps, HasTurn, Opened
  <2>2. \/ pc' = "dispatching" /\ driving' = driving /\ slot' = None /\ target' = target
        \/ driving' = "free" /\ pc' = "off"
    BY <1>7 DEF ResumeStale, StopDriving, finish
  <2>3. QED BY <2>1, <2>2 DEF DriveOK, BetweenTurns, BeforeTurn, TurnSteps, HasTurn, Opened
<1>8. CASE ArmClaim
  <2>1. UNCHANGED <<slot, row>> BY <1>8 DEF ArmClaim, vars, inputVars, slotVars
  <2>2. QED
    BY <1>8, <1>1, <2>1 DEF ArmClaim, StopDriving, DriveOK, TurnOK, BetweenTurns, BeforeTurn,
      TurnSteps, HasTurn, Opened
<1>9. CASE ClaimTurn
  <2>1. UNCHANGED <<slot, row>> BY <1>9 DEF ClaimTurn, vars, inputVars, slotVars
  <2>2. QED
    BY <1>9, <1>1, <2>1 DEF ClaimTurn, DriveOK, TurnOK, BetweenTurns, BeforeTurn, TurnSteps,
      HasTurn, Opened
<1>10. CASE OpenAgent
  <2>1. UNCHANGED <<slot, row>> BY <1>10 DEF OpenAgent, vars, inputVars, slotVars
  <2>2. QED
    BY <1>10, <1>1, <2>1 DEF OpenAgent, DriveOK, TurnOK, BetweenTurns, BeforeTurn, TurnSteps,
      HasTurn, Opened
<1>11. CASE StartTurn
  <2>1. UNCHANGED <<slot, row>> BY <1>11 DEF StartTurn, vars, inputVars, slotVars
  <2>2. QED
    BY <1>11, <1>1, <2>1 DEF StartTurn, DriveOK, TurnOK, BetweenTurns, BeforeTurn, TurnSteps,
      HasTurn, Opened
<1>12. CASE OpenFails
  <2>1. UNCHANGED <<slot, row>> BY <1>12 DEF OpenFails, vars, inputVars, slotVars
  <2>2. QED
    BY <1>12, <1>1, <2>1 DEF OpenFails, DriveOK, TurnOK, BetweenTurns, BeforeTurn, TurnSteps,
      HasTurn, Opened
<1>13. CASE Admitted
  <2>1. UNCHANGED <<slot, row>> BY <1>13 DEF Admitted, vars, inputVars, slotVars
  <2>2. QED
    BY <1>13, <1>1, <2>1 DEF Admitted, DriveOK, TurnOK, BetweenTurns, BeforeTurn, TurnSteps,
      HasTurn, Opened
<1>14. CASE Closing
  <2>1. UNCHANGED <<slot, row>> BY <1>14 DEF Closing, vars, inputVars, slotVars
  <2>2. QED
    BY <1>14, <1>1, <2>1 DEF Closing, DriveOK, TurnOK, BetweenTurns, BeforeTurn, TurnSteps,
      HasTurn, Opened
<1>15. CASE Release
  <2>1. UNCHANGED <<slot, row>> BY <1>15 DEF Release, vars, inputVars, slotVars
  <2>2. QED
    BY <1>15, <1>1, <2>1 DEF Release, DriveOK, TurnOK, BetweenTurns, BeforeTurn, TurnSteps,
      HasTurn, Opened
<1>16. CASE Finish
  <2>1. /\ pc = "finishing" /\ driving = "driver"
        /\ \/ pc' = "dispatching" /\ driving' = driving /\ slot' = None /\ target' = target
           \/ driving' = "free" /\ pc' = "off"
    BY <1>16 DEF Finish, StopDriving, finish
  <2>2. QED BY <2>1 DEF DriveOK, BetweenTurns, BeforeTurn, TurnSteps, HasTurn, Opened
<1>17. CASE EndCall
  <2>1. Drive(FALSE) /\ slot' = slot BY <1>17 DEF EndCall, vars, slotVars
  <2>2. QED BY <1>1, <2>1, DriveStarts
<1>18. CASE JoinTurn \/ JoinedSettles
  <2>1. UNCHANGED <<driving, pc, target, slot, row>>
    BY <1>18 DEF JoinTurn, mainVars, JoinedSettles, vars, inputVars, slotVars
  <2>2. QED BY <2>1, DriveKept
<1>19. ASSUME NEW s \in Sessions, withAgentControl(s) PROVE DriveOK'
  <2>1. UNCHANGED <<slot, row>> BY <1>19 DEF withAgentControl, vars, inputVars, slotVars
  <2>2. QED
    BY <1>19, <1>1, <2>1 DEF withAgentControl, FreeMain, DriveOK, TurnOK, BetweenTurns,
      BeforeTurn, TurnSteps, HasTurn, Opened
<1>20. ASSUME NEW s \in Sessions, withAgentTurn(s) PROVE DriveOK'
  <2>1. UNCHANGED <<slot, row>> BY <1>20 DEF withAgentTurn, vars, inputVars, slotVars
  <2>2. QED
    BY <1>20, <1>1, <2>1 DEF withAgentTurn, FreeMain, DriveOK, TurnOK, BetweenTurns, BeforeTurn,
      TurnSteps, HasTurn, Opened
<1>21. ASSUME NEW s \in Sessions, RenameBegins(s) \/ RenameEnds(s)
       PROVE  DriveOK'
  <2>1. UNCHANGED <<driving, pc, target, slot, row>>
    BY <1>21 DEF RenameBegins, mainVars, RenameEnds, vars, inputVars, slotVars
  <2>2. QED BY <2>1, DriveKept
<1>22. ASSUME NEW i \in Inputs, RetryPrompt(i) \/ Disconnect(i) \/ SteerBegins(i) \/
              SteerReady(i) \/ FlushOk(i) \/ PreStep(i) \/ ConsumptionCommits(i) \/
              AnswerFails(i) \/ SteerWakeFails(i) \/ RetrySteer(i)
       PROVE  DriveOK'
  <2>1. UNCHANGED <<driving, pc, target, slot, row>>
    BY <1>22 DEF RetryPrompt, mainVars, Disconnect, SteerBegins, SteerReady, FlushOk, PreStep,
      ConsumptionCommits, AnswerFails, SteerWakeFails, RetrySteer, vars, inputVars, slotVars
  <2>2. QED BY <2>1, DriveKept
<1>23. ASSUME NEW i \in Inputs, AnswerPrompt(i) PROVE DriveOK'
  <2>1. slot' = slot /\ (slot # None /\ row[slot] = "claimed" => row'[slot] = row[slot])
    BY <1>23, RowMoves, <1>1 DEF AnswerPrompt, Moves, vars, inputVars, slotVars
  <2>2. CASE StartDriving(FALSE) BY <1>1, <2>1, <2>2, DriveStarts DEF StartDriving
  <2>3. CASE UNCHANGED mainVars
    BY <2>1, <2>3, DriveKept DEF mainVars, DriveOK, BeforeTurn, BetweenTurns
  <2>4. QED BY <1>23, <2>2, <2>3 DEF AnswerPrompt, kickMain
<1>24. ASSUME NEW i \in Inputs, RemoveQueued(i) PROVE DriveOK'
  <2>1. slot' = slot /\ (slot # None /\ row[slot] = "claimed" => row'[slot] = row[slot])
    BY <1>24, RowMoves, <1>1 DEF RemoveQueued, Moves, vars, inputVars, slotVars
  <2>2. CASE StartDriving(FALSE) BY <1>1, <2>1, <2>2, DriveStarts DEF StartDriving
  <2>3. CASE UNCHANGED mainVars
    BY <2>1, <2>3, DriveKept DEF mainVars, DriveOK, BeforeTurn, BetweenTurns
  <2>4. QED BY <1>24, <2>2, <2>3 DEF RemoveQueued, kickMain
<1>25. ASSUME NEW i \in Inputs, SteerEnqueue(i) PROVE DriveOK'
  <2>1. UNCHANGED <<driving, pc, target, slot>>
    BY <1>25, RowMoves, <1>1 DEF SteerEnqueue, mainVars, vars, inputVars, slotVars
  <2>2. driving = "driver" /\ pc \in BeforeTurn => row'[slot] = row[slot]
    BY <1>25, RowMoves, <1>1 DEF SteerEnqueue, Moves, DriveOK, BeforeTurn, BetweenTurns, vars, inputVars, slotVars
  <2>3. QED BY <2>1, <2>2, DriveKept
<1>26. ASSUME NEW i \in Inputs, SteerAdmit(i) PROVE DriveOK'
  <2>1. UNCHANGED <<driving, pc, target, slot>>
    BY <1>26, RowMoves, <1>1 DEF SteerAdmit, mainVars, RefuseSteer, vars, inputVars, slotVars
  <2>2. driving = "driver" /\ pc \in BeforeTurn => row'[slot] = row[slot]
    BY <1>26, RowMoves, <1>1 DEF SteerAdmit, Moves, DriveOK, BeforeTurn, BetweenTurns, RefuseSteer, vars, inputVars, slotVars
  <2>3. QED BY <2>1, <2>2, DriveKept
<1>27. ASSUME NEW i \in Inputs, Promote(i) PROVE DriveOK'
  <2>1. UNCHANGED <<driving, pc, target, slot>> BY <1>27, RowMoves, <1>1 DEF Promote, mainVars
  <2>2. driving = "driver" /\ pc \in BeforeTurn => row'[slot] = row[slot]
    BY <1>27, RowMoves, <1>1 DEF Promote, Moves, DriveOK, BeforeTurn, BetweenTurns
  <2>3. QED BY <2>1, <2>2, DriveKept
<1>28. ASSUME NEW i \in Inputs, AppendCommits(i) PROVE DriveOK'
  <2>1. UNCHANGED <<driving, pc, target, slot>> BY <1>28, RowMoves, <1>1 DEF AppendCommits, mainVars
  <2>2. pc \notin BeforeTurn BY <1>28 DEF AppendCommits, InboxesOK, InboxOK, BeforeTurn, Gated
  <2>3. QED BY <2>1, <2>2, DriveKept
<1>29. ASSUME NEW i \in Inputs, FlushFails(i) PROVE DriveOK'
  <2>1. UNCHANGED <<driving, pc, target, slot>>
    BY <1>29, RowMoves, <1>1 DEF FlushFails, mainVars, vars, inputVars, slotVars
  <2>2. driving = "driver" /\ pc \in BeforeTurn => row'[slot] = row[slot]
    BY <1>29, RowMoves, <1>1 DEF FlushFails, Moves, DriveOK, BeforeTurn, BetweenTurns, vars, inputVars, slotVars
  <2>3. QED BY <2>1, <2>2, DriveKept
<1>30. ASSUME NEW i \in Inputs, NEW w \in Weights, SubmitPrompt(i, w) PROVE DriveOK'
  <2>1. UNCHANGED <<driving, pc, target, slot>> BY <1>30, RowMoves, <1>1 DEF SubmitPrompt, mainVars
  <2>2. driving = "driver" /\ pc \in BeforeTurn => row'[slot] = row[slot]
    BY <1>30, RowMoves, <1>1 DEF SubmitPrompt, Moves, DriveOK, BeforeTurn, BetweenTurns
  <2>3. QED BY <2>1, <2>2, DriveKept
<1>31. ASSUME NEW i \in Inputs, NEW w \in Weights, EditQueued(i, w) PROVE DriveOK'
  <2>1. slot' = slot /\ (slot # None /\ row[slot] = "claimed" => row'[slot] = row[slot])
    BY <1>31, RowMoves, <1>1 DEF EditQueued, Moves, vars, inputVars, slotVars
  <2>2. CASE StartDriving(FALSE) BY <1>1, <2>1, <2>2, DriveStarts DEF StartDriving
  <2>3. CASE UNCHANGED mainVars
    BY <2>1, <2>3, DriveKept DEF mainVars, DriveOK, BeforeTurn, BetweenTurns
  <2>4. QED BY <1>31, <2>2, <2>3 DEF EditQueued, kickMain
<1>32. CASE Crash BY <1>32 DEF Crash, DriveOK, BetweenTurns, BeforeTurn, TurnSteps, HasTurn, Opened
<1>33. CASE UNCHANGED driverVars
  BY <1>33, DriveKept DEF driverVars, mainVars, vars, inputVars, slotVars
<1>34. QED
  BY <1>2, <1>3, <1>4, <1>5, <1>6, <1>7, <1>8, <1>9, <1>10, <1>11, <1>12, <1>13, <1>14, <1>15,
     <1>16, <1>17, <1>18, <1>19, <1>20, <1>21, <1>22, <1>23, <1>24, <1>25, <1>26, <1>27, <1>28,
     <1>29, <1>30, <1>31, <1>32, <1>33
     DEF DriverNext, DriveStep, CallStep, RequestStep

\* No turn is registered, before and after.
LEMMA NoTurn ==
    ASSUME TurnOK, turn = None, turn' = None, pc' \notin HasTurn, joined' \in {0, joined}
    PROVE  TurnOK'
  BY DEF TurnOK

\* The registered turn, step by step.
LEMMA TurnStepOK ==
    DriverTypeOK /\ DriveOK /\ TurnOK /\ DriverTypeOK' /\ [DriverNext]_driverVars => TurnOK'
<1> SUFFICES ASSUME DriverTypeOK, DriveOK, TurnOK, DriverTypeOK', [DriverNext]_driverVars
             PROVE  TurnOK'
  OBVIOUS
<1>1. driving = "free" => turn = None BY DEF DriveOK, TurnOK, HasTurn, Opened
<1>3. CASE DispatchDue
  <2>1. turn = None /\ turn' = None /\ pc' \notin HasTurn /\ joined' = joined
    BY <1>3, <1>1 DEF DispatchDue, agentVars, TurnOK, HasTurn, Opened
  <2>2. QED BY <2>1, NoTurn
<1>4. CASE Claim
  <2>1. turn = None /\ turn' = None /\ pc' \notin HasTurn /\ joined' = joined
    BY <1>4, <1>1 DEF Claim, StopDriving, agentVars, TurnOK, HasTurn, Opened
  <2>2. QED BY <2>1, NoTurn
<1>5. CASE AlarmFires
  <2>1. UNCHANGED <<joined, turnCount>> /\ (StartDriving(TRUE) \/ UNCHANGED mainVars)
    BY <1>5 DEF AlarmFires, kickMain, agentVars, boundVars
  <2>2. CASE StartDriving(TRUE)
    BY <2>1, <2>2, NoTurn DEF StartDriving, FreeMain, Drive, HasTurn, Opened
  <2>3. CASE UNCHANGED mainVars BY <2>1, <2>3 DEF mainVars, TurnOK
  <2>4. QED BY <2>1, <2>2, <2>3
<1>6. CASE scheduleMainWake \/ WakeFails
  <2>1. UNCHANGED <<pc, target, turn, turnCount, joined>>
    BY <1>6 DEF scheduleMainWake, WakeFails, mainVars, agentVars, boundVars
  <2>2. QED BY <2>1 DEF TurnOK
<1>7. CASE RescheduleRequested
  <2>1. UNCHANGED <<pc, target, turn, turnCount, joined>>
    BY <1>7 DEF RescheduleRequested, mainVars, agentVars, Call
  <2>2. QED BY <2>1 DEF TurnOK
<1>8. CASE Timeout
  <2>1. turn \in Turns /\ turn # None /\ pc \in Opened
    BY <1>8, TurnFacts DEF Timeout, TurnOK, HasTurn, Opened
  <2>2. /\ turn' = [turn EXCEPT !.cancelled = TRUE, !.stopped = TRUE] /\ pc' = pc
        /\ UNCHANGED <<target, turnCount, joined>>
    BY <1>8 DEF Timeout, StopWork, agentVars, boundVars
  <2>3. turn.cancelled \in BOOLEAN /\ turn.open \in BOOLEAN BY <2>1 DEF Turns
  <2>4. /\ turn' # None /\ turn'.session = turn.session /\ turn'.id = turn.id /\ turn'.open = turn.open
        /\ turn'.accepting = turn.accepting /\ turn'.cancelled = TRUE /\ turn'.stopped = TRUE
    BY <2>1, <2>2, <2>3, TurnsAssumption DEF Turns
  <2>5. QED BY <2>1, <2>2, <2>3, <2>4 DEF TurnOK, HasTurn, Opened
<1>9. CASE requestTurnCancellation
  <2>1. turn \in Turns /\ turn # None /\ pc \in HasTurn
    BY <1>9, TurnFacts DEF requestTurnCancellation, TurnOK, HasTurn, Opened
  <2>2. /\ turn' = [turn EXCEPT !.cancelled = TRUE, !.stopped = turn.open] /\ pc' = pc
        /\ UNCHANGED <<target, turnCount, joined>>
    BY <1>9 DEF requestTurnCancellation, agentVars, boundVars
  <2>3. turn.cancelled \in BOOLEAN /\ turn.open \in BOOLEAN BY <2>1 DEF Turns
  <2>4. /\ turn' # None /\ turn'.session = turn.session /\ turn'.id = turn.id /\ turn'.open = turn.open
        /\ turn'.accepting = turn.accepting /\ turn'.cancelled = TRUE /\ turn'.stopped = turn.open
    BY <2>1, <2>2, <2>3, TurnsAssumption DEF Turns
  <2>5. QED BY <2>1, <2>2, <2>3, <2>4 DEF TurnOK, HasTurn, Opened
<1>10. CASE ResumeStale
  <2>1. turn = None /\ turn' = None /\ pc' \notin HasTurn /\ joined' = joined
    BY <1>10, <1>1 DEF ResumeStale, StopDriving, TurnOK, HasTurn, Opened
  <2>2. QED BY <2>1, NoTurn
<1>11. CASE ArmClaim
  <2>1. turn = None /\ turn' = None /\ pc' \notin HasTurn /\ joined' = joined
    BY <1>11, <1>1 DEF ArmClaim, StopDriving, agentVars, TurnOK, HasTurn, Opened
  <2>2. QED BY <2>1, NoTurn
<1>12. CASE ClaimTurn
  <2>1. /\ joined' = joined /\ joined = 0 /\ turn' = NewTurn(target)
        /\ target' = target /\ turnCount' = turnCount + 1 /\ pc' = "opening"
    BY <1>12 DEF ClaimTurn, agentVars, TurnOK, HasTurn, Opened
  <2>2. turn' # None
    <3>1. target \in Sessions /\ turnCount + 1 \in 1..MaxTurns
      BY <1>12, BoundsAssumption DEF ClaimTurn, DriverTypeOK, DriveOK, BetweenTurns
    <3>2. NewTurn(target) \in Turns BY <3>1 DEF NewTurn, Turns
    <3>3. QED BY <2>1, <3>2, TurnsAssumption
  <2>3. QED BY <2>1, <2>2 DEF NewTurn, TurnOK, HasTurn, Opened
<1>13. CASE OpenAgent
  <2>1. /\ UNCHANGED <<turn, target, turnCount, joined>> /\ pc = "opening" /\ pc' = "open"
    BY <1>13 DEF OpenAgent, boundVars
  <2>2. QED BY <2>1 DEF TurnOK, HasTurn, Opened
<1>14. CASE StartTurn
  <2>1. turn \in Turns /\ turn # None /\ pc = "open"
    BY <1>14, TurnFacts DEF StartTurn, TurnOK, HasTurn, Opened
  <2>2. /\ turn' = [turn EXCEPT !.open = TRUE, !.stopped = turn.cancelled] /\ pc' = "admitting"
        /\ UNCHANGED <<target, turnCount, joined>>
    BY <1>14 DEF StartTurn, StopPending, boundVars
  <2>3. turn.cancelled \in BOOLEAN /\ turn.open \in BOOLEAN BY <2>1 DEF Turns
  <2>4. /\ turn' # None /\ turn'.session = turn.session /\ turn'.id = turn.id /\ turn'.open = TRUE
        /\ turn'.accepting = turn.accepting /\ turn'.cancelled = turn.cancelled /\ turn'.stopped = turn.cancelled
    BY <2>1, <2>2, <2>3, TurnsAssumption DEF Turns
  <2>5. QED BY <2>1, <2>2, <2>3, <2>4 DEF TurnOK, HasTurn, Opened
<1>15. CASE OpenFails
  <2>1. turn' = None /\ pc' = "finishing" /\ joined' = joined /\ pc \in {"opening", "open"}
    BY <1>15 DEF OpenFails
  <2>2. QED BY <2>1 DEF TurnOK, HasTurn, Opened
<1>16. CASE Admitted
  <2>1. turn \in Turns /\ turn # None /\ pc = "admitting"
    BY <1>16, TurnFacts DEF Admitted, TurnOK, HasTurn, Opened
  <2>2. /\ turn' = [turn EXCEPT !.accepting = TRUE] \/ turn' = turn
        /\ pc' = "running" /\ UNCHANGED <<target, turnCount, joined>>
    BY <1>16 DEF Admitted, agentVars, boundVars
  <2>3. CASE turn' = turn BY <2>1, <2>2, <2>3 DEF TurnOK, HasTurn, Opened
  <2>4. CASE turn' = [turn EXCEPT !.accepting = TRUE]
    <3>1. /\ turn' # None /\ turn'.session = turn.session /\ turn'.id = turn.id
          /\ turn'.open = turn.open /\ turn'.cancelled = turn.cancelled /\ turn'.stopped = turn.stopped
      BY <2>1, <2>4, TurnsAssumption DEF Turns
    <3>2. QED BY <2>1, <2>2, <3>1 DEF TurnOK, HasTurn, Opened
  <2>5. QED BY <2>2, <2>3, <2>4
<1>17. CASE Closing
  <2>1. turn \in Turns /\ turn # None /\ pc = "running" /\ joined = 0
    BY <1>17, TurnFacts DEF Closing, TurnOK, HasTurn, Opened, NothingPending
  <2>2. /\ turn' = [turn EXCEPT !.accepting = FALSE] /\ pc' = "draining"
        /\ UNCHANGED <<target, turnCount, joined>>
    BY <1>17 DEF Closing, agentVars, boundVars
  <2>3. turn.cancelled \in BOOLEAN /\ turn.open \in BOOLEAN BY <2>1 DEF Turns
  <2>4. /\ turn' # None /\ turn'.session = turn.session /\ turn'.id = turn.id /\ turn'.open = turn.open
        /\ turn'.accepting = FALSE /\ turn'.cancelled = turn.cancelled /\ turn'.stopped = turn.stopped
    BY <2>1, <2>2, <2>3, TurnsAssumption DEF Turns
  <2>5. QED BY <2>1, <2>2, <2>3, <2>4 DEF TurnOK, HasTurn, Opened
<1>18. CASE Release
  <2>1. turn' = None /\ pc' = "finishing" /\ joined' = joined /\ pc = "draining"
    BY <1>18 DEF Release, agentVars
  <2>2. QED BY <2>1 DEF TurnOK, HasTurn, Opened
<1>19. CASE Finish
  <2>1. turn = None /\ turn' = None /\ pc' \notin HasTurn /\ joined' = joined
    BY <1>19, <1>1 DEF Finish, StopDriving, agentVars, TurnOK, HasTurn, Opened
  <2>2. QED BY <2>1, NoTurn
<1>20. CASE EndCall
  <2>1. turn = None /\ turn' = None /\ pc' \notin HasTurn /\ joined' = joined
    BY <1>20, <1>1 DEF EndCall, Drive, DriveOK, TurnOK, HasTurn, Opened
  <2>2. QED BY <2>1, NoTurn
<1>21. CASE JoinTurn
  <2>1. /\ UNCHANGED <<pc, target, turn, turnCount>> /\ turn # None /\ turn.accepting
        /\ joined' = turn.id
    BY <1>21 DEF JoinTurn, Call, mainVars
  <2>2. QED BY <2>1 DEF TurnOK
<1>22. CASE JoinedSettles
  <2>1. UNCHANGED <<pc, target, turn, turnCount>> /\ joined' = 0
    BY <1>22 DEF JoinedSettles, mainVars, boundVars
  <2>2. QED BY <2>1 DEF TurnOK
<1>23. ASSUME NEW s \in Sessions, withAgentControl(s) PROVE TurnOK'
  <2>1. turn = None /\ turn' = None /\ pc' \notin HasTurn /\ joined' = joined
    BY <1>23, <1>1 DEF withAgentControl, FreeMain, agentVars, TurnOK, HasTurn, Opened
  <2>2. QED BY <2>1, NoTurn
<1>24. ASSUME NEW s \in Sessions, withAgentTurn(s) PROVE TurnOK'
  <2>1. turn = None /\ turn' = None /\ pc' \notin HasTurn /\ joined' = joined
    BY <1>24 DEF withAgentTurn, FreeMain, agentVars, HasTurn, Opened
  <2>2. QED BY <2>1, NoTurn
<1>25. ASSUME NEW s \in Sessions, RenameBegins(s) PROVE TurnOK'
  <2>1. UNCHANGED <<pc, target, turn, turnCount, joined>> BY <1>25 DEF RenameBegins, mainVars, Call
  <2>2. QED BY <2>1 DEF TurnOK
<1>26. ASSUME NEW s \in Sessions, RenameEnds(s) PROVE TurnOK'
  <2>1. UNCHANGED <<pc, target, turn, turnCount, joined>>
    BY <1>26 DEF RenameEnds, mainVars, boundVars
  <2>2. QED BY <2>1 DEF TurnOK
<1>27. ASSUME NEW i \in Inputs, RetryPrompt(i) PROVE TurnOK'
  <2>1. UNCHANGED <<pc, target, turn, turnCount, joined>>
    BY <1>27 DEF RetryPrompt, mainVars, agentVars, Call
  <2>2. QED BY <2>1 DEF TurnOK
<1>28. ASSUME NEW i \in Inputs, AnswerPrompt(i) PROVE TurnOK'
  <2>1. UNCHANGED <<joined, turnCount>> /\ (StartDriving(FALSE) \/ UNCHANGED mainVars)
    BY <1>28 DEF AnswerPrompt, kickMain, agentVars, boundVars
  <2>2. CASE StartDriving(FALSE)
    BY <2>1, <2>2, NoTurn DEF StartDriving, FreeMain, Drive, HasTurn, Opened
  <2>3. CASE UNCHANGED mainVars BY <2>1, <2>3 DEF mainVars, TurnOK
  <2>4. QED BY <2>1, <2>2, <2>3
<1>29. ASSUME NEW i \in Inputs, Disconnect(i) PROVE TurnOK'
  <2>1. UNCHANGED <<pc, target, turn, turnCount, joined>>
    BY <1>29 DEF Disconnect, mainVars, agentVars, boundVars
  <2>2. QED BY <2>1 DEF TurnOK
<1>30. ASSUME NEW i \in Inputs, RemoveQueued(i) PROVE TurnOK'
  <2>1. UNCHANGED <<joined, turnCount>> /\ (StartDriving(FALSE) \/ UNCHANGED mainVars)
    BY <1>30 DEF RemoveQueued, kickMain, agentVars, boundVars
  <2>2. CASE StartDriving(FALSE)
    BY <2>1, <2>2, NoTurn DEF StartDriving, FreeMain, Drive, HasTurn, Opened
  <2>3. CASE UNCHANGED mainVars BY <2>1, <2>3 DEF mainVars, TurnOK
  <2>4. QED BY <2>1, <2>2, <2>3
<1>31. ASSUME NEW i \in Inputs, SteerBegins(i) \/ SteerReady(i) \/ SteerEnqueue(i) \/
              SteerAdmit(i) \/ Promote(i) \/ AppendCommits(i) \/ FlushOk(i) \/ PreStep(i) \/
              ConsumptionCommits(i) \/ AnswerFails(i) \/ SteerWakeFails(i) \/ RetrySteer(i)
       PROVE  TurnOK'
  <2>1. UNCHANGED <<pc, target, turn, turnCount, joined>>
    BY <1>31 DEF SteerBegins, mainVars, agentVars, boundVars, SteerReady, SteerEnqueue,
      SteerAdmit, Promote, AppendCommits, FlushOk, PreStep, ConsumptionCommits, AnswerFails,
      SteerWakeFails, RetrySteer, Call
  <2>2. QED BY <2>1 DEF TurnOK
<1>32. ASSUME NEW i \in Inputs, FlushFails(i) PROVE TurnOK'
  <2>1. UNCHANGED <<pc, target, turn, turnCount, joined>> BY <1>32 DEF FlushFails, mainVars
  <2>2. QED BY <2>1 DEF TurnOK
<1>33. ASSUME NEW i \in Inputs, NEW w \in Weights, SubmitPrompt(i, w) PROVE TurnOK'
  <2>1. UNCHANGED <<pc, target, turn, turnCount, joined>>
    BY <1>33 DEF SubmitPrompt, mainVars, agentVars, boundVars
  <2>2. QED BY <2>1 DEF TurnOK
<1>34. ASSUME NEW i \in Inputs, NEW w \in Weights, EditQueued(i, w) PROVE TurnOK'
  <2>1. UNCHANGED <<joined, turnCount>> /\ (StartDriving(FALSE) \/ UNCHANGED mainVars)
    BY <1>34 DEF EditQueued, kickMain, agentVars, boundVars
  <2>2. CASE StartDriving(FALSE)
    BY <2>1, <2>2, NoTurn DEF StartDriving, FreeMain, Drive, HasTurn, Opened
  <2>3. CASE UNCHANGED mainVars BY <2>1, <2>3 DEF mainVars, TurnOK
  <2>4. QED BY <2>1, <2>2, <2>3
<1>35. CASE Crash BY <1>35 DEF Crash, TurnOK, HasTurn, Opened
<1>36. CASE UNCHANGED driverVars BY <1>36 DEF driverVars, mainVars, agentVars, boundVars, TurnOK
<1>37. QED
  BY <1>3, <1>4, <1>5, <1>6, <1>7, <1>8, <1>9, <1>10, <1>11, <1>12, <1>13, <1>14, <1>15, <1>16,
     <1>17, <1>18, <1>19, <1>20, <1>21, <1>22, <1>23, <1>24, <1>25, <1>26, <1>27, <1>28, <1>29,
     <1>30, <1>31, <1>32, <1>33, <1>34, <1>35, <1>36
     DEF DriverNext, DriveStep, CallStep, RequestStep

\* An input whose request, gate and history stand where they stood, and whose
\* row did not move or moved within what they allow.
LEMMA InboxKept ==
    ASSUME NEW i \in Inputs, InboxOK(i), gate'[i] = gate[i], steer'[i] = steer[i],
           aim'[i] = aim[i], seen'[i] = seen[i],
           gate[i] \in Gated => pc' \in {"admitting", "running"} /\ turn'.id = turn.id,
           \/ row'[i] = row[i]
           \/ row[i] = "absent" /\ row'[i] = "queued"
           \/ row[i] = "queued" /\ row'[i] \in {"claimed", "cancelled"}
           \/ row[i] \in Owning /\ row'[i] \in Durable
    PROVE  InboxOK(i)'
  BY DEF InboxOK, Pinned, Durable, Terminal, Owning, Gated, Leftover

\* While no turn admits or runs, no inbox holds a message of this process.
LEMMA InboxEmpty ==
    ASSUME NEW i \in Inputs, InboxOK(i), pc \notin {"admitting", "running"} PROVE gate[i] \notin Gated
  BY DEF InboxOK

\* A message that was no longer in the inbox, or was cleared from it.
LEMMA InboxForgotten ==
    ASSUME NEW i \in Inputs, InboxOK(i), gate[i] \notin Gated, gate'[i] = "none",
           steer'[i] = steer[i], aim'[i] = aim[i], seen'[i] = seen[i],
           \/ row'[i] = row[i]
           \/ row[i] \in Owning /\ row'[i] \in Durable
    PROVE  InboxOK(i)'
  BY DEF InboxOK, Pinned, Durable, Terminal, Owning, Gated, Leftover

\* Requests, gates, rows and what the model consumed, step by step.
LEMMA InboxStep ==
    DriverTypeOK /\ SlotOwnsClaim /\ DriveOK /\ TurnOK /\ InboxesOK /\ [DriverNext]_driverVars
        => InboxesOK'
<1> SUFFICES ASSUME DriverTypeOK, SlotOwnsClaim, DriveOK, TurnOK, InboxesOK,
                    [DriverNext]_driverVars, NEW j \in Inputs PROVE InboxOK(j)'
  BY DEF InboxesOK
<1>1. InboxOK(j) BY DEF InboxesOK
<1>2. TypeOK /\ SlotOwnsClaim BY DEF DriverTypeOK
<1>3. /\ DriverTypeOK /\ DriveOK /\ TurnOK
      /\ gate \in [Inputs -> Inbox \cup {"none", "taken"}]
      /\ steer \in [Inputs -> {"idle", "ready", "enqueue", "armed", "stranded", "inbox"}]
      /\ aim \in [Inputs -> 0..MaxTurns] /\ seen \in [Inputs -> 0..MaxTurns]
  BY DEF DriverTypeOK
<1>4. turn = None => gate[j] \notin Gated BY <1>1, InboxEmpty DEF TurnOK, HasTurn, Opened
<1>5. turn # None => turn.id \in Nat \ {0} BY TurnFacts, BoundsAssumption
<1>6. CASE DispatchDue
  <2>1. /\ gate'[j] = gate[j] /\ steer'[j] = steer[j] /\ aim'[j] = aim[j] /\ seen'[j] = seen[j]
        /\ gate[j] \notin Gated
    BY <1>6, <1>1, InboxEmpty DEF DispatchDue, agentVars, requestVars
  <2>2. row'[j] = row[j] \/ (row[j] = "absent" /\ row'[j] = "queued")
    BY <1>6, <1>2, RowMoves, InputsAssumption DEF DispatchDue, Moves, vars, inputVars
  <2>3. QED BY <2>1, <2>2, <1>1, InboxKept
<1>7. CASE Claim
  <2>1. /\ gate'[j] = gate[j] /\ steer'[j] = steer[j] /\ aim'[j] = aim[j] /\ seen'[j] = seen[j]
        /\ gate[j] \notin Gated
    BY <1>7, <1>1, InboxEmpty DEF Claim, agentVars, requestVars
  <2>2. row'[j] = row[j] \/ (row[j] = "queued" /\ row'[j] = "claimed")
    BY <1>7, <1>2, ClaimMoves DEF Claim, Moves, vars, inputVars
  <2>3. QED BY <2>1, <2>2, <1>1, InboxKept
<1>8. CASE AlarmFires
  <2>1. UNCHANGED <<gate, steer, aim, seen, row>>
    BY <1>8 DEF AlarmFires, agentVars, requestVars, vars, inputVars
  <2>2. CASE UNCHANGED mainVars BY <2>1, <2>2, <1>1, InboxKept DEF mainVars, InboxOK
  <2>3. CASE FreeMain BY <2>1, <2>3, <1>1, <1>4, InboxKept DEF FreeMain
  <2>4. QED BY <1>8, <2>2, <2>3 DEF AlarmFires
<1>9. CASE scheduleMainWake \/ WakeFails \/ RescheduleRequested
  <2>1. UNCHANGED <<gate, steer, aim, seen, row, pc, turn>>
    BY <1>9 DEF scheduleMainWake, WakeFails, mainVars, agentVars, requestVars, vars, inputVars,
      RescheduleRequested, Call
  <2>2. QED BY <2>1, <1>1, InboxKept DEF InboxOK
<1>10. CASE Timeout
  <2>1. UNCHANGED <<gate, steer, aim, seen, row>>
    BY <1>10 DEF Timeout, agentVars, requestVars, vars, inputVars, StopWork
  <2>2. turn'.id = turn.id /\ pc' = pc
    BY <1>10, <1>3, TurnFacts DEF Timeout, StopWork, Turns, HasTurn, Opened
  <2>3. QED BY <2>1, <2>2, <1>1, InboxKept DEF InboxOK
<1>11. CASE requestTurnCancellation
  <2>1. UNCHANGED <<gate, steer, aim, seen, row>>
    BY <1>11 DEF requestTurnCancellation, agentVars, requestVars, vars, inputVars
  <2>2. turn'.id = turn.id /\ pc' = pc BY <1>11, <1>3, TurnFacts DEF requestTurnCancellation, Turns
  <2>3. QED BY <2>1, <2>2, <1>1, InboxKept DEF InboxOK
<1>12. CASE ResumeStale
  <2>1. /\ steer'[j] = steer[j] /\ aim'[j] = aim[j] /\ seen'[j] = seen[j]
        /\ gate[j] \notin Gated /\ gate'[j] \in {gate[j], "none"}
    BY <1>12, <1>1, InboxEmpty DEF ResumeStale, InboxCleared
  <2>2. row'[j] = row[j] \/ (row[j] \in Owning /\ row'[j] \in Durable)
    BY <1>12, <1>2, FinishMoves DEF ResumeStale, SlotOwnsClaim, Durable, vars, inputVars
  <2>3. QED BY <2>1, <2>2, <1>1, InboxKept, InboxForgotten
<1>13. CASE ArmClaim
  <2>1. UNCHANGED <<gate, steer, aim, seen, row>>
    BY <1>13 DEF ArmClaim, agentVars, requestVars, vars, inputVars
  <2>2. gate[j] \notin Gated BY <1>13, <1>1, InboxEmpty DEF ArmClaim
  <2>3. QED BY <2>1, <2>2, <1>1, InboxKept
<1>14. CASE ClaimTurn
  <2>1. UNCHANGED <<gate, steer, aim, seen, row>>
    BY <1>14 DEF ClaimTurn, agentVars, requestVars, vars, inputVars
  <2>2. gate[j] \notin Gated BY <1>14, <1>1, InboxEmpty DEF ClaimTurn
  <2>3. QED BY <2>1, <2>2, <1>1, InboxKept
<1>15. CASE OpenAgent
  <2>1. UNCHANGED <<gate, steer, aim, seen, row>>
    BY <1>15 DEF OpenAgent, agentVars, requestVars, vars, inputVars
  <2>2. gate[j] \notin Gated BY <1>15, <1>1, InboxEmpty DEF OpenAgent
  <2>3. QED BY <2>1, <2>2, <1>1, InboxKept
<1>16. CASE StartTurn
  <2>1. /\ UNCHANGED <<steer, aim, seen, row>> /\ pc' = "admitting" /\ gate[j] \notin Gated
        /\ gate' = IF driving = "driver" THEN [gate EXCEPT ![slot] = "held"] ELSE gate
    BY <1>16, <1>1, InboxEmpty DEF StartTurn, requestVars, vars, inputVars
  <2>2. CASE gate'[j] = gate[j] BY <2>1, <2>2, <1>1, InboxKept
  <2>3. CASE driving = "driver" /\ slot = j
    <3>1. row[j] = "claimed" /\ gate'[j] = "held"
      BY <1>16, <2>1, <2>3, <1>2, <1>3 DEF StartTurn, DriveOK, BeforeTurn
    <3>2. QED BY <3>1, <2>1, <1>1 DEF InboxOK, Pinned, Durable, Terminal, Gated, Leftover
  <2>4. QED BY <2>1, <2>2, <2>3, <1>2, <1>3
<1>17. CASE OpenFails
  <2>1. UNCHANGED <<gate, steer, aim, seen, row>>
    BY <1>17 DEF OpenFails, agentVars, requestVars, vars, inputVars
  <2>2. gate[j] \notin Gated BY <1>17, <1>1, InboxEmpty DEF OpenFails
  <2>3. QED BY <2>1, <2>2, <1>1, InboxKept
<1>18. CASE Admitted
  <2>1. UNCHANGED <<gate, steer, aim, seen, row>>
    BY <1>18 DEF Admitted, agentVars, requestVars, vars, inputVars
  <2>2. turn'.id = turn.id /\ pc' = "running"
    BY <1>18, <1>3, TurnFacts DEF Admitted, Turns, HasTurn, Opened
  <2>3. QED BY <2>1, <2>2, <1>1, InboxKept
<1>19. CASE Closing
  <2>1. UNCHANGED <<gate, steer, aim, seen, row>>
    BY <1>19 DEF Closing, agentVars, requestVars, vars, inputVars
  <2>2. gate[j] \notin Gated BY <1>19, <1>1 DEF Closing, NothingPending, AgentIdle
  <2>3. QED BY <2>1, <2>2, <1>1, InboxKept
<1>20. CASE Release
  <2>1. UNCHANGED <<steer, aim, seen, row>> /\ gate'[j] \in {gate[j], "none"}
    BY <1>20 DEF Release, requestVars, vars, inputVars
  <2>2. gate[j] \notin Gated BY <1>20, <1>1, InboxEmpty DEF Release
  <2>3. QED BY <2>1, <2>2, <1>1, InboxKept, InboxForgotten
<1>21. CASE Finish
  <2>1. /\ gate'[j] = gate[j] /\ steer'[j] = steer[j] /\ aim'[j] = aim[j] /\ seen'[j] = seen[j]
        /\ gate[j] \notin Gated
    BY <1>21, <1>1, InboxEmpty DEF Finish, agentVars
  <2>2. row'[j] = row[j] \/ (row[j] \in Owning /\ row'[j] \in Durable)
    BY <1>21, <1>2, FinishMoves DEF Finish, SlotOwnsClaim, Durable
  <2>3. QED BY <2>1, <2>2, <1>1, InboxKept
<1>22. CASE EndCall
  <2>1. UNCHANGED <<gate, steer, aim, seen, row>> /\ pc \in {"finishing", "control"}
    BY <1>22 DEF EndCall, requestVars, vars, inputVars
  <2>2. QED BY <2>1, <1>1, InboxEmpty, InboxKept
<1>23. CASE JoinTurn \/ JoinedSettles
  <2>1. UNCHANGED <<gate, steer, aim, seen, row, pc, turn>>
    BY <1>23 DEF JoinTurn, Call, mainVars, requestVars, vars, inputVars, JoinedSettles
  <2>2. QED BY <2>1, <1>1, InboxKept DEF InboxOK
<1>24. ASSUME NEW s \in Sessions, withAgentControl(s) PROVE InboxOK(j)'
  <2>1. UNCHANGED <<gate, steer, aim, seen, row>>
    BY <1>24 DEF withAgentControl, agentVars, requestVars, vars, inputVars
  <2>2. gate[j] \notin Gated BY <1>24, <1>1, <1>4 DEF withAgentControl, FreeMain
  <2>3. QED BY <2>1, <2>2, <1>1, InboxKept
<1>25. ASSUME NEW s \in Sessions, withAgentTurn(s) PROVE InboxOK(j)'
  <2>1. UNCHANGED <<gate, steer, aim, seen, row>>
    BY <1>25 DEF withAgentTurn, agentVars, requestVars, vars, inputVars
  <2>2. gate[j] \notin Gated BY <1>25, <1>1, <1>4 DEF withAgentTurn, FreeMain
  <2>3. QED BY <2>1, <2>2, <1>1, InboxKept
<1>26. ASSUME NEW s \in Sessions, RenameBegins(s) \/ RenameEnds(s)
       PROVE  InboxOK(j)'
  <2>1. UNCHANGED <<gate, steer, aim, seen, row, pc, turn>>
    BY <1>26 DEF RenameBegins, Call, mainVars, requestVars, vars, inputVars, RenameEnds
  <2>2. QED BY <2>1, <1>1, InboxKept DEF InboxOK
<1>27. ASSUME NEW i \in Inputs, RetryPrompt(i) \/ Disconnect(i) \/ AnswerFails(i) \/ RetrySteer(i)
       PROVE  InboxOK(j)'
  <2>1. UNCHANGED <<gate, steer, aim, seen, row, pc, turn>>
    BY <1>27 DEF RetryPrompt, Call, mainVars, agentVars, requestVars, vars, inputVars,
      Disconnect, AnswerFails, RetrySteer
  <2>2. QED BY <2>1, <1>1, InboxKept DEF InboxOK
<1>28. ASSUME NEW i \in Inputs, AnswerPrompt(i) PROVE InboxOK(j)'
  <2>1. UNCHANGED <<gate, steer, aim, seen>> BY <1>28 DEF AnswerPrompt, agentVars, requestVars
  <2>2. row' = row BY <1>28, <1>28 DEF AnswerPrompt, vars, inputVars
  <2>3. CASE UNCHANGED mainVars BY <2>1, <2>2, <2>3, <1>1, InboxKept DEF mainVars, InboxOK
  <2>4. CASE FreeMain BY <2>1, <2>2, <2>4, <1>1, <1>4, InboxKept DEF FreeMain
  <2>5. QED BY <1>28, <2>3, <2>4 DEF AnswerPrompt, kickMain
<1>29. ASSUME NEW i \in Inputs, RemoveQueued(i) PROVE InboxOK(j)'
  <2>1. UNCHANGED <<gate, steer, aim, seen>> BY <1>29 DEF RemoveQueued, agentVars, requestVars
  <2>2. row'[j] = row[j] \/ (row[j] = "queued" /\ row'[j] = "cancelled")
    BY <1>29, <1>2, RowMoves DEF RemoveQueued, Moves
  <2>3. CASE UNCHANGED mainVars BY <2>1, <2>2, <2>3, <1>1, InboxKept DEF mainVars, InboxOK
  <2>4. CASE FreeMain BY <2>1, <2>2, <2>4, <1>1, <1>4, InboxKept DEF FreeMain
  <2>5. QED BY <1>29, <2>3, <2>4 DEF RemoveQueued, kickMain
<1>30. ASSUME NEW i \in Inputs, SteerBegins(i) PROVE InboxOK(j)'
  <2>1. CASE j = i
    BY <1>30, <2>1, <1>1, <1>2, <1>3, <1>5, RowMoves DEF SteerBegins, mainVars, agentVars, vars,
      inputVars, InboxOK, Pinned, Durable, Terminal, Gated, Leftover
  <2>2. CASE j # i
    <3>1. /\ gate'[j] = gate[j] /\ steer'[j] = steer[j] /\ aim'[j] = aim[j] /\ seen'[j] = seen[j]
          /\ row'[j] = row[j] /\ UNCHANGED <<pc, turn>>
      BY <1>30, <2>2, <1>2, <1>3, RowMoves DEF SteerBegins, mainVars, agentVars, vars, inputVars
    <3>2. QED BY <3>1, <1>1, InboxKept DEF InboxOK
  <2>3. QED BY <2>1, <2>2
<1>31. ASSUME NEW i \in Inputs, SteerReady(i) PROVE InboxOK(j)'
  <2>1. CASE j = i
    BY <1>31, <2>1, <1>1, <1>2, <1>3, <1>5, RowMoves DEF SteerReady, AbandonSteer, mainVars,
      agentVars, vars, inputVars, InboxOK, Pinned, Durable, Terminal, Gated, Leftover
  <2>2. CASE j # i
    <3>1. /\ gate'[j] = gate[j] /\ steer'[j] = steer[j] /\ aim'[j] = aim[j] /\ seen'[j] = seen[j]
          /\ row'[j] = row[j] /\ UNCHANGED <<pc, turn>>
      BY <1>31, <2>2, <1>2, <1>3, RowMoves DEF SteerReady, AbandonSteer, mainVars, agentVars, vars, inputVars
    <3>2. QED BY <3>1, <1>1, InboxKept DEF InboxOK
  <2>3. QED BY <2>1, <2>2
<1>32. ASSUME NEW i \in Inputs, SteerEnqueue(i) PROVE InboxOK(j)'
  <2>1. CASE j = i
    <3>1. /\ steer[j] = "enqueue" /\ UNCHANGED <<pc, turn, gate, seen>>
          /\ gate[j] # "held" => row[j] # "promoting" /\ row[j] # "steering"
          /\ gate[j] \in Gated => turn # None /\ turn' = turn
      BY <1>32, <2>1, <1>1, <1>4 DEF SteerEnqueue, mainVars, agentVars, InboxOK
    <3>2. CASE steer'[j] = "armed"
      <4>1. row[j] = "absent" /\ row'[j] = "steering" /\ aim' = aim
        BY <1>32, <2>1, <1>2, <1>3, <3>2, RowMoves DEF SteerEnqueue, AbandonSteer, Moves
      <4>2. gate[j] = "none" /\ seen[j] = 0
        BY <4>1, <1>1, <1>3 DEF InboxOK, Inbox, Gated, Leftover, Durable, Terminal
      <4>3. QED BY <3>1, <3>2, <4>1, <4>2 DEF InboxOK, Pinned, Gated, Leftover
    <3>3. CASE steer'[j] # "armed"
      <4>1. steer'[j] = "idle" /\ aim'[j] = 0 /\ row' = row
        BY <1>32, <2>1, <1>3, <3>3 DEF SteerEnqueue, AbandonSteer, vars, inputVars
      <4>2. QED BY <3>1, <4>1, <1>1 DEF InboxOK, Pinned
    <3>4. QED BY <3>2, <3>3
  <2>2. CASE j # i
    <3>1. /\ gate'[j] = gate[j] /\ steer'[j] = steer[j] /\ aim'[j] = aim[j] /\ seen'[j] = seen[j]
          /\ row'[j] = row[j] /\ UNCHANGED <<pc, turn>>
      BY <1>32, <2>2, <1>2, <1>3, RowMoves DEF SteerEnqueue, AbandonSteer, Moves, mainVars, agentVars, vars, inputVars
    <3>2. QED BY <3>1, <1>1, InboxKept DEF InboxOK
  <2>3. QED BY <2>1, <2>2
<1>33. ASSUME NEW i \in Inputs, SteerAdmit(i) PROVE InboxOK(j)'
  <2>1. CASE j = i
    <3>1. /\ steer[j] = "armed" /\ row[j] = "steering" /\ gate[j] = "none" /\ seen[j] = 0
          /\ UNCHANGED <<pc, turn, seen, aim>>
      BY <1>33, <2>1, <1>1 DEF SteerAdmit, mainVars, InboxOK, Durable, Terminal
    <3>2. CASE Accepts(i)
      <4>1. gate'[j] = "held" /\ steer'[j] = "inbox" /\ row' = row /\ turn.id = aim[j]
        BY <1>33, <2>1, <3>2, <1>3 DEF SteerAdmit, Accepts, Targets, vars, inputVars
      <4>2. pc \in {"admitting", "running"} BY <3>2, <1>3 DEF Accepts, Targets, TurnOK
      <4>3. QED BY <3>1, <4>1, <4>2, <1>1 DEF InboxOK, Pinned, Gated, Leftover
    <3>3. CASE ~Accepts(i)
      <4>1. gate'[j] = "none" /\ steer'[j] = "idle" /\ finishSteer(i, FALSE, FALSE)
        BY <1>33, <2>1, <3>1, <3>3, <1>3 DEF SteerAdmit, RefuseSteer
      <4>2. row'[j] \in {"settled", "interrupted", "rejected"}
        BY <4>1, <2>1, <1>2, RowMoves DEF Moves
      <4>3. QED BY <3>1, <4>1, <4>2 DEF InboxOK, Pinned, Gated, Leftover, Durable, Terminal
    <3>4. QED BY <3>2, <3>3
  <2>2. CASE j # i
    <3>1. /\ gate'[j] = gate[j] /\ steer'[j] = steer[j] /\ aim'[j] = aim[j] /\ seen'[j] = seen[j]
          /\ row'[j] = row[j] /\ UNCHANGED <<pc, turn>>
      <4>1. UNCHANGED vars \/ finishSteer(i, FALSE, FALSE) BY <1>33 DEF SteerAdmit, RefuseSteer
      <4>2. row'[j] = row[j] BY <4>1, <2>2, <1>2, RowMoves DEF Moves, vars, inputVars
      <4>3. QED BY <1>33, <2>2, <1>3, <4>2 DEF SteerAdmit, mainVars
    <3>2. QED BY <3>1, <1>1, InboxKept DEF InboxOK
  <2>3. QED BY <2>1, <2>2
<1>34. ASSUME NEW i \in Inputs, Promote(i) PROVE InboxOK(j)'
  <2>1. CASE j = i
    BY <1>34, <2>1, <1>1, <1>2, <1>3, <1>5, RowMoves DEF Promote, Moves, TurnOK, mainVars,
      InboxOK, Pinned, Durable, Terminal, Gated, Leftover
  <2>2. CASE j # i
    <3>1. /\ gate'[j] = gate[j] /\ steer'[j] = steer[j] /\ aim'[j] = aim[j] /\ seen'[j] = seen[j]
          /\ row'[j] = row[j] /\ UNCHANGED <<pc, turn>>
      BY <1>34, <2>2, <1>2, <1>3, RowMoves, ZenonT(60) DEF Promote, Moves, TurnOK, mainVars
    <3>2. QED BY <3>1, <1>1, InboxKept DEF InboxOK
  <2>3. QED BY <2>1, <2>2
<1>35. ASSUME NEW i \in Inputs, AppendCommits(i) PROVE InboxOK(j)'
  <2>1. CASE j = i
    BY <1>35, <2>1, <1>1, <1>2, <1>3, <1>5, RowMoves DEF AppendCommits, Moves, mainVars,
      agentVars, requestVars, InboxOK, Pinned, Durable, Terminal, Gated, Leftover
  <2>2. CASE j # i
    <3>1. /\ gate'[j] = gate[j] /\ steer'[j] = steer[j] /\ aim'[j] = aim[j] /\ seen'[j] = seen[j]
          /\ row'[j] = row[j] /\ UNCHANGED <<pc, turn>>
      BY <1>35, <2>2, <1>2, <1>3, RowMoves DEF AppendCommits, Moves, mainVars, agentVars, requestVars
    <3>2. QED BY <3>1, <1>1, InboxKept DEF InboxOK
  <2>3. QED BY <2>1, <2>2
<1>36. ASSUME NEW i \in Inputs, FlushOk(i) PROVE InboxOK(j)'
  <2>1. CASE j = i
    BY <1>36, <2>1, <1>1, <1>2, <1>3, <1>5, RowMoves DEF FlushOk, mainVars, vars, inputVars,
      InboxOK, Pinned, Durable, Terminal, Gated, Leftover
  <2>2. CASE j # i
    <3>1. /\ gate'[j] = gate[j] /\ steer'[j] = steer[j] /\ aim'[j] = aim[j] /\ seen'[j] = seen[j]
          /\ row'[j] = row[j] /\ UNCHANGED <<pc, turn>>
      BY <1>36, <2>2, <1>2, <1>3, RowMoves DEF FlushOk, mainVars, vars, inputVars
    <3>2. QED BY <3>1, <1>1, InboxKept DEF InboxOK
  <2>3. QED BY <2>1, <2>2
<1>37. ASSUME NEW i \in Inputs, FlushFails(i) PROVE InboxOK(j)'
  <2>1. CASE j = i
    BY <1>37, <2>1, <1>1, <1>2, <1>3, <1>5, RowMoves DEF FlushFails, Moves, mainVars, vars,
      inputVars, InboxOK, Pinned, Durable, Terminal, Gated, Leftover
  <2>2. CASE j # i
    <3>1. /\ gate'[j] = gate[j] /\ steer'[j] = steer[j] /\ aim'[j] = aim[j] /\ seen'[j] = seen[j]
          /\ row'[j] = row[j] /\ UNCHANGED <<pc, turn>>
      BY <1>37, <2>2, <1>2, <1>3, RowMoves DEF FlushFails, Moves, mainVars, vars, inputVars
    <3>2. QED BY <3>1, <1>1, InboxKept DEF InboxOK
  <2>3. QED BY <2>1, <2>2
<1>38. ASSUME NEW i \in Inputs, PreStep(i) PROVE InboxOK(j)'
  <2>1. CASE j = i
    BY <1>38, <2>1, <1>1, <1>2, <1>3, <1>5, RowMoves
       DEF PreStep, GateSettled, Spliced, mainVars, requestVars, vars, inputVars, InboxOK, Pinned, Durable, Terminal, Gated, Leftover
  <2>2. CASE j # i
    <3>1. /\ gate'[j] = gate[j] /\ steer'[j] = steer[j] /\ aim'[j] = aim[j] /\ seen'[j] = seen[j]
          /\ row'[j] = row[j] /\ UNCHANGED <<pc, turn>>
      BY <1>38, <2>2, <1>2, <1>3, RowMoves DEF PreStep, GateSettled, mainVars, requestVars, vars, inputVars
    <3>2. QED BY <3>1, <1>1, InboxKept DEF InboxOK
  <2>3. QED BY <2>1, <2>2
<1>381. ASSUME NEW i \in Inputs, ConsumptionCommits(i) PROVE InboxOK(j)'
  <2>1. /\ UNCHANGED <<steer, aim, seen, row, pc, turn>> /\ gate'[j] \in {gate[j], "none"}
        /\ gate[j] \in Gated => gate'[j] = gate[j]
    BY <1>381, <1>3 DEF ConsumptionCommits, mainVars, requestVars, vars, inputVars, Gated
  <2>2. QED BY <2>1, <1>1, InboxKept, InboxForgotten DEF InboxOK
<1>382. ASSUME NEW i \in Inputs, SteerWakeFails(i) PROVE InboxOK(j)'
  <2>1. CASE j = i
    BY <1>382, <2>1, <1>1, <1>3 DEF SteerWakeFails, mainVars, agentVars, vars, inputVars,
      InboxOK, Pinned, Durable, Terminal, Gated, Leftover
  <2>2. CASE j # i
    <3>1. /\ gate'[j] = gate[j] /\ steer'[j] = steer[j] /\ aim'[j] = aim[j] /\ seen'[j] = seen[j]
          /\ row'[j] = row[j] /\ UNCHANGED <<pc, turn>>
      BY <1>382, <2>2, <1>3 DEF SteerWakeFails, mainVars, agentVars, vars, inputVars
    <3>2. QED BY <3>1, <1>1, InboxKept DEF InboxOK
  <2>3. QED BY <2>1, <2>2
<1>39. ASSUME NEW i \in Inputs, NEW w \in Weights, SubmitPrompt(i, w) PROVE InboxOK(j)'
  <2>1. /\ gate'[j] = gate[j] /\ steer'[j] = steer[j] /\ aim'[j] = aim[j] /\ seen'[j] = seen[j]
        /\ UNCHANGED <<pc, turn>>
    BY <1>39 DEF SubmitPrompt, mainVars, agentVars
  <2>2. row'[j] = row[j] \/ (row[j] = "absent" /\ row'[j] = "queued")
    BY <1>39, <1>2, RowMoves DEF SubmitPrompt, Moves
  <2>3. QED BY <2>1, <2>2, <1>1, InboxKept DEF InboxOK
<1>40. ASSUME NEW i \in Inputs, NEW w \in Weights, EditQueued(i, w) PROVE InboxOK(j)'
  <2>1. UNCHANGED <<gate, steer, aim, seen>> BY <1>40 DEF EditQueued, agentVars, requestVars
  <2>2. row' = row BY <1>40, <1>2, RowMoves DEF EditQueued
  <2>3. CASE UNCHANGED mainVars BY <2>1, <2>2, <2>3, <1>1, InboxKept DEF mainVars, InboxOK
  <2>4. CASE FreeMain BY <2>1, <2>2, <2>4, <1>1, <1>4, InboxKept DEF FreeMain
  <2>5. QED BY <1>40, <2>3, <2>4 DEF EditQueued, kickMain
<1>41. CASE Crash
  <2>1. /\ gate'[j] = LeftBehind(j) /\ steer'[j] = "idle" /\ seen'[j] = seen[j] /\ aim'[j] = 0
    BY <1>41 DEF Crash
  <2>2. /\ row[j] \in {"steering", "promoting"} => row'[j] \in {"rejected", "interrupted"}
        /\ row[j] \notin {"steering", "promoting"} => row'[j] = row[j]
    BY <1>41, <1>2, RestartMoves DEF Crash
  <2>3. gate'[j] \in {"none"} \cup Leftover /\ (gate'[j] # "none" => row[j] \in Durable)
    BY <2>1, <1>1 DEF LeftBehind, InLog, Spliced, InboxOK, Leftover, Durable
  <2>4. QED BY <2>1, <2>2, <2>3, <1>1 DEF InboxOK, Pinned, Durable, Terminal, Gated, Leftover
<1>42. CASE UNCHANGED driverVars
  BY <1>42, <1>1, InboxKept DEF driverVars, mainVars, agentVars, requestVars, vars, inputVars, InboxOK
<1>43. QED BY <1>6, <1>7, <1>8, <1>9, <1>10, <1>11, <1>12, <1>13, <1>14, <1>15, <1>16, <1>17, <1>18,
     <1>19, <1>20, <1>21, <1>22, <1>23, <1>24, <1>25, <1>26, <1>27, <1>28, <1>29, <1>30, <1>31,
     <1>32, <1>33, <1>34, <1>35, <1>36, <1>37, <1>38, <1>39, <1>40, <1>41, <1>42, <1>381, <1>382
     DEF DriverNext, DriveStep, CallStep, RequestStep

\* A residency is entered by a claim only, in an empty slot.
LEMMA ResidencyEntered ==
    ASSUME DriverNext, DriveOK, driving \in {"free", "driver", "call"}, slot # None, ~Residing
    PROVE  ~Residing'
<1>1. CASE AlarmFires \/ scheduleMainWake \/ WakeFails \/ RescheduleRequested
  BY <1>1 DEF AlarmFires, scheduleMainWake, WakeFails, RescheduleRequested, mainVars,
    StartDriving, Drive, Residing
<1>2. CASE Timeout \/ requestTurnCancellation \/ DispatchDue
  BY <1>2 DEF Timeout, requestTurnCancellation, DispatchDue, Residing
<1>3. CASE Claim BY <1>3 DEF Claim, claim, StopDriving, Residing
<1>4. CASE ResumeStale \/ ArmClaim \/ Finish
  BY <1>4 DEF ResumeStale, ArmClaim, Finish, StopDriving, Residing
<1>5. CASE ClaimTurn \/ OpenAgent \/ StartTurn \/ OpenFails \/ Admitted \/ Closing \/ Release
  BY <1>5 DEF ClaimTurn, OpenAgent, StartTurn, OpenFails, Admitted, Closing, Release, Residing
<1>6. CASE EndCall \/ JoinTurn \/ JoinedSettles \/ Crash
  BY <1>6 DEF EndCall, JoinTurn, JoinedSettles, Crash, Drive, mainVars, Residing
<1>7. ASSUME NEW s \in Sessions, withAgentControl(s) \/ withAgentTurn(s) \/ RenameBegins(s) \/
             RenameEnds(s) PROVE ~Residing'
  BY <1>7 DEF withAgentControl, withAgentTurn, RenameBegins, RenameEnds, mainVars, Residing
<1>8. ASSUME NEW i \in Inputs, RetryPrompt(i) \/ Disconnect(i) \/ SteerBegins(i) \/
             SteerReady(i) \/ SteerEnqueue(i) \/ AnswerFails(i) \/ SteerWakeFails(i) \/ RetrySteer(i)
      PROVE  ~Residing'
  BY <1>8 DEF RetryPrompt, Disconnect, SteerBegins, SteerReady, SteerEnqueue, AnswerFails,
    SteerWakeFails, RetrySteer, mainVars, Residing
<1>9. ASSUME NEW i \in Inputs, SteerAdmit(i) \/ Promote(i) \/ AppendCommits(i) \/ FlushOk(i) \/
             FlushFails(i) \/ PreStep(i) \/ ConsumptionCommits(i)
      PROVE  ~Residing'
  BY <1>9 DEF SteerAdmit, Promote, AppendCommits, FlushOk, FlushFails, PreStep,
    ConsumptionCommits, mainVars, Residing
<1>10. ASSUME NEW i \in Inputs, AnswerPrompt(i) \/ RemoveQueued(i)
       PROVE  ~Residing'
  BY <1>10 DEF AnswerPrompt, RemoveQueued, kickMain, StartDriving, Drive, mainVars, Residing
<1>11. ASSUME NEW i \in Inputs, NEW w \in Weights, SubmitPrompt(i, w) \/ EditQueued(i, w)
       PROVE  ~Residing'
  BY <1>11 DEF SubmitPrompt, EditQueued, kickMain, StartDriving, Drive, mainVars, Residing
<1>12. QED
  BY <1>1, <1>2, <1>3, <1>4, <1>5, <1>6, <1>7, <1>8, <1>9, <1>10, <1>11 DEF DriverNext,
    DriveStep, CallStep, RequestStep

\* Only a crash leaves a message behind.
LEMMA StaleKept ==
    ASSUME DriverNext, ~Crash, gate \in [Inputs -> Inbox \cup {"none", "taken"}],
           NEW j \in Inputs, gate'[j] = "stale" PROVE gate[j] = "stale"
<1>1. CASE DispatchDue \/ Claim \/ AlarmFires \/ scheduleMainWake \/ WakeFails \/
           RescheduleRequested \/ Timeout \/ requestTurnCancellation
  BY <1>1 DEF DispatchDue, agentVars, Claim, AlarmFires, scheduleMainWake, WakeFails,
    RescheduleRequested, Timeout, requestTurnCancellation
<1>2. CASE ArmClaim \/ ClaimTurn \/ OpenAgent \/ OpenFails \/ Admitted \/ Closing \/ Finish
  BY <1>2 DEF ArmClaim, agentVars, ClaimTurn, OpenAgent, OpenFails, Admitted, Closing, Finish
<1>3. CASE ResumeStale \/ StartTurn \/ Release
  BY <1>3 DEF ResumeStale, InboxCleared, StartTurn, Release
<1>4. CASE EndCall \/ JoinTurn \/ JoinedSettles BY <1>4 DEF EndCall, JoinTurn, JoinedSettles
<1>5. ASSUME NEW s \in Sessions, withAgentControl(s) \/ withAgentTurn(s) \/ RenameBegins(s) \/
             RenameEnds(s) PROVE gate[j] = "stale"
  BY <1>5 DEF withAgentControl, agentVars, withAgentTurn, RenameBegins, RenameEnds
<1>6. ASSUME NEW i \in Inputs, RetryPrompt(i) \/ AnswerPrompt(i) \/ Disconnect(i) \/
             RemoveQueued(i) \/ SteerBegins(i) \/ SteerReady(i) \/ SteerEnqueue(i)
      PROVE  gate[j] = "stale"
  BY <1>6 DEF RetryPrompt, agentVars, AnswerPrompt, Disconnect, RemoveQueued, SteerBegins,
    SteerReady, SteerEnqueue
<1>7. ASSUME NEW i \in Inputs, AppendCommits(i) \/ AnswerFails(i) \/ SteerWakeFails(i) \/ RetrySteer(i)
      PROVE  gate[j] = "stale"
  BY <1>7 DEF AppendCommits, AnswerFails, SteerWakeFails, RetrySteer, agentVars
<1>8. ASSUME NEW i \in Inputs, SteerAdmit(i) \/ Promote(i) \/ FlushOk(i) \/ FlushFails(i) \/
             PreStep(i) \/ ConsumptionCommits(i)
      PROVE  gate[j] = "stale"
  BY <1>8 DEF SteerAdmit, Promote, FlushOk, FlushFails, PreStep, ConsumptionCommits
<1>9. ASSUME NEW i \in Inputs, NEW w \in Weights, SubmitPrompt(i, w) \/ EditQueued(i, w)
      PROVE  gate[j] = "stale"
  BY <1>9 DEF SubmitPrompt, agentVars, EditQueued
<1>10. QED
  BY <1>1, <1>2, <1>3, <1>4, <1>5, <1>6, <1>7, <1>8, <1>9 DEF DriverNext, DriveStep, CallStep, RequestStep

\* A finish ends a residency, or is the stale close, which clears the inbox.
LEMMA FinishClears ==
    ASSUME DriverTypeOK, DriveOK, DriverNext, slot # None, slot' # slot, ~Residing, ~Crash,
           NEW j \in Inputs, SessionOf[j] = SessionOf[slot] PROVE gate'[j] # "stale"
<1>1. TypeOK /\ driving \in {"free", "driver", "call"}
      /\ gate \in [Inputs -> Inbox \cup {"none", "taken"}]
  BY DEF DriverTypeOK
<1>2. CASE ResumeStale
  <2>1. gate' = InboxCleared(target) /\ SessionOf[slot] = target
    BY <1>2, <1>1 DEF ResumeStale, vars, slotVars, DriveOK, TurnSteps, HasTurn, Opened, BetweenTurns
  <2>2. QED BY <2>1 DEF InboxCleared, Inbox, Leftover
<1>3. CASE Finish BY <1>3 DEF Finish, Residing
<1>4. CASE DispatchDue \/ Claim
  BY <1>4, <1>1, RowMoves, ClaimMoves, InputsAssumption DEF DispatchDue, Claim, vars, slotVars
<1>5. CASE AlarmFires \/ scheduleMainWake \/ WakeFails \/ RescheduleRequested \/ Timeout \/
           requestTurnCancellation
  BY <1>5 DEF AlarmFires, scheduleMainWake, WakeFails, RescheduleRequested, Timeout,
    requestTurnCancellation, vars, slotVars
<1>6. CASE ArmClaim \/ ClaimTurn \/ OpenAgent \/ StartTurn \/ OpenFails \/ Admitted \/ Closing \/ Release
  BY <1>6 DEF ArmClaim, ClaimTurn, OpenAgent, StartTurn, OpenFails, Admitted, Closing, Release,
    vars, slotVars
<1>7. CASE CallStep
  BY <1>7 DEF CallStep, EndCall, JoinTurn, JoinedSettles, withAgentControl, withAgentTurn,
    RenameBegins, RenameEnds, vars, slotVars
<1>8. ASSUME NEW i \in Inputs, RetryPrompt(i) \/ AnswerPrompt(i) \/ Disconnect(i) \/
             SteerBegins(i) \/ SteerReady(i) \/ AnswerFails(i) \/ SteerWakeFails(i) \/ RetrySteer(i)
             \/ FlushOk(i) \/ PreStep(i) \/ ConsumptionCommits(i)
      PROVE  FALSE
  BY <1>8 DEF RetryPrompt, AnswerPrompt, Disconnect, SteerBegins, SteerReady, AnswerFails,
    SteerWakeFails, RetrySteer, FlushOk, PreStep, ConsumptionCommits, vars, slotVars
<1>9. ASSUME NEW i \in Inputs, RemoveQueued(i) \/ SteerEnqueue(i) \/ SteerAdmit(i) \/ Promote(i) \/
             AppendCommits(i) \/ FlushFails(i)
      PROVE  FALSE
  BY <1>9, <1>1, RowMoves DEF RemoveQueued, SteerEnqueue, SteerAdmit, RefuseSteer, Promote,
    AppendCommits, FlushFails, vars, slotVars
<1>10. ASSUME NEW i \in Inputs, NEW w \in Weights, SubmitPrompt(i, w) \/ EditQueued(i, w)
       PROVE  FALSE
  BY <1>10, <1>1, RowMoves DEF SubmitPrompt, EditQueued
<1>11. QED
  BY <1>2, <1>3, <1>4, <1>5, <1>6, <1>7, <1>8, <1>9, <1>10 DEF DriverNext, DriveStep, CallStep,
    RequestStep

\* What a run that died with its claim left goes with the claim.
LEMMA StaleStep ==
    DriverTypeOK /\ DriveOK /\ StaleInboxGoes /\ [DriverNext]_driverVars => StaleInboxGoes'
<1> SUFFICES ASSUME DriverTypeOK, DriveOK, StaleInboxGoes, [DriverNext]_driverVars,
                    NEW j \in Inputs, gate'[j] = "stale"
             PROVE  slot' # None /\ SessionOf[slot'] = SessionOf[j] /\ ~Residing'
  BY DEF StaleInboxGoes
<1>1. CASE Crash
  <2>1. gate'[j] = LeftBehind(j) /\ slot' = slot /\ driving' = "free"
    BY <1>1, RestartMoves DEF Crash, DriverTypeOK
  <2>2. slot # None /\ SessionOf[slot] = SessionOf[j] BY <2>1 DEF LeftBehind
  <2>3. QED BY <2>1, <2>2 DEF Residing
<1>2. CASE DriverNext /\ ~Crash
  <2>1. gate[j] = "stale" BY <1>2, StaleKept DEF DriverTypeOK
  <2>2. slot # None /\ SessionOf[slot] = SessionOf[j] /\ ~Residing BY <2>1 DEF StaleInboxGoes
  <2>3. slot' = slot BY <1>2, <2>2, FinishClears
  <2>4. ~Residing' BY <1>2, <2>2, ResidencyEntered DEF DriverTypeOK
  <2>5. QED BY <2>2, <2>3, <2>4
<1>3. CASE UNCHANGED driverVars
  BY <1>3 DEF driverVars, vars, slotVars, mainVars, agentVars, StaleInboxGoes, Residing
<1>4. QED BY <1>1, <1>2, <1>3

\* No operation of the ledger makes work of an input that was not work, unless
\* it is a new one.
LEMMA WorkStep ==
    ASSUME TypeOK, [Next]_vars, NEW j \in Inputs, row[j] \notin {"absent", "steering"}
    PROVE  /\ row'[j] \notin {"absent", "steering"}
           /\ row'[j] \in {"queued"} \cup Owning => row[j] \in {"queued"} \cup Owning
<1>1. ASSUME NEW i \in Inputs, NEW w \in Weights,
             Enqueue(i, w) \/ EnqueueSteer(i, w) \/ DispatchReminder(i, w) \/ edit(i, w)
      PROVE  row'[j] = row[j]
  BY <1>1, RowMoves DEF Moves
<1>2. CASE claim BY <1>2, ClaimMoves DEF Moves, Owning
<1>3. ASSUME NEW b \in BOOLEAN, finish(b)
      PROVE  row'[j] = row[j] \/ row'[j] \in {"settled", "interrupted"}
  BY <1>3, FinishMoves
<1>4. ASSUME NEW i \in Inputs, stageSteer(i) \/ remove(i) \/ acknowledgeMainInputs(i)
      PROVE  /\ row'[j] \notin {"absent", "steering"}
             /\ row'[j] \in {"queued"} \cup Owning => row[j] \in {"queued"} \cup Owning
  BY <1>4, RowMoves DEF Moves, Owning
<1>5. ASSUME NEW i \in Inputs, NEW a \in BOOLEAN, NEW d \in BOOLEAN, finishSteer(i, a, d)
      PROVE  row'[j] = row[j] \/ row'[j] \in {"settled", "interrupted", "rejected"}
  BY <1>5, RowMoves DEF Moves
<1>6. CASE Restart BY <1>6, RestartMoves DEF Owning
<1>7. CASE UNCHANGED vars BY <1>7 DEF vars, inputVars
<1>8. QED BY <1>1, <1>2, <1>3, <1>4, <1>5, <1>6, <1>7 DEF Next, Owning

\* Work of a session that is not paused is work for the driver: a queued input
\* is in the ready table, and a session marked -1 has a claim in the slot.
LEMMA WorkWaits ==
    ASSUME TypeOK, LedgerInv, NEW j \in Inputs, row[j] \in {"queued"} \cup Owning,
           paused[SessionOf[j]] # 1 PROVE hasWork
<1>1. SessionOf[j] \in Sessions /\ None \notin Inputs BY InputsAssumption
<1>2. CASE row[j] \in Owning BY <1>1, <1>2 DEF LedgerInv, SlotOwnsClaim, hasWork
<1>3. CASE row[j] = "queued"
  BY <1>1, <1>3 DEF LedgerInv, QueuedIsReady, ResumeMarkHasOwner, TypeOK, hasWork
<1>4. QED BY <1>2, <1>3

\* A step that answers nobody, pauses nobody and keeps the wake or recomputes it.
LEMMA AckKept ==
    ASSUME TypeOK, LedgerInv, AckOK, acked \subseteq Inputs, [Next]_vars,
           acked' \subseteq acked, NonePaused,
           alarm' = hasWork \/ (alarm \/ alarmRuns => alarm' \/ alarmRuns')
    PROVE  AckOK'
<1> SUFFICES ASSUME NEW j \in acked'
             PROVE  /\ row'[j] \notin {"absent", "steering"} /\ paused'[SessionOf[j]] # 1
                    /\ row'[j] \in {"queued"} \cup Owning => alarm' \/ alarmRuns'
  BY DEF AckOK
<1>1. /\ j \in Inputs /\ SessionOf[j] \in Sessions /\ row[j] \notin {"absent", "steering"}
      /\ paused[SessionOf[j]] # 1
      /\ row[j] \in {"queued"} \cup Owning => alarm \/ alarmRuns
  BY InputsAssumption DEF AckOK
<1>2. row[j] \in {"queued"} \cup Owning => hasWork BY <1>1, WorkWaits
<1>3. /\ row'[j] \notin {"absent", "steering"}
      /\ row'[j] \in {"queued"} \cup Owning => row[j] \in {"queued"} \cup Owning
  BY <1>1, WorkStep
<1>4. QED BY <1>1, <1>2, <1>3 DEF NonePaused

\* The end of a residency takes back the answers of the session it pauses.
LEMMA AckFinish ==
    ASSUME TypeOK, AckOK, acked \subseteq Inputs, [Next]_vars,
           NEW b \in BOOLEAN, finish(b), SessionOf[slot] = target,
           acked' = acked \ {i \in Inputs : SessionOf[i] = target /\ paused'[target] = 1},
           UNCHANGED <<alarm, alarmRuns>>
    PROVE  AckOK'
<1> SUFFICES ASSUME NEW j \in acked'
             PROVE  /\ row'[j] \notin {"absent", "steering"} /\ paused'[SessionOf[j]] # 1
                    /\ row'[j] \in {"queued"} \cup Owning => alarm' \/ alarmRuns'
  BY DEF AckOK
<1>1. /\ j \in Inputs /\ SessionOf[j] \in Sessions /\ row[j] \notin {"absent", "steering"}
      /\ paused[SessionOf[j]] # 1
      /\ row[j] \in {"queued"} \cup Owning => alarm \/ alarmRuns
  BY InputsAssumption DEF AckOK
<1>2. paused'[SessionOf[j]] # 1 BY <1>1, FinishMoves
<1>3. QED BY <1>1, <1>2, WorkStep

\* Answered work and its wake, step by step.
LEMMA AckStep ==
    DriverTypeOK /\ LedgerInv /\ DriveOK /\ AckOK /\ [DriverNext]_driverVars => AckOK'
<1> SUFFICES ASSUME DriverTypeOK, LedgerInv, DriveOK, AckOK, [DriverNext]_driverVars
             PROVE  AckOK'
  OBVIOUS
<1>1. TypeOK /\ LedgerInv /\ AckOK /\ acked \subseteq Inputs /\ [Next]_vars
  BY DriverUsesLedger DEF DriverTypeOK, driverVars
<1>2. DriveOK /\ driving \in {"free", "driver", "call"} BY DEF DriverTypeOK
<1>3. CASE DispatchDue
  <2>1. UNCHANGED <<acked, alarm, alarmRuns>> /\ NonePaused
    BY <1>3, <1>1, RowMoves, InputsAssumption DEF DispatchDue, requestVars, wakeVars, NonePaused, vars, readyVars
  <2>2. QED BY <1>1, <2>1, AckKept
<1>4. CASE Claim
  <2>1. UNCHANGED <<acked, alarm, alarmRuns>> /\ NonePaused
    BY <1>4, <1>1, ClaimMoves DEF Claim, requestVars, NonePaused, vars, readyVars
  <2>2. QED BY <1>1, <2>1, AckKept
<1>5. CASE AlarmFires
  <2>1. acked' = acked /\ alarmRuns' = TRUE /\ NonePaused
    BY <1>5 DEF AlarmFires, requestVars, NonePaused, vars, readyVars
  <2>2. QED BY <1>1, <2>1, AckKept
<1>6. CASE scheduleMainWake
  <2>1. acked' = acked /\ alarm' = hasWork /\ NonePaused
    BY <1>6 DEF scheduleMainWake, requestVars, NonePaused, vars, readyVars
  <2>2. QED BY <1>1, <2>1, AckKept
<1>61. CASE WakeFails
  <2>1. /\ acked' = acked /\ NonePaused
        /\ alarm \/ alarmRuns => alarm' \/ alarmRuns'
    BY <1>61 DEF WakeFails, requestVars, NonePaused, vars, readyVars
  <2>2. QED BY <1>1, <2>1, AckKept
<1>7. CASE RescheduleRequested \/ Timeout \/ requestTurnCancellation
  <2>1. UNCHANGED <<acked, alarm, alarmRuns>> /\ NonePaused
    BY <1>7 DEF RescheduleRequested, requestVars, vars, readyVars, Timeout, wakeVars,
      requestTurnCancellation, NonePaused
  <2>2. QED BY <1>1, <2>1, AckKept
<1>8. CASE ResumeStale
  <2>1. CASE UNCHANGED <<vars, acked, alarm, alarmRuns>>
    BY <1>1, <2>1, AckKept DEF NonePaused, vars, readyVars
  <2>2. CASE /\ finish(TRUE) /\ UNCHANGED wakeVars
             /\ acked' = acked \ {i \in Inputs : SessionOf[i] = target /\ paused'[target] = 1}
    <3>1. SessionOf[slot] = target
      BY <1>8, <1>2 DEF ResumeStale, DriveOK, TurnSteps, HasTurn, Opened, BetweenTurns
    <3>2. QED BY <1>1, <2>2, <3>1, AckFinish DEF wakeVars
  <2>3. QED BY <1>8, <2>1, <2>2 DEF ResumeStale
<1>9. CASE ArmClaim
  <2>1. acked' = acked /\ (alarm' = hasWork \/ UNCHANGED <<alarm, alarmRuns>>) /\ NonePaused
    BY <1>9 DEF ArmClaim, requestVars, NonePaused, vars, readyVars
  <2>2. QED BY <1>1, <2>1, AckKept
<1>10. CASE ClaimTurn \/ OpenAgent \/ StartTurn \/ OpenFails
  <2>1. UNCHANGED <<acked, alarm, alarmRuns>> /\ NonePaused
    BY <1>10 DEF ClaimTurn, requestVars, wakeVars, vars, readyVars, OpenAgent, StartTurn,
      OpenFails, NonePaused
  <2>2. QED BY <1>1, <2>1, AckKept
<1>11. CASE Admitted \/ Closing \/ Release
  <2>1. UNCHANGED <<acked, alarm, alarmRuns>> /\ NonePaused
    BY <1>11 DEF Admitted, requestVars, wakeVars, vars, readyVars, Closing, Release, NonePaused
  <2>2. QED BY <1>1, <2>1, AckKept
<1>12. CASE Finish
  <2>1. SessionOf[slot] = target BY <1>12, <1>2 DEF Finish, DriveOK, BetweenTurns
  <2>2. PICK b \in BOOLEAN : finish(b) BY <1>12 DEF Finish
  <2>3. /\ acked' = acked \ {i \in Inputs : SessionOf[i] = target /\ paused'[target] = 1}
        /\ UNCHANGED <<alarm, alarmRuns>>
    BY <1>12 DEF Finish
  <2>4. QED BY <1>1, <2>1, <2>2, <2>3, AckFinish
<1>13. CASE EndCall \/ JoinTurn \/ JoinedSettles
  <2>1. UNCHANGED <<acked, alarm, alarmRuns>> /\ NonePaused
    BY <1>13 DEF EndCall, requestVars, wakeVars, vars, readyVars, JoinTurn, JoinedSettles,
      NonePaused
  <2>2. QED BY <1>1, <2>1, AckKept
<1>14. ASSUME NEW s \in Sessions, withAgentControl(s) \/ withAgentTurn(s) \/ RenameBegins(s) \/
              RenameEnds(s) PROVE AckOK'
  <2>1. UNCHANGED <<acked, alarm, alarmRuns>> /\ NonePaused
    BY <1>14 DEF withAgentControl, requestVars, wakeVars, vars, readyVars, withAgentTurn,
      RenameBegins, RenameEnds, NonePaused
  <2>2. QED BY <1>1, <2>1, AckKept
<1>15. ASSUME NEW i \in Inputs, RetryPrompt(i) \/ Disconnect(i) \/ SteerBegins(i) \/
              SteerReady(i) \/ FlushOk(i) \/ PreStep(i) \/ ConsumptionCommits(i) \/
              AnswerFails(i) \/ SteerWakeFails(i) \/ RetrySteer(i)
       PROVE  AckOK'
  <2>1. UNCHANGED <<acked, alarm, alarmRuns>> /\ NonePaused
    BY <1>15 DEF RetryPrompt, wakeVars, vars, readyVars, Disconnect, SteerBegins, SteerReady,
      FlushOk, PreStep, ConsumptionCommits, AnswerFails, SteerWakeFails, RetrySteer,
      requestVars, NonePaused
  <2>2. QED BY <1>1, <2>1, AckKept
<1>16. ASSUME NEW i \in Inputs, AnswerPrompt(i) PROVE AckOK'
  <2>1. /\ alarm' = hasWork /\ UNCHANGED vars /\ NonePaused
        /\ acked' = IF paused[SessionOf[i]] = 1 THEN acked ELSE AckedAfter(i)
    BY <1>16 DEF AnswerPrompt, NonePaused, vars, readyVars
  <2>2. CASE acked' = acked BY <1>1, <2>1, <2>2, AckKept
  <2>3. CASE paused[SessionOf[i]] # 1 /\ acked' = AckedAfter(i)
    <3> SUFFICES ASSUME NEW j \in acked'
                 PROVE  /\ row'[j] \notin {"absent", "steering"} /\ paused'[SessionOf[j]] # 1
                        /\ row'[j] \in {"queued"} \cup Owning => alarm' \/ alarmRuns'
      BY DEF AckOK
    <3>1. j \in Inputs /\ row[j] \notin {"absent", "steering"} /\ paused[SessionOf[j]] # 1
      BY <1>1, <2>3 DEF AckOK, AckedAfter
    <3>2. row[j] \in {"queued"} \cup Owning => hasWork BY <1>1, <3>1, WorkWaits
    <3>3. QED BY <2>1, <3>1, <3>2 DEF vars, inputVars, readyVars
  <2>4. QED BY <2>1, <2>2, <2>3
<1>17. ASSUME NEW i \in Inputs, RemoveQueued(i) PROVE AckOK'
  <2>1. UNCHANGED <<acked, alarm, alarmRuns>> /\ NonePaused
    BY <1>17, <1>1, RowMoves DEF RemoveQueued, wakeVars
  <2>2. QED BY <1>1, <2>1, AckKept
<1>18. ASSUME NEW i \in Inputs, SteerEnqueue(i) PROVE AckOK'
  <2>1. UNCHANGED <<acked, alarm, alarmRuns>> /\ NonePaused
    BY <1>18, <1>1, RowMoves DEF SteerEnqueue, wakeVars, NonePaused, vars, readyVars
  <2>2. QED BY <1>1, <2>1, AckKept
<1>19. ASSUME NEW i \in Inputs, SteerAdmit(i) PROVE AckOK'
  <2>1. acked' = acked /\ alarm' = hasWork BY <1>19 DEF SteerAdmit
  <2>2. UNCHANGED vars \/ finishSteer(i, FALSE, FALSE) BY <1>19 DEF SteerAdmit, RefuseSteer
  <2>3. NonePaused BY <1>1, <2>2, RowMoves DEF NonePaused, vars, readyVars
  <2>4. QED BY <1>1, <2>1, <2>3, AckKept
<1>20. ASSUME NEW i \in Inputs, Promote(i) PROVE AckOK'
  <2>1. UNCHANGED <<acked, alarm, alarmRuns>> /\ NonePaused
    BY <1>20, <1>1, RowMoves DEF Promote, wakeVars
  <2>2. QED BY <1>1, <2>1, AckKept
<1>21. ASSUME NEW i \in Inputs, AppendCommits(i) PROVE AckOK'
  <2>1. UNCHANGED <<acked, alarm, alarmRuns>> /\ NonePaused
    BY <1>21, <1>1, RowMoves DEF AppendCommits, requestVars, wakeVars
  <2>2. QED BY <1>1, <2>1, AckKept
<1>22. ASSUME NEW i \in Inputs, FlushFails(i) PROVE AckOK'
  <2>1. UNCHANGED <<acked, alarm, alarmRuns>> /\ NonePaused
    BY <1>22, <1>1, RowMoves DEF FlushFails, wakeVars, NonePaused, vars, readyVars
  <2>2. QED BY <1>1, <2>1, AckKept
<1>23. ASSUME NEW i \in Inputs, NEW w \in Weights, SubmitPrompt(i, w) PROVE AckOK'
  <2>1. UNCHANGED <<acked, alarm, alarmRuns>> /\ NonePaused
    BY <1>23, <1>1, RowMoves DEF SubmitPrompt, wakeVars
  <2>2. QED BY <1>1, <2>1, AckKept
<1>24. ASSUME NEW i \in Inputs, NEW w \in Weights, EditQueued(i, w) PROVE AckOK'
  <2>1. UNCHANGED <<acked, alarm, alarmRuns>> /\ NonePaused
    BY <1>24, <1>1, RowMoves DEF EditQueued, requestVars, wakeVars
  <2>2. QED BY <1>1, <2>1, AckKept
<1>25. CASE Crash
  <2>1. acked' = acked /\ alarm' = (alarm \/ alarmRuns) /\ NonePaused
    BY <1>25, <1>1, RestartMoves DEF Crash, NonePaused
  <2>2. QED BY <1>1, <2>1, AckKept
<1>26. CASE UNCHANGED driverVars
  BY <1>26, <1>1, AckKept DEF driverVars, requestVars, wakeVars, NonePaused, vars, readyVars
<1>27. QED
  BY <1>3, <1>4, <1>5, <1>6, <1>7, <1>8, <1>9, <1>10, <1>11, <1>12, <1>13, <1>14, <1>15, <1>16,
     <1>17, <1>18, <1>19, <1>20, <1>21, <1>22, <1>23, <1>24, <1>25, <1>26, <1>61
     DEF DriverNext, DriveStep, CallStep, RequestStep

----------------------------------------
(* The theorems. *)

\* The invariant holds at first.
LEMMA DriverInvInit == DriverInit => DriverInv
<1> SUFFICES ASSUME DriverInit PROVE DriverInv OBVIOUS
<1>1. Init /\ TypeOK /\ LedgerInv BY TypeInit, LedgerInit DEF DriverInit
<1>2. DriverTypeOK
  <2>1. 0 \in 0..MaxTurns /\ 0 \in 0..MaxCrashes /\ 0 \in 0..MaxFaults /\ 0 \in 0..MaxCalls
    BY BoundsAssumption
  <2>2. /\ resident \in [Sessions -> {"cold", "byMain", "byRename", "live"}]
        /\ gate \in [Inputs -> Inbox \cup {"none", "taken"}]
        /\ steer \in [Inputs -> {"idle", "ready", "enqueue", "armed", "stranded", "inbox"}]
        /\ aim \in [Inputs -> 0..MaxTurns] /\ seen \in [Inputs -> 0..MaxTurns]
    BY <2>1 DEF DriverInit
  <2>3. QED BY <1>1, <2>1, <2>2 DEF DriverInit, DriverTypeOK
<1>3. DriveOK /\ TurnOK BY DEF DriverInit, DriveOK, TurnOK, BetweenTurns, HasTurn, Opened
<1>4. InboxesOK /\ StaleInboxGoes /\ AckOK
  BY DEF DriverInit, Init, InboxesOK, InboxOK, Pinned, AckOK, StaleInboxGoes, Gated, Leftover
<1>5. QED BY <1>1, <1>2, <1>3, <1>4 DEF DriverInv

\* No step of the scheduler breaks the invariant.
LEMMA DriverInvStep == DriverInv /\ [DriverNext]_driverVars => DriverInv'
<1> SUFFICES ASSUME DriverInv, [DriverNext]_driverVars PROVE DriverInv' OBVIOUS
<1> USE DEF DriverInv
<1>1. DriverTypeOK' BY DriverTypeStep
<1>2. LedgerInv' BY DriverUsesLedger, LedgerStep DEF DriverTypeOK, driverVars
<1>3. DriveOK' BY DriveStepOK
<1>4. TurnOK' BY <1>1, TurnStepOK
<1>5. InboxesOK' BY InboxStep DEF LedgerInv
<1>6. StaleInboxGoes' BY StaleStep
<1>7. AckOK' BY AckStep
<1>8. QED BY <1>1, <1>2, <1>3, <1>4, <1>5, <1>6, <1>7

\* The properties that the invariant is about follow from it.
LEMMA DriverInvSays ==
    DriverInv => SteeringIsExact /\ TurnIsAttended /\ AckedWorkHasAlarm
<1> SUFFICES ASSUME DriverInv PROVE SteeringIsExact /\ TurnIsAttended /\ AckedWorkHasAlarm OBVIOUS
<1> USE DEF DriverInv
<1>1. SteeringIsExact
  BY DEF SteeringIsExact, SeenIsDurable, SteeringHasRequest, InboxesOK, InboxOK, Pinned, Durable
<1>2. TurnIsAttended
  <2>1. turn # None => turn.open \in BOOLEAN /\ turn.cancelled \in BOOLEAN BY TurnFacts
  <2>2. QED BY <2>1 DEF TurnIsAttended, StopReachesAgent, JoinedCallInsideTurn, TurnOK, Opened
<1>3. AckedWorkHasAlarm BY DEF AckedWorkHasAlarm, AckOK
<1>4. QED BY <1>1, <1>2, <1>3

\* Every reachable state of the scheduler satisfies the inductive invariant.
THEOREM DriverInvariant == DriverSpec => []DriverInv
<1>1. QED BY DriverInvInit, DriverInvStep, PTL DEF DriverSpec

\* The memory of the process and the alarm have their types, and so has the
\* ledger under them.
THEOREM DriverTypes == DriverSpec => []DriverTypeOK
<1>1. DriverInv => DriverTypeOK BY DEF DriverInv
<1>2. QED BY <1>1, DriverInvariant, PTL

\* However submissions, promotions, flushes, turns, crashes and failing writes
\* interleave, the model consumes durable inputs only, the inbox of a run that
\* died with its claim is cleared before the next residency, and an uncommitted
\* steer has a request that will settle it or its wake failed.
THEOREM SteeringCorrect == DriverSpec => []SteeringIsExact
<1>1. DriverInv => SteeringIsExact BY DriverInvSays
<1>2. QED BY <1>1, DriverInvariant, PTL

\* A stop accepted while the agent opened has reached it before the turn runs,
\* and no joined call outlives the turn it joined.
THEOREM TurnsAttended == DriverSpec => []TurnIsAttended
<1>1. DriverInv => TurnIsAttended BY DriverInvSays
<1>2. QED BY <1>1, DriverInvariant, PTL

\* An answered submission that can run has a wake in every reachable state, the
\* one before a crash and the one after it included.
THEOREM AckedWorkIsWoken == DriverSpec => []AckedWorkHasAlarm
<1>1. DriverInv => AckedWorkHasAlarm BY DriverInvSays
<1>2. QED BY <1>1, DriverInvariant, PTL

----------------------------------------
(* Action properties. *)

\* Only a model step consumes an input; one of this process was not consumed
\* before and is in the turn it was aimed at.
LEMMA SeenStep ==
    ASSUME DriverInv, DriverNext, NEW j \in Inputs, seen'[j] # seen[j]
    PROVE  \/ seen[j] = 0 /\ (Pinned(j) => seen'[j] = aim[j])
           \/ gate[j] \in Leftover
<1>1. InboxOK(j) /\ seen \in [Inputs -> 0..MaxTurns] BY DEF DriverInv, InboxesOK, DriverTypeOK
<1>2. ASSUME NEW i \in Inputs, PreStep(i)
      PROVE  \/ seen[j] = 0 /\ (Pinned(j) => seen'[j] = aim[j])
             \/ gate[j] \in Leftover
  <2>1. seen' = seen \/ seen' = [seen EXCEPT ![i] = turn.id] BY <1>2 DEF PreStep
  <2>2. i = j /\ seen'[j] = turn.id BY <1>1, <2>1
  <2>3. QED BY <1>1, <1>2, <2>2 DEF PreStep, GateSettled, InboxOK, Gated
<1>3. CASE DispatchDue \/ Claim \/ AlarmFires \/ scheduleMainWake \/ WakeFails \/ RescheduleRequested \/
           Timeout \/ requestTurnCancellation
  BY <1>3 DEF DispatchDue, agentVars, Claim, AlarmFires, scheduleMainWake, WakeFails,
    RescheduleRequested, Timeout, requestTurnCancellation
<1>4. CASE ResumeStale \/ ArmClaim \/ ClaimTurn \/ OpenAgent \/ StartTurn \/ OpenFails \/
           Admitted \/ Closing \/ Release \/ Finish
  BY <1>4 DEF ResumeStale, ArmClaim, agentVars, ClaimTurn, OpenAgent, StartTurn, OpenFails,
    Admitted, Closing, Release, Finish
<1>5. CASE EndCall \/ JoinTurn \/ JoinedSettles \/ Crash
  BY <1>5 DEF EndCall, JoinTurn, JoinedSettles, Crash
<1>6. ASSUME NEW s \in Sessions, withAgentControl(s) \/ withAgentTurn(s) \/ RenameBegins(s) \/
             RenameEnds(s) PROVE seen'[j] = seen[j]
  BY <1>6 DEF withAgentControl, agentVars, withAgentTurn, RenameBegins, RenameEnds
<1>7. ASSUME NEW i \in Inputs, RetryPrompt(i) \/ AnswerPrompt(i) \/ Disconnect(i) \/
             RemoveQueued(i) \/ SteerBegins(i) \/ SteerReady(i) \/ SteerEnqueue(i)
      PROVE  seen'[j] = seen[j]
  BY <1>7 DEF RetryPrompt, agentVars, AnswerPrompt, Disconnect, RemoveQueued, SteerBegins,
    SteerReady, SteerEnqueue
<1>8. ASSUME NEW i \in Inputs, SteerAdmit(i) \/ Promote(i) \/ AppendCommits(i) \/ FlushOk(i) \/
             FlushFails(i) PROVE seen'[j] = seen[j]
  BY <1>8 DEF SteerAdmit, Promote, AppendCommits, agentVars, FlushOk, FlushFails
<1>81. ASSUME NEW i \in Inputs, ConsumptionCommits(i) \/ AnswerFails(i) \/ SteerWakeFails(i) \/
              RetrySteer(i) PROVE seen'[j] = seen[j]
  BY <1>81 DEF ConsumptionCommits, AnswerFails, SteerWakeFails, RetrySteer, agentVars
<1>9. ASSUME NEW i \in Inputs, NEW w \in Weights, SubmitPrompt(i, w) \/ EditQueued(i, w)
      PROVE  seen'[j] = seen[j]
  BY <1>9 DEF SubmitPrompt, agentVars, EditQueued
<1>10. QED
  BY <1>2, <1>3, <1>4, <1>5, <1>6, <1>7, <1>8, <1>81, <1>9 DEF DriverNext, DriveStep, CallStep, RequestStep

\* The model consumes no input twice and a steered one in its own run only, in
\* whatever order flushes, turns and crashes come, but for what the durable log
\* of a dead process still had in the inbox.
THEOREM ModelSeesOnce == DriverSpec => SeenOnce
<1>1. DriverInv /\ [DriverNext]_driverVars
        => [\A i \in Inputs : seen'[i] # seen[i] =>
              \/ seen[i] = 0 /\ (Pinned(i) => seen'[i] = aim[i])
              \/ gate[i] \in Leftover]_driverVars
  BY SeenStep
<1>2. QED BY <1>1, DriverInvariant, PTL DEF DriverSpec, SeenOnce

\* A claim in the slot is replaced by finish only.
LEMMA SlotKept ==
    ASSUME TypeOK, Next, slot # None PROVE slot' = slot \/ \E b \in BOOLEAN : finish(b)
<1>1. ASSUME NEW i \in Inputs, NEW w \in Weights,
             Enqueue(i, w) \/ EnqueueSteer(i, w) \/ DispatchReminder(i, w) \/ edit(i, w)
      PROVE  slot' = slot
  BY <1>1, RowMoves
<1>2. ASSUME NEW i \in Inputs, stageSteer(i) \/ remove(i) \/ acknowledgeMainInputs(i)
      PROVE  slot' = slot
  BY <1>2, RowMoves
<1>3. ASSUME NEW i \in Inputs, NEW a \in BOOLEAN, NEW d \in BOOLEAN, finishSteer(i, a, d)
      PROVE  slot' = slot
  BY <1>3, RowMoves
<1>4. claim => slot = None BY ClaimMoves
<1>5. Restart => slot' = slot BY RestartMoves
<1>6. QED BY <1>1, <1>2, <1>3, <1>4, <1>5 DEF Next

\* A residency is left by its finish, a failed wake or the process only.
LEMMA ResidencyLeft ==
    ASSUME DriverNext, Residing PROVE Residing' \/ pc = "finishing" \/ driving' = "free"
<1>1. driving = "driver" /\ pc \notin {"off", "resuming", "dispatching", "claiming"} BY DEF Residing
<1>2. CASE AlarmFires \/ scheduleMainWake \/ WakeFails \/ RescheduleRequested
  BY <1>2, <1>1 DEF AlarmFires, scheduleMainWake, WakeFails, RescheduleRequested, mainVars,
    FreeMain, Residing
<1>3. CASE Timeout \/ requestTurnCancellation
  BY <1>3, <1>1 DEF Timeout, requestTurnCancellation, Residing
<1>4. CASE ResumeStale \/ ArmClaim \/ Finish
  BY <1>4, <1>1 DEF ResumeStale, ArmClaim, Finish, StopDriving, Residing
<1>5. CASE ClaimTurn \/ OpenAgent \/ StartTurn \/ OpenFails \/ Admitted \/ Closing \/ Release
  BY <1>5, <1>1 DEF ClaimTurn, OpenAgent, StartTurn, OpenFails, Admitted, Closing, Release,
    Residing
<1>6. CASE EndCall \/ JoinTurn \/ JoinedSettles \/ Crash
  BY <1>6, <1>1 DEF EndCall, JoinTurn, JoinedSettles, Crash, mainVars, Residing
<1>7. ASSUME NEW s \in Sessions, withAgentControl(s) \/ withAgentTurn(s) \/ RenameBegins(s) \/
             RenameEnds(s) PROVE Residing' \/ pc = "finishing" \/ driving' = "free"
  BY <1>7, <1>1 DEF withAgentControl, withAgentTurn, RenameBegins, RenameEnds, FreeMain,
    mainVars, Residing
<1>8. ASSUME NEW i \in Inputs, RetryPrompt(i) \/ Disconnect(i) \/ SteerBegins(i) \/
             SteerReady(i) \/ SteerEnqueue(i) \/ AnswerFails(i) \/ SteerWakeFails(i) \/ RetrySteer(i)
      PROVE  Residing' \/ pc = "finishing" \/ driving' = "free"
  BY <1>8, <1>1 DEF RetryPrompt, Disconnect, SteerBegins, SteerReady, SteerEnqueue, AnswerFails,
    SteerWakeFails, RetrySteer, mainVars, Residing
<1>9. ASSUME NEW i \in Inputs, SteerAdmit(i) \/ Promote(i) \/ AppendCommits(i) \/ FlushOk(i) \/
             FlushFails(i) \/ PreStep(i) \/ ConsumptionCommits(i)
      PROVE  Residing' \/ pc = "finishing" \/ driving' = "free"
  BY <1>9, <1>1 DEF SteerAdmit, Promote, AppendCommits, FlushOk, FlushFails, PreStep,
    ConsumptionCommits, mainVars, Residing
<1>10. ASSUME NEW i \in Inputs, AnswerPrompt(i) \/ RemoveQueued(i)
       PROVE  Residing' \/ pc = "finishing" \/ driving' = "free"
  BY <1>10, <1>1 DEF AnswerPrompt, RemoveQueued, kickMain, FreeMain, mainVars, Residing
<1>11. ASSUME NEW i \in Inputs, NEW w \in Weights, SubmitPrompt(i, w) \/ EditQueued(i, w)
       PROVE  Residing' \/ pc = "finishing" \/ driving' = "free"
  BY <1>11, <1>1 DEF SubmitPrompt, EditQueued, kickMain, FreeMain, mainVars, Residing
<1>12. ~(DispatchDue \/ Claim) BY <1>1 DEF DispatchDue, Claim
<1>13. QED
  BY <1>2, <1>3, <1>4, <1>5, <1>6, <1>7, <1>8, <1>9, <1>10, <1>11, <1>12 DEF DriverNext,
    DriveStep, CallStep, RequestStep

\* While a residency runs the durable slot is its own claim, its turn is of the
\* claim's session, and no other handler drives: no live claim is closed as stale.
THEOREM ResidencyKept == DriverSpec => ResidencyOwnsSlot
<1>1. ASSUME DriverInv, DriverInv', [DriverNext]_driverVars
      PROVE  [Residing =>
                 /\ slot # None /\ SessionOf[slot] = target
                 /\ turn # None => turn.session = target
                 /\ \/ Residing' /\ slot' = slot
                    \/ pc = "finishing" \/ driving' = "free"]_driverVars
  <2> SUFFICES ASSUME DriverNext, Residing
               PROVE  /\ slot # None /\ SessionOf[slot] = target
                      /\ turn # None => turn.session = target
                      /\ \/ Residing' /\ slot' = slot
                         \/ pc = "finishing" \/ driving' = "free"
    BY <1>1
  <2>1. slot # None /\ SessionOf[slot] = target
    BY <1>1 DEF DriverInv, DriveOK, Residing, BetweenTurns
  <2>2. turn # None => turn.session = target BY <1>1 DEF DriverInv, TurnOK
  <2>3. CASE Residing'
    <3>1. slot' # None BY <1>1, <2>3 DEF DriverInv, DriveOK, Residing, BetweenTurns
    <3>2. TypeOK /\ [Next]_vars BY <1>1, DriverUsesLedger DEF DriverInv, DriverTypeOK
    <3>3. slot' = slot BY <2>1, <3>1, <3>2, SlotKept DEF finish, vars, slotVars
    <3>4. QED BY <2>1, <2>2, <2>3, <3>3
  <2>4. QED BY <2>1, <2>2, <2>3, ResidencyLeft
<1>2. QED BY <1>1, DriverInvariant, PTL DEF DriverSpec, ResidencyOwnsSlot
===============================================================================
