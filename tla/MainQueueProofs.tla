--------------------------- MODULE MainQueueProofs ---------------------------
(***************************************************************************)
(* Proofs about the ledger, for any number of sessions and inputs and any  *)
(* limits.  The inductive invariant is TypeOK, LedgerInv and PendingExact: *)
(* each conjunct of LedgerInv needs the types only, the counter needs the  *)
(* slot's owner.  The byte counter is a fold over the rows: its facts are  *)
(* proved by induction over the subsets of a finite set (EverySubset), a   *)
(* form of induction that takes a set for its parameter.  The history of   *)
(* MCMainQueue has invariants of its own on top; the names of its instance *)
(* (s1, u1, ...) play no part.                                             *)
(***************************************************************************)
EXTENDS MCMainQueue, FiniteSetTheorems, WellFoundedInduction, TLAPS

\* States that a row column may hold.
RowStates == Unsettled \cup Terminal \cup {"absent"}

\* The states a row may be in, one by one.
LEMMA RowStatesListed ==
    RowStates = {"absent", "queued", "steering", "promoting", "claimed", "admitted",
                 "settled", "interrupted", "cancelled", "rejected"}
  BY DEF RowStates, Unsettled, Waiting, Owning, Terminal

\* An admission: what insertMainInput does to the types.
LEMMA InsertType ==
    ASSUME TypeOK, NEW i \in Inputs, NEW w \in Weights, NEW state \in {"queued", "steering"},
           insertMainInput(i, w, state)
    PROVE  /\ row' \in [Inputs -> RowStates]
           /\ seq' \in [Inputs -> Nat] /\ lastSeq' \in Nat
           /\ weight' \in [Inputs -> Nat]
           /\ ready' \subseteq Sessions
           /\ position' \in [Sessions -> Nat]
           /\ serial' \in Nat /\ pending' \in Int
  <1>1. SessionOf[i] \in Sessions /\ w \in Nat BY InputsAssumption, LimitsAssumption
  <1>2. state \in RowStates BY RowStatesListed
  <1>3. row' \in [Inputs -> RowStates] BY <1>2 DEF TypeOK, RowStates, insertMainInput
  <1>4. /\ seq' \in [Inputs -> Nat] /\ lastSeq' \in Nat
        /\ weight' \in [Inputs -> Nat] /\ pending' \in Int
    BY <1>1 DEF TypeOK, insertMainInput
  <1>5. /\ ready' \subseteq Sessions /\ position' \in [Sessions -> Nat] /\ serial' \in Nat
    BY <1>1 DEF TypeOK, insertMainInput, AppendReady
  <1>6. QED BY <1>3, <1>4, <1>5

\* What settle does to the types.
LEMMA SettleType ==
    ASSUME TypeOK, NEW i \in Inputs, NEW state \in Terminal, settle(i, state)
    PROVE  /\ row' \in [Inputs -> RowStates]
           /\ seq' \in [Inputs -> Nat] /\ lastSeq' \in Nat
           /\ weight' \in [Inputs -> Nat] /\ pending' \in Int
  BY DEF TypeOK, settle, RowStates

\* What resume does to the types.
LEMMA ResumeType ==
    ASSUME TypeOK, NEW s \in Sessions, resume(s) PROVE paused' \in [Sessions -> {-1, 0, 1}]
  BY DEF TypeOK, resume

\* What DropReady does to the types.
LEMMA DropReadyType ==
    ASSUME TypeOK, NEW s \in Sessions, DropReady(s)
    PROVE  /\ ready' \subseteq Sessions
           /\ position' \in [Sessions -> Nat]
           /\ paused' \in [Sessions -> {-1, 0, 1}]
  BY DEF TypeOK, DropReady

\* The outcome of a steer is one from which nothing goes on.
LEMMA SteerOutcomeTerminal ==
    ASSUME NEW i, NEW accepted \in BOOLEAN, NEW durable \in BOOLEAN
    PROVE  SteerOutcome(i, accepted, durable) \in {"settled", "interrupted", "rejected"}
  BY DEF SteerOutcome

\* Types hold in every reachable state.
LEMMA TypeInit == Init => TypeOK
  BY DEF Init, TypeOK

\* No step leaves the types.
LEMMA TypeStep == TypeOK /\ [Next]_vars => TypeOK'
<1> SUFFICES ASSUME TypeOK, [Next]_vars PROVE TypeOK' OBVIOUS
<1> USE DEF RowStates
<1>1. ASSUME NEW i \in Inputs, NEW w \in Weights, Enqueue(i, w) PROVE TypeOK'
  <2>1. insertMainInput(i, w, "queued") /\ resume(SessionOf[i]) BY <1>1 DEF Enqueue
  <2>2. SessionOf[i] \in Sessions BY InputsAssumption
  <2>3. QED BY <1>1, <2>1, <2>2, InsertType, ResumeType DEF Enqueue, TypeOK
<1>2. ASSUME NEW i \in Inputs, NEW w \in Weights, EnqueueSteer(i, w) PROVE TypeOK'
  BY <1>2, InsertType DEF EnqueueSteer, TypeOK
<1>3. ASSUME NEW i \in Inputs, NEW w \in Weights, DispatchReminder(i, w) PROVE TypeOK'
  BY <1>3, InsertType DEF DispatchReminder, TypeOK
<1>4. ASSUME NEW i \in Inputs, NEW w \in Weights, edit(i, w) PROVE TypeOK'
  BY <1>4, LimitsAssumption DEF edit, TypeOK, readyVars
<1>5. CASE claim
  <2>1. PICK s \in ready :
           \/ /\ \E i \in Queued(s) : slot' = i /\ row' = [row EXCEPT ![i] = "claimed"]
              /\ UNCHANGED readyVars
           \/ DropReady(s) /\ UNCHANGED <<slot, row>>
    BY <1>5 DEF claim
  <2>2. s \in Sessions /\ Queued(s) \subseteq Inputs BY DEF TypeOK, Queued, InState
  <2>3. UNCHANGED <<seq, lastSeq, weight, serial, pending, bytes, startupClaim>> BY <1>5 DEF claim
  <2>4. CASE \E i \in Queued(s) : slot' = i /\ row' = [row EXCEPT ![i] = "claimed"] /\ UNCHANGED readyVars
    BY <2>2, <2>3, <2>4 DEF TypeOK, readyVars, Unsettled, Owning
  <2>5. CASE DropReady(s) /\ UNCHANGED <<slot, row>> BY <2>2, <2>3, <2>5, DropReadyType DEF TypeOK
  <2>6. QED BY <2>1, <2>4, <2>5
<1>6. ASSUME NEW interrupted \in BOOLEAN, finish(interrupted) PROVE TypeOK'
  <2> DEFINE s == SessionOf[slot]
  <2>1. slot \in Inputs /\ s \in Sessions BY <1>6, InputsAssumption DEF finish, TypeOK
  <2>2. settle(slot, IF interrupted THEN "interrupted" ELSE "settled") /\ slot' = None
        /\ UNCHANGED startupClaim
    BY <1>6 DEF finish
  <2>3. (IF interrupted THEN "interrupted" ELSE "settled") \in Terminal BY DEF Terminal
  <2>4. /\ row' \in [Inputs -> RowStates]
        /\ seq' \in [Inputs -> Nat] /\ lastSeq' \in Nat
        /\ weight' \in [Inputs -> Nat] /\ pending' \in Int
    BY <2>1, <2>2, <2>3, SettleType
  <2>5. \/ DropReady(s) /\ UNCHANGED serial
        \/ /\ serial' = serial + 1
           /\ ready' = ready \cup {s}
           /\ position' = [position EXCEPT ![s] = serial + 1]
           /\ paused' = [paused EXCEPT ![s] = IF interrupted /\ paused[s] # -1 THEN 1 ELSE 0]
    BY <1>6 DEF finish, Tail
  <2>6. /\ ready' \subseteq Sessions /\ position' \in [Sessions -> Nat] /\ serial' \in Nat
        /\ paused' \in [Sessions -> {-1, 0, 1}]
    BY <2>1, <2>5, DropReadyType DEF TypeOK
  <2>7. QED BY <2>2, <2>4, <2>6 DEF TypeOK
<1>7. ASSUME NEW i \in Inputs, remove(i) PROVE TypeOK'
  <2>1. SessionOf[i] \in Sessions /\ settle(i, "cancelled") /\ "cancelled" \in Terminal
    BY <1>7, InputsAssumption DEF remove, CancelledState, Terminal
  <2>2. /\ DropReady(SessionOf[i]) \/ UNCHANGED readyVars
        /\ UNCHANGED <<slot, serial, startupClaim>>
    BY <1>7 DEF remove
  <2>3. QED BY <2>1, <2>2, SettleType, DropReadyType DEF TypeOK, readyVars
<1>8. ASSUME NEW i \in Inputs, stageSteer(i) PROVE TypeOK'
  BY <1>8 DEF stageSteer, TypeOK, readyVars, slotVars, Unsettled, Waiting
<1>9. ASSUME NEW i \in Inputs, acknowledgeMainInputs(i) PROVE TypeOK'
  <2>1. CASE settle(i, "settled") /\ UNCHANGED <<readyVars, slot, serial, startupClaim>>
    BY <2>1, SettleType DEF TypeOK, readyVars, Terminal
  <2>2. CASE /\ row' = [row EXCEPT ![i] = "admitted"]
             /\ UNCHANGED <<seq, lastSeq, weight, readyVars, slotVars, startupClaim>>
    BY <2>2 DEF TypeOK, readyVars, slotVars, Unsettled, Owning
  <2>3. QED BY <1>9, <2>1, <2>2 DEF acknowledgeMainInputs
<1>10. ASSUME NEW i \in Inputs, NEW accepted \in BOOLEAN, NEW durable \in BOOLEAN,
              finishSteer(i, accepted, durable) PROVE TypeOK'
  <2>1. SteerOutcome(i, accepted, durable) \in Terminal BY SteerOutcomeTerminal DEF Terminal
  <2>2. QED BY <1>10, <2>1, SettleType DEF finishSteer, TypeOK, readyVars
<1>11. CASE Restart
  <2>1. Cardinality(InState({"steering", "promoting"})) \in Nat
    <3>1. InState({"steering", "promoting"}) \subseteq Inputs BY DEF InState
    <3>2. QED BY <3>1, InputsAssumption, FS_Subset, FS_CardinalityType
  <2>2. pending' = pending - Cardinality(InState({"steering", "promoting"})) BY <1>11 DEF Restart
  <2>3. row' \in [Inputs -> RowStates] BY <1>11, RowStatesListed DEF Restart, TypeOK
  <2>4. seq' \in [Inputs -> Nat] /\ weight' \in [Inputs -> Nat] BY <1>11 DEF Restart, TypeOK
  <2>5. startupClaim' = slot /\ UNCHANGED <<lastSeq, readyVars, slot, serial>> BY <1>11 DEF Restart
  <2>6. QED BY <2>1, <2>2, <2>3, <2>4, <2>5 DEF TypeOK, readyVars
<1>12. CASE UNCHANGED vars BY <1>12 DEF TypeOK, vars, inputVars, readyVars, slotVars
<1>13. QED BY <1>1, <1>2, <1>3, <1>4, <1>5, <1>6, <1>7, <1>8, <1>9, <1>10, <1>11, <1>12 DEF Next

\* Type correctness of the ledger.
THEOREM TypeCorrect == Spec => []TypeOK
  <1>1. QED BY TypeInit, TypeStep, PTL DEF Spec

----------------------------------------
(* The slot, the rotation and the resume marks. *)

\* A session whose row is dropped or moved to the tail keeps all positions
\* distinct.
LEMMA DropReadyPositions ==
    ASSUME TypeOK, PositionsDistinct, NEW s \in Sessions, DropReady(s), serial' = serial
    PROVE  PositionsDistinct'
  BY DEF TypeOK, PositionsDistinct, DropReady

\* A session that joins the rotation gets a position of its own.
LEMMA AppendReadyPositions ==
    ASSUME TypeOK, PositionsDistinct, NEW s \in Sessions, AppendReady(s)
    PROVE  PositionsDistinct'
  BY DEF TypeOK, PositionsDistinct, AppendReady

\* The row and the owner are what the slot says, whatever step is taken.
LEMMA SlotStep == TypeOK /\ SlotOwnsClaim /\ [Next]_vars => SlotOwnsClaim'
<1> SUFFICES ASSUME TypeOK, SlotOwnsClaim, [Next]_vars PROVE SlotOwnsClaim' OBVIOUS
<1> USE InputsAssumption DEF TypeOK, SlotOwnsClaim, Owning
<1>1. ASSUME NEW i \in Inputs, NEW w \in Weights,
             Enqueue(i, w) \/ EnqueueSteer(i, w) \/ DispatchReminder(i, w)
      PROVE  SlotOwnsClaim'
  BY <1>1 DEF Enqueue, EnqueueSteer, DispatchReminder, insertMainInput, IsNew
<1>2. ASSUME NEW i \in Inputs, NEW w \in Weights, edit(i, w) PROVE SlotOwnsClaim' BY <1>2 DEF edit
<1>3. CASE claim
  <2>1. slot = None BY <1>3 DEF claim
  <2>2. \/ \E i \in Inputs : slot' = i /\ row' = [row EXCEPT ![i] = "claimed"]
        \/ UNCHANGED <<slot, row>>
    BY <1>3 DEF claim, Queued, InState
  <2>3. QED BY <2>1, <2>2
<1>4. ASSUME NEW interrupted \in BOOLEAN, finish(interrupted) PROVE SlotOwnsClaim'
  BY <1>4 DEF finish, settle
<1>5. ASSUME NEW i \in Inputs, remove(i) PROVE SlotOwnsClaim'
  BY <1>5 DEF remove, settle, Waiting, CancelledState
<1>6. ASSUME NEW i \in Inputs, stageSteer(i) PROVE SlotOwnsClaim' BY <1>6 DEF stageSteer, slotVars
<1>7. ASSUME NEW i \in Inputs, acknowledgeMainInputs(i) PROVE SlotOwnsClaim'
  BY <1>7 DEF acknowledgeMainInputs, settle, slotVars, Waiting
<1>8. ASSUME NEW i \in Inputs, NEW accepted \in BOOLEAN, NEW durable \in BOOLEAN,
             finishSteer(i, accepted, durable) PROVE SlotOwnsClaim'
  BY <1>8, SteerOutcomeTerminal DEF finishSteer, settle
<1>9. CASE Restart BY <1>9 DEF Restart
<1>10. CASE UNCHANGED vars BY <1>10 DEF vars, inputVars, slotVars
<1>11. QED BY <1>1, <1>2, <1>3, <1>4, <1>5, <1>6, <1>7, <1>8, <1>9, <1>10 DEF Next

\* Dropping the ready row of a session forgets no queued input.
LEMMA DropReadyQueued ==
    ASSUME QueuedIsReady, NEW s \in Sessions, DropReady(s),
           \A j \in Inputs : row'[j] = "queued" => row[j] = "queued" /\ SessionOf[j] # s
    PROVE  QueuedIsReady'
  BY DEF QueuedIsReady, DropReady

\* No step leaves a queued input without the ready row of its session.
LEMMA QueuedStep == TypeOK /\ QueuedIsReady /\ [Next]_vars => QueuedIsReady'
<1> SUFFICES ASSUME TypeOK, QueuedIsReady, [Next]_vars PROVE QueuedIsReady' OBVIOUS
<1> USE InputsAssumption DEF TypeOK, QueuedIsReady
<1>1. ASSUME NEW i \in Inputs, NEW w \in Weights,
             Enqueue(i, w) \/ EnqueueSteer(i, w) \/ DispatchReminder(i, w)
      PROVE  QueuedIsReady'
  BY <1>1 DEF Enqueue, EnqueueSteer, DispatchReminder, insertMainInput, AppendReady
<1>2. ASSUME NEW i \in Inputs, NEW w \in Weights, edit(i, w) PROVE QueuedIsReady'
  BY <1>2 DEF edit, readyVars
<1>3. CASE claim
  <2>1. PICK s \in ready :
           \/ \E i \in Queued(s) : row' = [row EXCEPT ![i] = "claimed"] /\ UNCHANGED readyVars
           \/ Queued(s) = {} /\ DropReady(s) /\ UNCHANGED <<slot, row>>
    BY <1>3 DEF claim
  <2>2. CASE \E i \in Queued(s) : row' = [row EXCEPT ![i] = "claimed"] /\ UNCHANGED readyVars
    BY <2>2 DEF readyVars
  <2>3. CASE Queued(s) = {} /\ DropReady(s) /\ UNCHANGED <<slot, row>>
    BY <2>3, DropReadyQueued DEF Queued, InState
  <2>4. QED BY <2>1, <2>2, <2>3
<1>4. ASSUME NEW interrupted \in BOOLEAN, finish(interrupted) PROVE QueuedIsReady'
  <2> DEFINE s == SessionOf[slot]
  <2>1. slot \in Inputs /\ s \in Sessions BY <1>4 DEF finish
  <2>2. row' = [row EXCEPT ![slot] = IF interrupted THEN "interrupted" ELSE "settled"]
    BY <1>4 DEF finish, settle
  <2>3. CASE Followups(s, slot) = {} /\ DropReady(s)
    BY <2>1, <2>2, <2>3, DropReadyQueued DEF Followups, Queued, InState
  <2>4. CASE ready' = ready \cup {s} BY <2>1, <2>2, <2>4
  <2>5. QED BY <1>4, <2>3, <2>4 DEF finish
<1>5. ASSUME NEW i \in Inputs, remove(i) PROVE QueuedIsReady'
  <2>1. SessionOf[i] \in Sessions /\ row' = [row EXCEPT ![i] = "cancelled"]
    BY <1>5 DEF remove, settle, CancelledState
  <2>2. CASE Followups(SessionOf[i], i) = {} /\ DropReady(SessionOf[i])
    BY <2>1, <2>2, DropReadyQueued DEF Followups, Queued, InState
  <2>3. CASE UNCHANGED readyVars BY <2>1, <2>3 DEF readyVars
  <2>4. QED BY <1>5, <2>2, <2>3 DEF remove
<1>6. ASSUME NEW i \in Inputs, stageSteer(i) PROVE QueuedIsReady' BY <1>6 DEF stageSteer, readyVars
<1>7. ASSUME NEW i \in Inputs, acknowledgeMainInputs(i) PROVE QueuedIsReady'
  BY <1>7 DEF acknowledgeMainInputs, settle, readyVars
<1>8. ASSUME NEW i \in Inputs, NEW accepted \in BOOLEAN, NEW durable \in BOOLEAN,
             finishSteer(i, accepted, durable) PROVE QueuedIsReady'
  BY <1>8, SteerOutcomeTerminal DEF finishSteer, settle, readyVars
<1>9. CASE Restart BY <1>9 DEF Restart, readyVars
<1>10. CASE UNCHANGED vars BY <1>10 DEF vars, inputVars, readyVars
<1>11. QED BY <1>1, <1>2, <1>3, <1>4, <1>5, <1>6, <1>7, <1>8, <1>9, <1>10 DEF Next

\* Steps that leave the ready table alone.
LEMMA ReadyUnchanged ==
    ASSUME NEW i, NEW w, NEW accepted, NEW durable,
           EnqueueSteer(i, w) \/ edit(i, w) \/ stageSteer(i) \/ acknowledgeMainInputs(i)
             \/ finishSteer(i, accepted, durable) \/ Restart \/ UNCHANGED vars
    PROVE  UNCHANGED <<readyVars, slot, serial>>
  BY DEF EnqueueSteer, insertMainInput, edit, stageSteer, acknowledgeMainInputs, finishSteer,
    Restart, vars, readyVars, slotVars

\* No step gives two sessions one position.
LEMMA PositionsStep == TypeOK /\ PositionsDistinct /\ [Next]_vars => PositionsDistinct'
<1> SUFFICES ASSUME TypeOK, PositionsDistinct, [Next]_vars PROVE PositionsDistinct' OBVIOUS
<1>1. ASSUME NEW i \in Inputs, NEW w \in Weights, Enqueue(i, w) \/ DispatchReminder(i, w)
      PROVE  PositionsDistinct'
  <2>1. AppendReady(SessionOf[i]) /\ SessionOf[i] \in Sessions
    BY <1>1, InputsAssumption DEF Enqueue, DispatchReminder, insertMainInput
  <2>2. QED BY <2>1, AppendReadyPositions
<1>2. CASE claim
  <2>1. serial' = serial /\ \E s \in ready : UNCHANGED readyVars \/ DropReady(s) BY <1>2 DEF claim
  <2>2. ready \subseteq Sessions BY DEF TypeOK
  <2>3. CASE UNCHANGED readyVars BY <2>1, <2>3 DEF PositionsDistinct, readyVars
  <2>4. QED BY <2>1, <2>2, <2>3, DropReadyPositions
<1>3. ASSUME NEW interrupted \in BOOLEAN, finish(interrupted) PROVE PositionsDistinct'
  <2> DEFINE s == SessionOf[slot]
  <2>1. s \in Sessions BY <1>3, InputsAssumption DEF finish, TypeOK
  <2>2. CASE DropReady(s) /\ UNCHANGED serial BY <2>1, <2>2, DropReadyPositions
  <2>3. CASE /\ serial' = serial + 1
             /\ ready' = ready \cup {s}
             /\ position' = [position EXCEPT ![s] = Tail(s)]
    BY <2>1, <2>3 DEF TypeOK, PositionsDistinct, Tail
  <2>4. QED BY <1>3, <2>2, <2>3 DEF finish
<1>4. ASSUME NEW i \in Inputs, remove(i) PROVE PositionsDistinct'
  <2>1. SessionOf[i] \in Sessions /\ serial' = serial BY <1>4, InputsAssumption DEF remove
  <2>2. CASE UNCHANGED readyVars BY <2>1, <2>2 DEF PositionsDistinct, readyVars
  <2>3. QED BY <1>4, <2>1, <2>2, DropReadyPositions DEF remove
<1>5. ASSUME UNCHANGED <<readyVars, slot, serial>> PROVE PositionsDistinct'
  BY <1>5 DEF PositionsDistinct, readyVars
<1>6. ASSUME NEW i, NEW w, NEW accepted, NEW durable,
             EnqueueSteer(i, w) \/ edit(i, w) \/ stageSteer(i) \/ acknowledgeMainInputs(i)
               \/ finishSteer(i, accepted, durable) \/ Restart \/ UNCHANGED vars
      PROVE  PositionsDistinct'
  BY <1>5, <1>6, ReadyUnchanged
<1>7. QED BY <1>1, <1>2, <1>3, <1>4, <1>6 DEF Next

\* Only a session whose row was dropped or served loses its mark.
LEMMA ResumeMarkStep ==
    TypeOK /\ ResumeMarkHasOwner /\ [Next]_vars => ResumeMarkHasOwner'
<1> SUFFICES ASSUME TypeOK, ResumeMarkHasOwner, [Next]_vars PROVE ResumeMarkHasOwner' OBVIOUS
<1> USE DEF TypeOK, ResumeMarkHasOwner
<1>1. ASSUME NEW i \in Inputs, NEW w \in Weights, Enqueue(i, w) PROVE ResumeMarkHasOwner'
  <2> DEFINE s == SessionOf[i]
  <2>1. s \in Sessions /\ resume(s) /\ ready' = ready \cup {s} /\ UNCHANGED <<slot, startupClaim>>
    BY <1>1, InputsAssumption DEF Enqueue, insertMainInput, AppendReady
  <2>2. QED BY <2>1 DEF resume, StaleOwner
<1>2. ASSUME NEW i \in Inputs, NEW w \in Weights, DispatchReminder(i, w)
      PROVE  ResumeMarkHasOwner'
  BY <1>2 DEF DispatchReminder, insertMainInput, AppendReady
<1>3. CASE claim BY <1>3 DEF claim, IsNextReady, DropReady, readyVars
<1>4. ASSUME NEW interrupted \in BOOLEAN, finish(interrupted) PROVE ResumeMarkHasOwner'
  <2>1. \A s \in Sessions : s # SessionOf[slot] => paused[s] # -1 BY <1>4 DEF finish
  <2>2. SessionOf[slot] \in Sessions BY <1>4, InputsAssumption DEF finish
  <2>3. \A s \in Sessions : paused'[s] # -1 BY <1>4, <2>1, <2>2 DEF finish, DropReady
  <2>4. QED BY <2>3
<1>5. ASSUME NEW i \in Inputs, remove(i) PROVE ResumeMarkHasOwner'
  <2>1. SessionOf[i] \in Sessions /\ UNCHANGED <<slot, startupClaim>>
    BY <1>5, InputsAssumption DEF remove
  <2>2. QED BY <1>5, <2>1 DEF remove, DropReady, readyVars
<1>6. ASSUME NEW i, NEW w, NEW accepted, NEW durable,
             EnqueueSteer(i, w) \/ edit(i, w) \/ stageSteer(i) \/ acknowledgeMainInputs(i)
               \/ finishSteer(i, accepted, durable)
      PROVE  ResumeMarkHasOwner'
  <2>1. UNCHANGED <<readyVars, slot, serial>> BY <1>6, ReadyUnchanged
  <2>2. startupClaim' = startupClaim
    BY <1>6 DEF EnqueueSteer, edit, stageSteer, acknowledgeMainInputs, finishSteer
  <2>3. QED BY <2>1, <2>2 DEF readyVars
<1>7. CASE Restart BY <1>7 DEF Restart, readyVars
<1>8. CASE UNCHANGED vars BY <1>8 DEF vars, readyVars, slotVars
<1>9. QED BY <1>1, <1>2, <1>3, <1>4, <1>5, <1>6, <1>7, <1>8 DEF Next

\* LedgerInv is inductive given the types.
LEMMA LedgerInit == Init => LedgerInv
  BY SessionsAssumption, InputsAssumption DEF Init, LedgerInv, SlotOwnsClaim, QueuedIsReady,
    PositionsDistinct, ResumeMarkHasOwner, Owning

\* No step breaks a part of LedgerInv.
LEMMA LedgerStep == TypeOK /\ LedgerInv /\ [Next]_vars => LedgerInv'
  BY SlotStep, QueuedStep, PositionsStep, ResumeMarkStep DEF LedgerInv

\* The slot names the one claimed or admitted input, no queued input is left
\* without its ready row, no two sessions share a position, and a resume mark
\* always has the stale claim whose end takes it away: for every reachable
\* state of the ledger.
THEOREM LedgerCorrect == Spec => []LedgerInv
  <1>1. TypeOK /\ LedgerInv /\ [Next]_vars => (TypeOK /\ LedgerInv)' BY TypeStep, LedgerStep
  <1>2. QED BY <1>1, TypeInit, LedgerInit, PTL DEF Spec

----------------------------------------
(* Queue capacity. *)

Pending == InState(Unsettled)

\* The unsettled inputs can be counted.
LEMMA PendingFinite == IsFiniteSet(Pending) /\ Cardinality(Pending) \in Nat
  <1>1. Pending \subseteq Inputs BY DEF Pending, InState
  <1>2. QED BY <1>1, InputsAssumption, FS_Subset, FS_CardinalityType

\* An admitted input is one more, a settled one is one less.
LEMMA PendingInsert ==
    ASSUME TypeOK, PendingExact, NEW i \in Inputs, NEW w, NEW state \in {"queued", "steering"},
           insertMainInput(i, w, state) PROVE PendingExact'
  <1>1. row[i] = "absent" /\ row' = [row EXCEPT ![i] = state] /\ pending' = pending + 1
        /\ pending < MAIN_QUEUE_LIMIT
    BY DEF insertMainInput, IsNew, HasRoom
  <1>2. i \notin Pending BY <1>1 DEF Pending, InState, Unsettled, Waiting, Owning
  <1>3. Pending' = Pending \cup {i} BY <1>1 DEF Pending, InState, Unsettled, Waiting, Owning, TypeOK
  <1>4. Cardinality(Pending') = Cardinality(Pending) + 1 BY <1>2, <1>3, PendingFinite, FS_AddElement
  <1>5. QED BY <1>1, <1>4, PendingFinite, LimitsAssumption DEF PendingExact, Pending

\* A settled input is one less.
LEMMA PendingSettle ==
    ASSUME TypeOK, PendingExact, NEW i \in Inputs, row[i] \in Unsettled,
           NEW state \in Terminal, settle(i, state) PROVE PendingExact'
  <1>1. i \in Pending BY DEF Pending, InState
  <1>2. Pending' = Pending \ {i}
    BY DEF Pending, InState, settle, TypeOK, Unsettled, Waiting, Owning, Terminal
  <1>3. Cardinality(Pending') = Cardinality(Pending) - 1
    BY <1>1, <1>2, PendingFinite, FS_RemoveElement
  <1>4. QED BY <1>3, PendingFinite, LimitsAssumption DEF PendingExact, Pending, settle

\* A step that admits and settles nothing leaves the count as it is.
LEMMA PendingSame ==
    ASSUME PendingExact, pending' = pending,
           \A j \in Inputs : row'[j] \in Unsettled <=> row[j] \in Unsettled PROVE PendingExact'
  <1>1. Pending' = Pending BY DEF Pending, InState
  <1>2. QED BY <1>1 DEF PendingExact, Pending

\* No step lets the counter and the unsettled rows part.
LEMMA PendingStep == TypeOK /\ SlotOwnsClaim /\ PendingExact /\ [Next]_vars => PendingExact'
<1> SUFFICES ASSUME TypeOK, SlotOwnsClaim, PendingExact, [Next]_vars PROVE PendingExact' OBVIOUS
<1>1. ASSUME NEW i \in Inputs, NEW w \in Weights,
             Enqueue(i, w) \/ EnqueueSteer(i, w) \/ DispatchReminder(i, w)
      PROVE  PendingExact'
  BY <1>1, PendingInsert DEF Enqueue, EnqueueSteer, DispatchReminder
<1>2. ASSUME NEW i \in Inputs, NEW w \in Weights, edit(i, w) PROVE PendingExact'
  BY <1>2, PendingSame DEF edit
<1>3. CASE claim
  <2>1. \/ \E i \in Inputs : row[i] = "queued" /\ row' = [row EXCEPT ![i] = "claimed"]
        \/ row' = row
    BY <1>3 DEF claim, Queued, InState
  <2>2. \A j \in Inputs : row'[j] \in Unsettled <=> row[j] \in Unsettled
    BY <2>1 DEF TypeOK, Unsettled, Waiting, Owning
  <2>3. QED BY <1>3, <2>2, PendingSame DEF claim
<1>4. ASSUME NEW interrupted \in BOOLEAN, finish(interrupted) PROVE PendingExact'
  <2>1. slot \in Inputs /\ row[slot] \in Unsettled
    BY <1>4 DEF finish, TypeOK, SlotOwnsClaim, Unsettled
  <2>2. settle(slot, IF interrupted THEN "interrupted" ELSE "settled")
        /\ (IF interrupted THEN "interrupted" ELSE "settled") \in Terminal
    BY <1>4 DEF finish, Terminal
  <2>3. QED BY <2>1, <2>2, PendingSettle
<1>5. ASSUME NEW i \in Inputs, remove(i) PROVE PendingExact'
  BY <1>5, PendingSettle DEF remove, Unsettled, CancelledState, Terminal
<1>6. ASSUME NEW i \in Inputs, stageSteer(i) PROVE PendingExact'
  BY <1>6, PendingSame DEF stageSteer, slotVars, TypeOK, Unsettled, Waiting
<1>7. ASSUME NEW i \in Inputs, acknowledgeMainInputs(i) PROVE PendingExact'
  <2>1. CASE row[i] \in Waiting /\ settle(i, "settled")
    BY <2>1, PendingSettle DEF Unsettled, Terminal
  <2>2. CASE row[i] = "claimed" /\ row' = [row EXCEPT ![i] = "admitted"] /\ UNCHANGED slotVars
    BY <2>2, PendingSame DEF slotVars, TypeOK, Unsettled, Owning
  <2>3. QED BY <1>7, <2>1, <2>2 DEF acknowledgeMainInputs
<1>8. ASSUME NEW i \in Inputs, NEW accepted \in BOOLEAN, NEW durable \in BOOLEAN,
             finishSteer(i, accepted, durable) PROVE PendingExact'
  <2>1. SteerOutcome(i, accepted, durable) \in Terminal BY SteerOutcomeTerminal DEF Terminal
  <2>2. QED BY <1>8, <2>1, PendingSettle DEF finishSteer, Unsettled, Waiting
<1>9. CASE Restart
  <2> DEFINE dead == InState({"steering", "promoting"})
  <2>1. dead \subseteq Pending BY DEF Pending, InState, Unsettled, Waiting
  <2>2. /\ pending' = pending - Cardinality(dead)
        /\ row' = [i \in Inputs |-> CASE row[i] = "steering"  -> "rejected"
                                       [] row[i] = "promoting" -> "interrupted"
                                       [] OTHER -> row[i]]
    BY <1>9 DEF Restart
  <2>3. \A i \in Inputs : /\ i \in dead => row'[i] \in {"rejected", "interrupted"}
                          /\ i \notin dead => row'[i] = row[i]
    BY <2>2 DEF InState
  <2>4. Pending' = Pending \ dead BY <2>3 DEF Pending, InState, Unsettled, Waiting, Owning
  <2>5. /\ Cardinality(dead) \in Nat
        /\ Cardinality(Pending \ dead) = Cardinality(Pending) - Cardinality(dead)
    <3> HIDE DEF dead
    <3>1. IsFiniteSet(dead) /\ Pending \cap dead = dead BY <2>1, PendingFinite, FS_Subset
    <3>2. Cardinality(dead) \in Nat BY <3>1, FS_CardinalityType
    <3>3. Cardinality(Pending \ dead) = Cardinality(Pending) - Cardinality(Pending \cap dead)
      BY PendingFinite, FS_Difference
    <3>4. QED BY <3>1, <3>2, <3>3
  <2>6. QED BY <2>2, <2>4, <2>5, PendingFinite, LimitsAssumption DEF PendingExact, Pending
<1>10. CASE UNCHANGED vars BY <1>10, PendingSame DEF vars, inputVars, slotVars
<1>11. QED BY <1>1, <1>2, <1>3, <1>4, <1>5, <1>6, <1>7, <1>8, <1>9, <1>10 DEF Next

\* There is nothing to count at first.
LEMMA PendingInit == Init => PendingExact
<1> SUFFICES ASSUME Init PROVE PendingExact OBVIOUS
<1>1. InState(Unsettled) = {} BY DEF Init, InState, Unsettled, Waiting, Owning
<1>2. QED BY <1>1, FS_EmptySet, LimitsAssumption DEF Init, PendingExact

\* The counter that admission tests is exactly the number of unsettled inputs,
\* and never passes the limit: the queue leaks no capacity in any order of
\* claims, steers, removals, acknowledgements and restarts.
THEOREM CapacityCorrect == Spec => []PendingExact
  <1> DEFINE IInv == TypeOK /\ SlotOwnsClaim /\ PendingExact
  <1>1. Init => IInv BY TypeInit, LedgerInit, PendingInit DEF LedgerInv
  <1>2. IInv /\ [Next]_vars => IInv' BY TypeStep, SlotStep, PendingStep
  <1>3. IInv => PendingExact OBVIOUS
  <1>4. QED BY <1>1, <1>2, <1>3, PTL DEF Spec

----------------------------------------
(* Sums over finite sets. *)

\* A set of numbers that has 0 and is closed under the successor has them all.
LEMMA EveryNumber ==
    ASSUME NEW G \in SUBSET Nat, 0 \in G, \A n \in G : n + 1 \in G PROVE G = Nat
<1> DEFINE R == OpToRel(<, Nat)
           T == Nat \ G
<1>1. SUFFICES ASSUME T # {} PROVE FALSE BY Zenon
<1>2. IsWellFoundedOn(R, Nat) BY NatLessThanWellFounded
<1>3. T \subseteq Nat OBVIOUS
<1>4. PICK n \in T : \A m \in T : ~(<<m, n>> \in R)
  <2> HIDE DEF R, T
  <2> QED BY ONLY <1>1, <1>2, <1>3, WFMin, Zenon
<1>5. n \in Nat /\ n # 0 /\ n - 1 \in Nat /\ n - 1 \in T
  <2>1. n \in Nat /\ n # 0 OBVIOUS
  <2>2. n - 1 \in Nat /\ n = (n - 1) + 1 BY <2>1
  <2>3. n - 1 \notin G BY <2>2
  <2> QED BY <2>1, <2>2, <2>3
<1>6. <<n - 1, n>> \in R
  <2>1. n - 1 \in Nat /\ n \in Nat /\ n - 1 < n BY <1>5
  <2> QED BY ONLY <2>1 DEF OpToRel
<1> QED BY <1>4, <1>5, <1>6, Zenon

\* A family of subsets of a finite set that has a set as soon as it has all the
\* smaller ones has them all.
LEMMA EverySubset ==
    ASSUME NEW S, IsFiniteSet(S), NEW G \in SUBSET SUBSET S,
           \A s \in SUBSET S : (\A r \in SUBSET s : r # s => r \in G) => s \in G
    PROVE  G = SUBSET S
<1> DEFINE T == (SUBSET S) \ G
           R == StrictSubsetOrdering(S)
           F == FiniteSubsetsOf(S)
<1>1. SUFFICES ASSUME T # {} PROVE FALSE BY Zenon
<1>2. IsWellFoundedOn(R, F) BY FS_StrictSubsetOrderingWellFounded
<1>3. T \subseteq F BY FS_Subset DEF FiniteSubsetsOf
<1>4. PICK s \in T : \A r \in T : ~(<<r, s>> \in R)
  <2> HIDE DEF T, R, F
  <2> QED BY ONLY <1>1, <1>2, <1>3, WFMin, Zenon
<1> QED BY <1>4 DEF StrictSubsetOrdering

AnyOf(s) == CHOOSE x \in s : TRUE

\* What a sum's recursion says of the subset s.
SumAt(g, f, s) == g[s] = IF s = {} THEN 0 ELSE f[AnyOf(s)] + g[s \ {AnyOf(s)}]

\* The function that the fold iterates.
SumFrom(f, S) ==
    CHOOSE g : g = [s \in SUBSET S |-> IF s = {} THEN 0 ELSE f[AnyOf(s)] + g[s \ {AnyOf(s)}]]

\* SumOver is the last value of that function.
LEMMA SumIs ==
    ASSUME NEW f, NEW S PROVE SumOver(f, S) = SumFrom(f, S)[S]
  BY DEF SumOver, SumFrom, FoldFunctionOnSet, MapThenFoldSet, AnyOf

\* The recursion has a solution, in the integers.
LEMMA SumRecursion ==
    ASSUME NEW S, IsFiniteSet(S), NEW f, \A x \in S : f[x] \in Int
    PROVE  \A s \in SUBSET S : /\ SumAt(SumFrom(f, S), f, s)
                               /\ SumFrom(f, S)[s] \in Int
<1> DEFINE Sub(n) == {s \in SUBSET S : Cardinality(s) <= n}
           Rhs(g, s) == IF s = {} THEN 0 ELSE f[AnyOf(s)] + g[s \ {AnyOf(s)}]
           G == {n \in Nat : \E g \in [Sub(n) -> Int] : \A s \in Sub(n) : g[s] = Rhs(g, s)}
<1>1. \A s \in SUBSET S :
        /\ IsFiniteSet(s) /\ Cardinality(s) \in Nat /\ (Cardinality(s) = 0 <=> s = {})
        /\ s # {} => /\ AnyOf(s) \in s /\ s \ {AnyOf(s)} \in SUBSET S
                     /\ Cardinality(s \ {AnyOf(s)}) = Cardinality(s) - 1
  <2> SUFFICES ASSUME NEW s \in SUBSET S
               PROVE  /\ IsFiniteSet(s) /\ Cardinality(s) \in Nat /\ (Cardinality(s) = 0 <=> s = {})
                      /\ s # {} => /\ AnyOf(s) \in s /\ s \ {AnyOf(s)} \in SUBSET S
                                   /\ Cardinality(s \ {AnyOf(s)}) = Cardinality(s) - 1
    OBVIOUS
  <2>1. IsFiniteSet(s) /\ Cardinality(s) \in Nat BY FS_Subset, FS_CardinalityType
  <2>2. Cardinality(s) = 0 <=> s = {} BY <2>1, FS_EmptySet
  <2>3. ASSUME s # {} PROVE AnyOf(s) \in s BY <2>3 DEF AnyOf
  <2> QED BY <2>1, <2>2, <2>3, FS_RemoveElement
<1>2. 0 \in G
  <2>1. \A s \in SUBSET S : Cardinality(s) <= 0 <=> s = {}
    <3> SUFFICES ASSUME NEW s \in SUBSET S PROVE Cardinality(s) <= 0 <=> s = {} OBVIOUS
    <3>1. Cardinality(s) \in Nat /\ (Cardinality(s) = 0 <=> s = {}) BY <1>1
    <3>2. Cardinality(s) <= 0 <=> Cardinality(s) = 0 BY ONLY <3>1
    <3> QED BY <3>1, <3>2, Zenon
  <2>2. [s \in Sub(0) |-> 0] \in [Sub(0) -> Int] OBVIOUS
  <2>3. \A s \in Sub(0) : [r \in Sub(0) |-> 0][s] = Rhs([r \in Sub(0) |-> 0], s) BY <2>1
  <2> QED BY <2>2, <2>3
<1>3. ASSUME NEW n \in G PROVE n + 1 \in G
  <2>1. PICK g \in [Sub(n) -> Int] : \A s \in Sub(n) : g[s] = Rhs(g, s) OBVIOUS
  <2> DEFINE h == [s \in Sub(n + 1) |-> Rhs(g, s)]
  <2>2. \A s \in Sub(n + 1) : s # {} => s \ {AnyOf(s)} \in Sub(n) /\ f[AnyOf(s)] \in Int BY <1>1
  <2>3. \A s \in Sub(n) : s \in Sub(n + 1) /\ h[s] = g[s]
    <3> SUFFICES ASSUME NEW s \in Sub(n) PROVE s \in Sub(n + 1) /\ h[s] = g[s] OBVIOUS
    <3>1. n \in Nat /\ Cardinality(s) \in Nat /\ Cardinality(s) <= n BY <1>1
    <3>2. s \in Sub(n + 1) BY <3>1
    <3>3. g[s] = Rhs(g, s) BY <2>1
    <3> QED BY <3>2, <3>3
  <2>4. h \in [Sub(n + 1) -> Int] BY <2>2
  <2>5. \A s \in Sub(n + 1) : h[s] = Rhs(h, s) BY <2>2, <2>3
  <2> HIDE DEF h
  <2>6. n + 1 \in Nat OBVIOUS
  <2> QED BY <2>4, <2>5, <2>6
<1>4. G = Nat
  <2> HIDE DEF G
  <2>1. G \in SUBSET Nat BY DEF G
  <2> QED BY ONLY <1>2, <1>3, <2>1, EveryNumber, Zenon
<1>5. PICK g \in [SUBSET S -> Int] : \A s \in SUBSET S : g[s] = Rhs(g, s)
  <2>1. Cardinality(S) \in G BY <1>1, <1>4
  <2>2. Sub(Cardinality(S)) = SUBSET S BY <1>1, FS_Subset
  <2> QED BY <2>1, <2>2
<1>6. SumFrom(f, S) = [s \in SUBSET S |-> Rhs(SumFrom(f, S), s)]
  <2>1. g = [s \in SUBSET S |-> Rhs(g, s)] BY <1>5
  <2> QED BY <2>1 DEF SumFrom
<1> DEFINE F == SumFrom(f, S)
           Ints == {s \in SUBSET S : F[s] \in Int}
<1>7. \A s \in SUBSET S : F[s] = Rhs(F, s) BY <1>6
<1>8. Ints = SUBSET S
  <2> HIDE DEF F
  <2>1. ASSUME NEW s \in SUBSET S, \A r \in SUBSET s : r # s => r \in Ints PROVE s \in Ints
    <3>1. CASE s = {}
      <4>1. F[s] = 0 BY <1>7, <3>1
      <4> QED BY <4>1
    <3>2. CASE s # {}
      <4>1. AnyOf(s) \in s /\ f[AnyOf(s)] \in Int /\ s \ {AnyOf(s)} \in Ints BY <1>1, <2>1, <3>2
      <4>2. F[s \ {AnyOf(s)}] \in Int BY <4>1
      <4>3. F[s] = f[AnyOf(s)] + F[s \ {AnyOf(s)}] BY <1>7, <3>2
      <4>4. F[s] \in Int BY <4>1, <4>2, <4>3
      <4> QED BY <4>4
    <3> QED BY <3>1, <3>2
  <2>2. Ints \in SUBSET SUBSET S OBVIOUS
  <2> HIDE DEF Ints
  <2> QED BY ONLY <2>1, <2>2, EverySubset, IsFiniteSet(S), Zenon
<1> QED BY <1>7, <1>8 DEF SumAt

\* Whichever member is taken out first.
LEMMA SumPick ==
    ASSUME NEW S, IsFiniteSet(S), NEW f, \A x \in S : f[x] \in Int
    PROVE  \A s \in SUBSET S : \A x \in s :
              SumFrom(f, S)[s] = f[x] + SumFrom(f, S)[s \ {x}]
<1> DEFINE F == SumFrom(f, S)
           G == {s \in SUBSET S : \A x \in s : F[s] = f[x] + F[s \ {x}]}
<1>1. \A s \in SUBSET S : F[s] \in Int /\ F[s] = IF s = {} THEN 0 ELSE f[AnyOf(s)] + F[s \ {AnyOf(s)}]
  BY SumRecursion DEF SumAt
<1> HIDE DEF F
<1>2. ASSUME NEW s \in SUBSET S, \A r \in SUBSET s : r # s => r \in G PROVE s \in G
  <2> SUFFICES ASSUME NEW x \in s PROVE F[s] = f[x] + F[s \ {x}] OBVIOUS
  <2> DEFINE y == AnyOf(s)
  <2>1. y \in s /\ F[s] = f[y] + F[s \ {y}] BY <1>1 DEF AnyOf
  <2> HIDE DEF y
  <2>2. CASE x = y BY <2>1, <2>2
  <2>3. CASE x # y
    <3>1. s \ {y} \in G /\ s \ {x} \in G /\ x \in s \ {y} /\ y \in s \ {x} BY <1>2, <2>1, <2>3
    <3>2. F[s \ {y}] = f[x] + F[(s \ {y}) \ {x}] /\ F[s \ {x}] = f[y] + F[(s \ {x}) \ {y}] BY <3>1
    <3>3. (s \ {y}) \ {x} = (s \ {x}) \ {y} OBVIOUS
    <3>4. f[x] \in Int /\ f[y] \in Int /\ F[(s \ {y}) \ {x}] \in Int BY <1>1, <2>1
    <3>5. F[s] = f[y] + (f[x] + F[(s \ {y}) \ {x}]) BY <2>1, <3>2
    <3>6. f[x] + F[s \ {x}] = f[x] + (f[y] + F[(s \ {y}) \ {x}]) BY <3>2, <3>3
    <3> QED BY ONLY <3>4, <3>5, <3>6
  <2> QED BY <2>2, <2>3
<1>3. G \in SUBSET SUBSET S OBVIOUS
<1>4. G = SUBSET S
  <2> HIDE DEF G
  <2> QED BY ONLY <1>2, <1>3, EverySubset, IsFiniteSet(S), Zenon
<1> QED BY <1>4 DEF F

\* A sum depends on the values of the members only.
LEMMA SumFromAgrees ==
    ASSUME NEW S, IsFiniteSet(S), NEW T, IsFiniteSet(T),
           NEW f, \A x \in S : f[x] \in Int, NEW e, \A x \in T : e[x] \in Int,
           NEW U, U \subseteq S, U \subseteq T, \A x \in U : f[x] = e[x]
    PROVE  SumFrom(f, S)[U] = SumFrom(e, T)[U]
<1> DEFINE F == SumFrom(f, S)
           E == SumFrom(e, T)
           G == {s \in SUBSET U : F[s] = E[s]}
<1>1. \A s \in SUBSET S : F[s] = IF s = {} THEN 0 ELSE f[AnyOf(s)] + F[s \ {AnyOf(s)}]
  BY SumRecursion DEF SumAt
<1>2. \A s \in SUBSET T : E[s] = IF s = {} THEN 0 ELSE e[AnyOf(s)] + E[s \ {AnyOf(s)}]
  BY SumRecursion DEF SumAt
<1> HIDE DEF F, E
<1>3. ASSUME NEW s \in SUBSET U, \A r \in SUBSET s : r # s => r \in G PROVE s \in G
  <2>1. s \in SUBSET S /\ s \in SUBSET T OBVIOUS
  <2>2. CASE s = {} BY <1>1, <1>2, <2>1, <2>2
  <2>3. CASE s # {}
    <3>1. AnyOf(s) \in s BY <2>3 DEF AnyOf
    <3>2. f[AnyOf(s)] = e[AnyOf(s)] /\ s \ {AnyOf(s)} \in G BY <1>3, <3>1
    <3> QED BY <1>1, <1>2, <2>1, <2>3, <3>2
  <2> QED BY <2>2, <2>3
<1>4. G \in SUBSET SUBSET U OBVIOUS
<1>5. IsFiniteSet(U) BY FS_Subset
<1>6. G = SUBSET U
  <2> HIDE DEF G
  <2> QED BY ONLY <1>3, <1>4, <1>5, EverySubset, Zenon
<1> QED BY <1>6 DEF F, E

\* The sum over no members, over one more, and over other functions.
LEMMA SumFacts ==
    ASSUME NEW S, IsFiniteSet(S), NEW f, \A x \in S : f[x] \in Int
    PROVE  /\ SumOver(f, S) \in Int
           /\ S = {} => SumOver(f, S) = 0
           /\ \A x \in S : SumOver(f, S) = f[x] + SumOver(f, S \ {x})
           /\ \A e : (\A x \in S : e[x] = f[x]) => SumOver(e, S) = SumOver(f, S)
<1>1. S \in SUBSET S OBVIOUS
<1>2. SumOver(f, S) \in Int BY <1>1, SumRecursion, SumIs
<1>3. S = {} => SumOver(f, S) = 0 BY <1>1, SumRecursion, SumIs DEF SumAt
<1>4. ASSUME NEW x \in S PROVE SumOver(f, S) = f[x] + SumOver(f, S \ {x})
  <2>1. SumFrom(f, S)[S] = f[x] + SumFrom(f, S)[S \ {x}] BY <1>1, SumPick
  <2>2. IsFiniteSet(S \ {x}) /\ S \ {x} \subseteq S BY FS_Subset
  <2>3. SumFrom(f, S)[S \ {x}] = SumFrom(f, S \ {x})[S \ {x}] BY <2>2, SumFromAgrees
  <2> QED BY <2>1, <2>3, SumIs
<1>5. ASSUME NEW e, \A x \in S : e[x] = f[x] PROVE SumOver(e, S) = SumOver(f, S)
  <2>1. SumFrom(e, S)[S] = SumFrom(f, S)[S] BY <1>5, SumFromAgrees
  <2> QED BY <2>1, SumIs
<1> QED BY <1>2, <1>3, <1>4, <1>5

\* A sum is the sum over a part and over the rest.
LEMMA SumSplits ==
    ASSUME NEW S, IsFiniteSet(S), NEW f, \A x \in S : f[x] \in Int, NEW D, D \subseteq S
    PROVE  SumOver(f, S) = SumOver(f, D) + SumOver(f, S \ D)
<1> DEFINE G == {d \in SUBSET D : SumOver(f, S) = SumOver(f, d) + SumOver(f, S \ d)}
<1>1. ASSUME NEW d \in SUBSET D, \A r \in SUBSET d : r # d => r \in G PROVE d \in G
  <2>1. IsFiniteSet(d) /\ IsFiniteSet(S \ d) BY FS_Subset
  <2>2. CASE d = {}
    <3>1. S \ d = S /\ SumOver(f, d) = 0 /\ SumOver(f, S) \in Int BY <2>1, <2>2, SumFacts
    <3>2. SumOver(f, S \ d) = SumOver(f, S) BY <3>1, Zenon
    <3>3. SumOver(f, S) = SumOver(f, d) + SumOver(f, S \ d) BY ONLY <3>1, <3>2
    <3> QED BY <3>3
  <2>3. CASE d # {}
    <3>1. PICK x \in d : TRUE BY <2>3
    <3> DEFINE r == d \ {x}
    <3>2. r \in G /\ IsFiniteSet(r) /\ IsFiniteSet(S \ r) /\ x \in S \ r /\ (S \ r) \ {x} = S \ d
      BY <1>1, FS_Subset
    <3>3. SumOver(f, S) = SumOver(f, r) + SumOver(f, S \ r) BY <3>2
    <3>4. SumOver(f, d) = f[x] + SumOver(f, r) BY <2>1, SumFacts
    <3>5. SumOver(f, S \ r) = f[x] + SumOver(f, (S \ r) \ {x}) BY <3>2, SumFacts
    <3>6. SumOver(f, r) \in Int /\ SumOver(f, S \ d) \in Int /\ f[x] \in Int BY <2>1, <3>2, SumFacts
    <3>7. SumOver(f, S \ r) = f[x] + SumOver(f, S \ d) BY <3>2, <3>5
    <3>8. SumOver(f, S) = SumOver(f, d) + SumOver(f, S \ d) BY ONLY <3>3, <3>4, <3>6, <3>7
    <3> QED BY <3>8
  <2> QED BY <2>2, <2>3
<1>2. G \in SUBSET SUBSET D /\ IsFiniteSet(D) BY FS_Subset
<1>3. G = SUBSET D
  <2> HIDE DEF G
  <2> QED BY ONLY <1>1, <1>2, EverySubset, Zenon
<1> QED BY <1>3

\* Where there is nothing to add the sum is 0.
LEMMA SumOfZeros ==
    ASSUME NEW S, IsFiniteSet(S), NEW f, \A x \in S : f[x] = 0 PROVE SumOver(f, S) = 0
<1> DEFINE G == {d \in SUBSET S : SumOver(f, d) = 0}
<1>1. ASSUME NEW d \in SUBSET S, \A r \in SUBSET d : r # d => r \in G PROVE d \in G
  <2>1. IsFiniteSet(d) /\ \A x \in d : f[x] = 0 /\ f[x] \in Int BY FS_Subset
  <2>2. CASE d = {} BY <2>1, <2>2, SumFacts
  <2>3. CASE d # {}
    <3>1. PICK x \in d : TRUE BY <2>3
    <3>2. d \ {x} \in G BY <1>1
    <3>3. SumOver(f, d) = f[x] + SumOver(f, d \ {x}) BY <2>1, SumFacts
    <3> QED BY <2>1, <3>2, <3>3
  <2> QED BY <2>2, <2>3
<1>2. G \in SUBSET SUBSET S OBVIOUS
<1>3. G = SUBSET S
  <2> HIDE DEF G
  <2> QED BY ONLY <1>1, <1>2, EverySubset, IsFiniteSet(S), Zenon
<1> QED BY <1>3

\* Natural numbers add up to one.
LEMMA SumOfNaturals ==
    ASSUME NEW S, IsFiniteSet(S), NEW f, \A x \in S : f[x] \in Nat PROVE SumOver(f, S) \in Nat
<1> DEFINE G == {d \in SUBSET S : SumOver(f, d) \in Nat}
<1>1. ASSUME NEW d \in SUBSET S, \A r \in SUBSET d : r # d => r \in G PROVE d \in G
  <2>1. IsFiniteSet(d) /\ \A x \in d : f[x] \in Nat /\ f[x] \in Int BY FS_Subset
  <2>2. CASE d = {} BY <2>1, <2>2, SumFacts
  <2>3. CASE d # {}
    <3>1. PICK x \in d : TRUE BY <2>3
    <3>2. d \ {x} \in G BY <1>1
    <3>3. SumOver(f, d) = f[x] + SumOver(f, d \ {x}) BY <2>1, SumFacts
    <3> QED BY <2>1, <3>2, <3>3
  <2> QED BY <2>2, <2>3
<1>2. G \in SUBSET SUBSET S OBVIOUS
<1>3. G = SUBSET S
  <2> HIDE DEF G
  <2> QED BY ONLY <1>1, <1>2, EverySubset, IsFiniteSet(S), Zenon
<1> QED BY <1>3

----------------------------------------
(* The byte counter. *)

\* The counter is the sum, and only unsettled rows weigh anything.
BytesInv ==
    /\ BytesExact
    /\ \A i \in Inputs : row[i] \notin Unsettled => weight[i] = 0

\* The sum over the rows is a number of bytes.
LEMMA BytesAreInt == TypeOK => SumOver(weight, Inputs) \in Int
<1> SUFFICES ASSUME TypeOK PROVE SumOver(weight, Inputs) \in Int OBVIOUS
<1>1. IsFiniteSet(Inputs) /\ \A i \in Inputs : weight[i] \in Int BY InputsAssumption DEF TypeOK
<1> QED BY <1>1, SumFacts

\* One row's weight changes: the sum changes by as much.
LEMMA OneWeight ==
    ASSUME TypeOK, NEW i \in Inputs, NEW w \in Nat, weight' = [weight EXCEPT ![i] = w]
    PROVE  SumOver(weight', Inputs) = SumOver(weight, Inputs) - weight[i] + w
<1> DEFINE e == weight'
<1>1. IsFiniteSet(Inputs) /\ IsFiniteSet(Inputs \ {i}) BY InputsAssumption, FS_Subset
<1>2. /\ \A j \in Inputs : weight[j] \in Int /\ e[j] \in Int
      /\ \A j \in Inputs \ {i} : e[j] = weight[j]
      /\ e[i] = w /\ weight[i] \in Nat
  BY DEF TypeOK
<1> HIDE DEF e
<1>3. SumOver(e, Inputs) = e[i] + SumOver(e, Inputs \ {i}) BY <1>1, <1>2, SumFacts
<1>4. SumOver(weight, Inputs) = weight[i] + SumOver(weight, Inputs \ {i}) BY <1>1, <1>2, SumFacts
<1>5. SumOver(e, Inputs \ {i}) = SumOver(weight, Inputs \ {i}) BY <1>1, <1>2, SumFacts
<1>6. SumOver(weight, Inputs \ {i}) \in Int BY <1>1, <1>2, SumFacts
<1>7. SumOver(e, Inputs) = SumOver(weight, Inputs) - weight[i] + w BY <1>2, <1>3, <1>4, <1>5, <1>6
<1> QED BY <1>7 DEF e

\* An admitted row adds its bytes, and there was room for them.
LEMMA BytesInsert ==
    ASSUME TypeOK, BytesInv, NEW i \in Inputs, NEW w \in Weights, NEW state \in {"queued", "steering"},
           insertMainInput(i, w, state) PROVE BytesInv'
<1>1. /\ w \in Nat /\ weight' = [weight EXCEPT ![i] = w] /\ weight[i] = 0
      /\ row' = [row EXCEPT ![i] = state] /\ bytes' = bytes + w
      /\ bytes + w <= MAIN_QUEUE_BYTES
  BY LimitsAssumption DEF insertMainInput, IsNew, HasRoom, BytesInv, Unsettled, Waiting, Owning
<1>2. SumOver(weight', Inputs) = SumOver(weight, Inputs) - weight[i] + w BY <1>1, OneWeight
<1>3. BytesExact' BY <1>1, <1>2, BytesAreInt DEF BytesInv, BytesExact
<1>4. \A j \in Inputs : row'[j] \notin Unsettled => weight'[j] = 0
  BY <1>1 DEF BytesInv, TypeOK, Unsettled, Waiting, Owning
<1> QED BY <1>3, <1>4 DEF BytesInv

\* A settled row gives its bytes back.
LEMMA BytesSettle ==
    ASSUME TypeOK, BytesInv, NEW i \in Inputs, NEW state, settle(i, state) PROVE BytesInv'
<1>1. /\ weight' = [weight EXCEPT ![i] = 0] /\ row' = [row EXCEPT ![i] = state]
      /\ bytes' = bytes - weight[i] /\ weight[i] \in Nat /\ 0 \in Nat
  BY DEF settle, TypeOK
<1>2. SumOver(weight', Inputs) = SumOver(weight, Inputs) - weight[i] + 0 BY <1>1, OneWeight
<1>3. BytesExact' BY <1>1, <1>2, BytesAreInt, LimitsAssumption DEF BytesInv, BytesExact
<1>4. \A j \in Inputs : row'[j] \notin Unsettled => weight'[j] = 0 BY <1>1 DEF BytesInv, TypeOK
<1> QED BY <1>3, <1>4 DEF BytesInv

\* A step that weighs nothing anew leaves the counter as it is.
LEMMA BytesSame ==
    ASSUME BytesInv, bytes' = bytes, weight' = weight,
           \A j \in Inputs : row[j] \in Unsettled => row'[j] \in Unsettled PROVE BytesInv'
  BY DEF BytesInv, BytesExact

\* A process that starts gives back what the steers of the dead run weighed.
LEMMA BytesRestart ==
    ASSUME TypeOK, BytesInv, Restart PROVE BytesInv'
<1> DEFINE dead == InState({"steering", "promoting"})
           rest == Inputs \ dead
           e == weight'
<1>1. IsFiniteSet(Inputs) /\ IsFiniteSet(dead) /\ IsFiniteSet(rest) /\ dead \subseteq Inputs
  BY InputsAssumption, FS_Subset DEF InState
<1>2. /\ \A j \in Inputs : weight[j] \in Int /\ e[j] \in Int
      /\ \A j \in dead : e[j] = 0
      /\ \A j \in rest : e[j] = weight[j] /\ row'[j] = row[j]
      /\ bytes' = bytes - SumOver(weight, dead)
  BY DEF TypeOK, Restart, InState
<1>3. \A j \in dead : weight[j] \in Nat BY <1>1 DEF TypeOK
<1>4. \A j \in Inputs : row'[j] \notin Unsettled => e[j] = 0
  <2>1. \A j \in rest : row[j] \notin Unsettled => weight[j] = 0 BY DEF BytesInv
  <2> HIDE DEF e, dead
  <2> QED BY <1>2, <2>1
<1> HIDE DEF e, dead
<1>5. SumOver(e, Inputs) = SumOver(e, dead) + SumOver(e, rest) BY <1>1, <1>2, SumSplits
<1>6. SumOver(weight, Inputs) = SumOver(weight, dead) + SumOver(weight, rest)
  BY <1>1, <1>2, SumSplits
<1>7. SumOver(e, dead) = 0 BY <1>1, <1>2, SumOfZeros
<1>8. SumOver(e, rest) = SumOver(weight, rest) BY <1>1, <1>2, SumFacts
<1>9. SumOver(weight, rest) \in Int /\ SumOver(weight, dead) \in Nat
  BY <1>1, <1>2, <1>3, SumFacts, SumOfNaturals
<1>10. bytes = SumOver(weight, Inputs) /\ bytes <= MAIN_QUEUE_BYTES /\ MAIN_QUEUE_BYTES \in Nat
  BY LimitsAssumption DEF BytesInv, BytesExact
<1>11. bytes' = SumOver(e, Inputs) /\ bytes' <= MAIN_QUEUE_BYTES
  BY ONLY <1>2, <1>5, <1>6, <1>7, <1>8, <1>9, <1>10
<1> QED BY <1>4, <1>11 DEF BytesInv, BytesExact, e

\* No step lets the counter and the rows part.
LEMMA BytesStep == TypeOK /\ BytesInv /\ [Next]_vars => BytesInv'
<1> SUFFICES ASSUME TypeOK, BytesInv, [Next]_vars PROVE BytesInv' OBVIOUS
<1>1. ASSUME NEW i \in Inputs, NEW w \in Weights,
             Enqueue(i, w) \/ EnqueueSteer(i, w) \/ DispatchReminder(i, w)
      PROVE  BytesInv'
  BY <1>1, BytesInsert DEF Enqueue, EnqueueSteer, DispatchReminder
<1>2. ASSUME NEW i \in Inputs, NEW w \in Weights, edit(i, w) PROVE BytesInv'
  <2>1. /\ w \in Nat /\ weight' = [weight EXCEPT ![i] = w] /\ row' = row /\ weight[i] \in Nat
        /\ row[i] \in Unsettled
        /\ bytes' = bytes + (w - weight[i]) /\ bytes + (w - weight[i]) <= MAIN_QUEUE_BYTES
    BY <1>2, LimitsAssumption DEF edit, ByteDelta, TypeOK, Unsettled, Waiting
  <2>2. SumOver(weight', Inputs) = SumOver(weight, Inputs) - weight[i] + w BY <2>1, OneWeight
  <2>3. BytesExact' BY <2>1, <2>2, BytesAreInt DEF BytesInv, BytesExact
  <2>4. \A j \in Inputs : row'[j] \notin Unsettled => weight'[j] = 0 BY <2>1 DEF BytesInv, TypeOK
  <2> QED BY <2>3, <2>4 DEF BytesInv
<1>3. CASE claim
  <2>1. \/ \E i \in Inputs : row[i] = "queued" /\ row' = [row EXCEPT ![i] = "claimed"]
        \/ row' = row
    BY <1>3 DEF claim, Queued, InState
  <2>2. \A j \in Inputs : row[j] \in Unsettled => row'[j] \in Unsettled
    BY <2>1 DEF TypeOK, Unsettled, Waiting, Owning
  <2> QED BY <1>3, <2>2, BytesSame DEF claim
<1>4. ASSUME NEW interrupted \in BOOLEAN, finish(interrupted) PROVE BytesInv'
  BY <1>4, BytesSettle DEF finish, TypeOK
<1>5. ASSUME NEW i \in Inputs, remove(i) PROVE BytesInv' BY <1>5, BytesSettle DEF remove
<1>6. ASSUME NEW i \in Inputs, stageSteer(i) PROVE BytesInv'
  BY <1>6, BytesSame DEF stageSteer, slotVars, TypeOK, Unsettled, Waiting
<1>7. ASSUME NEW i \in Inputs, acknowledgeMainInputs(i) PROVE BytesInv'
  <2>1. CASE row[i] \in Waiting /\ settle(i, "settled") BY <2>1, BytesSettle
  <2>2. CASE row[i] = "claimed" /\ row' = [row EXCEPT ![i] = "admitted"]
             /\ UNCHANGED <<weight, slotVars>>
    BY <2>2, BytesSame DEF slotVars, TypeOK, Unsettled, Owning
  <2> QED BY <1>7, <2>1, <2>2 DEF acknowledgeMainInputs
<1>8. ASSUME NEW i \in Inputs, NEW accepted \in BOOLEAN, NEW durable \in BOOLEAN,
             finishSteer(i, accepted, durable) PROVE BytesInv'
  BY <1>8, BytesSettle DEF finishSteer
<1>9. CASE Restart BY <1>9, BytesRestart
<1>10. CASE UNCHANGED vars BY <1>10, BytesSame DEF vars, inputVars, slotVars
<1> QED BY <1>1, <1>2, <1>3, <1>4, <1>5, <1>6, <1>7, <1>8, <1>9, <1>10 DEF Next

\* The counter that admission and edits test is the sum of the rows' bytes and
\* never passes its limit, also when a process starts with rows to close.
THEOREM BytesCorrect == Spec => []BytesExact
<1>1. Init => BytesInv
  <2> SUFFICES ASSUME Init PROVE BytesInv OBVIOUS
  <2>1. IsFiniteSet(Inputs) /\ \A i \in Inputs : weight[i] = 0 BY InputsAssumption DEF Init
  <2>2. SumOver(weight, Inputs) = 0 BY <2>1, SumOfZeros
  <2> QED BY <2>1, <2>2, LimitsAssumption DEF Init, BytesInv, BytesExact
<1>2. TypeOK /\ BytesInv /\ [Next]_vars => BytesInv' BY BytesStep
<1>3. BytesInv => BytesExact BY DEF BytesInv
<1> QED BY <1>1, <1>2, <1>3, TypeCorrect, PTL DEF Spec

----------------------------------------
(* What a step may never do to an answered or closed input. *)

\* No step takes a receipt away.
LEMMA ReceiptStep ==
    TypeOK /\ SlotOwnsClaim /\ [Next]_vars
        => \A j \in Inputs : HasReceipt(j) => HasReceipt(j)'
<1> SUFFICES ASSUME TypeOK, SlotOwnsClaim, [Next]_vars, NEW j \in Inputs, HasReceipt(j)
             PROVE  HasReceipt(j)'
  OBVIOUS
<1> USE DEF TypeOK, HasReceipt
<1>1. ASSUME NEW i \in Inputs, NEW w \in Weights,
             Enqueue(i, w) \/ EnqueueSteer(i, w) \/ DispatchReminder(i, w)
      PROVE  HasReceipt(j)'
  BY <1>1 DEF Enqueue, EnqueueSteer, DispatchReminder, insertMainInput, IsNew
<1>2. ASSUME NEW i \in Inputs, NEW w \in Weights, edit(i, w) PROVE HasReceipt(j)' BY <1>2 DEF edit
<1>3. CASE claim BY <1>3 DEF claim, Queued, InState
<1>4. ASSUME NEW interrupted \in BOOLEAN, finish(interrupted) PROVE HasReceipt(j)'
  BY <1>4 DEF finish, settle
<1>5. ASSUME NEW i \in Inputs, remove(i) PROVE HasReceipt(j)'
  BY <1>5 DEF remove, settle, CancelledState
<1>6. ASSUME NEW i \in Inputs, stageSteer(i) PROVE HasReceipt(j)' BY <1>6 DEF stageSteer
<1>7. ASSUME NEW i \in Inputs, acknowledgeMainInputs(i) PROVE HasReceipt(j)'
  BY <1>7 DEF acknowledgeMainInputs, settle
<1>8. ASSUME NEW i \in Inputs, NEW accepted \in BOOLEAN, NEW durable \in BOOLEAN,
             finishSteer(i, accepted, durable) PROVE HasReceipt(j)'
  <2>1. row[i] = "promoting" => SteerOutcome(i, accepted, durable) \in {"settled", "interrupted"}
    BY DEF SteerOutcome
  <2>2. row[i] \in {"steering", "promoting"}
        /\ row' = [row EXCEPT ![i] = SteerOutcome(i, accepted, durable)]
    BY <1>8 DEF finishSteer, settle
  <2>3. QED BY <2>1, <2>2
<1>9. CASE Restart
  <2>1. row'[j] = row[j] \/ (row[j] = "promoting" /\ row'[j] = "interrupted") BY <1>9 DEF Restart
  <2>2. QED BY <2>1
<1>10. CASE UNCHANGED vars BY <1>10 DEF vars, inputVars
<1>11. QED BY <1>1, <1>2, <1>3, <1>4, <1>5, <1>6, <1>7, <1>8, <1>9, <1>10 DEF Next

\* A receipt once given is never withdrawn.
THEOREM ReceiptsAreStable == Spec => ReceiptIsStable
  <1>1. TypeOK /\ LedgerInv /\ [Next]_vars
            => [\A i \in Inputs : HasReceipt(i) => HasReceipt(i)']_vars
    BY ReceiptStep DEF LedgerInv
  <1>2. QED BY <1>1, TypeCorrect, LedgerCorrect, PTL DEF Spec, ReceiptIsStable

\* No step changes an outcome.
LEMMA OutcomeStep ==
    TypeOK /\ SlotOwnsClaim /\ [Next]_vars
        => \A j \in Inputs : row[j] \in Terminal => row'[j] = row[j]
<1> SUFFICES ASSUME TypeOK, SlotOwnsClaim, [Next]_vars, NEW j \in Inputs, row[j] \in Terminal
             PROVE  row'[j] = row[j]
  OBVIOUS
<1> USE DEF TypeOK, Terminal
<1>1. ASSUME NEW i \in Inputs, NEW w \in Weights,
             Enqueue(i, w) \/ EnqueueSteer(i, w) \/ DispatchReminder(i, w)
      PROVE  row'[j] = row[j]
  BY <1>1 DEF Enqueue, EnqueueSteer, DispatchReminder, insertMainInput, IsNew
<1>2. ASSUME NEW i \in Inputs, NEW w \in Weights, edit(i, w) PROVE row'[j] = row[j] BY <1>2 DEF edit
<1>3. CASE claim BY <1>3 DEF claim, Queued, InState
<1>4. ASSUME NEW interrupted \in BOOLEAN, finish(interrupted) PROVE row'[j] = row[j]
  BY <1>4 DEF finish, settle, SlotOwnsClaim, Owning
<1>5. ASSUME NEW i \in Inputs, remove(i) PROVE row'[j] = row[j] BY <1>5 DEF remove, settle, Waiting
<1>6. ASSUME NEW i \in Inputs, stageSteer(i) PROVE row'[j] = row[j] BY <1>6 DEF stageSteer
<1>7. ASSUME NEW i \in Inputs, acknowledgeMainInputs(i) PROVE row'[j] = row[j]
  BY <1>7 DEF acknowledgeMainInputs, settle, Waiting
<1>8. ASSUME NEW i \in Inputs, NEW accepted \in BOOLEAN, NEW durable \in BOOLEAN,
             finishSteer(i, accepted, durable) PROVE row'[j] = row[j]
  BY <1>8 DEF finishSteer, settle
<1>9. CASE Restart BY <1>9 DEF Restart
<1>10. CASE UNCHANGED vars BY <1>10 DEF vars, inputVars
<1>11. QED BY <1>1, <1>2, <1>3, <1>4, <1>5, <1>6, <1>7, <1>8, <1>9, <1>10 DEF Next

\* A settled outcome is final.
THEOREM OutcomesAreFinal == Spec => OutcomeIsFinal
  <1>1. TypeOK /\ LedgerInv /\ [Next]_vars
            => [\A i \in Inputs : row[i] \in Terminal => row'[i] = row[i]]_vars
    BY OutcomeStep DEF LedgerInv
  <1>2. QED BY <1>1, TypeCorrect, LedgerCorrect, PTL DEF Spec, OutcomeIsFinal

----------------------------------------
(* The history of the ledger (MCMainQueue): turns of the rotation, pauses. *)

\* The ledger's part of a step.
LEMMA HistoryUsesLedger == MCSpec => Spec
<1>1. MCInit => Init BY DEF MCInit
<1>2. [MCNext]_mcVars => [Next]_vars BY DEF MCNext, mcVars
<1> QED BY <1>1, <1>2, PTL DEF MCSpec, Spec

\* Who was served since session s waits has the main slot still, left the ready
\* table, or stands behind s.
ServedStandBehind ==
    /\ overtakers \in [Sessions -> SUBSET Sessions]
    /\ \A s, t \in Sessions : Waits(s) /\ t \in overtakers[s] =>
          \/ slot # None /\ SessionOf[slot] = t
          \/ t \notin ready
          \/ position[s] < position[t]

\* The claim of a dead process: a user's word since is the mark -1 of its
\* session, and no session that has the slot is paused.
WordIsMarked ==
    /\ resumed \in BOOLEAN
    /\ resumed => slot # None /\ slot = startupClaim
    /\ slot # None => paused[SessionOf[slot]] # 1
    /\ slot # None /\ slot = startupClaim /\ SessionOf[slot] \in ready =>
          (paused[SessionOf[slot]] = -1 <=> resumed)

\* What a step does to the slot and to the place of session s.
Places(s) ==
    /\ s \in ready /\ s \in ready' =>
          \/ position'[s] = position[s]
          \/ slot # None /\ SessionOf[slot] = s /\ position'[s] = serial + 1
    /\ s \notin ready /\ s \in ready' => position'[s] = serial + 1
    /\ slot # None /\ SessionOf[slot] = s /\ slot' # slot =>
          slot' = None /\ (s \notin ready' \/ position'[s] = serial + 1)

\* A session keeps its place until it leaves or has had its turn, and whoever
\* comes goes to the tail.
LEMMA PlacesKept ==
    ASSUME TypeOK, [Next]_vars, NEW s \in Sessions PROVE Places(s)
<1> USE DEF TypeOK, Places
<1> SessionOf \in [Inputs -> Sessions] /\ None \notin Inputs BY InputsAssumption
<1>1. ASSUME NEW i \in Inputs, NEW w \in Weights,
             Enqueue(i, w) \/ EnqueueSteer(i, w) \/ DispatchReminder(i, w)
      PROVE  Places(s)
  <2>1. slot' = slot BY <1>1 DEF Enqueue, EnqueueSteer, DispatchReminder
  <2>2. \/ AppendReady(SessionOf[i])
        \/ UNCHANGED <<ready, position>>
    BY <1>1 DEF Enqueue, EnqueueSteer, DispatchReminder, insertMainInput
  <2> QED BY <2>1, <2>2 DEF AppendReady
<1>2. ASSUME NEW i \in Inputs, NEW w \in Weights, edit(i, w) PROVE Places(s)
  BY <1>2 DEF edit, readyVars
<1>3. CASE claim
  <2>1. slot = None /\ (UNCHANGED readyVars \/ \E t \in ready : DropReady(t)) BY <1>3 DEF claim
  <2> QED BY <2>1 DEF readyVars, DropReady
<1>4. ASSUME NEW interrupted \in BOOLEAN, finish(interrupted) PROVE Places(s)
  BY <1>4 DEF finish, DropReady, Tail
<1>5. ASSUME NEW i \in Inputs, remove(i) PROVE Places(s) BY <1>5 DEF remove, DropReady, readyVars
<1>6. ASSUME NEW i \in Inputs, stageSteer(i) PROVE Places(s)
  BY <1>6 DEF stageSteer, readyVars, slotVars
<1>7. ASSUME NEW i \in Inputs, acknowledgeMainInputs(i) PROVE Places(s)
  BY <1>7 DEF acknowledgeMainInputs, readyVars, slotVars
<1>8. ASSUME NEW i \in Inputs, NEW accepted \in BOOLEAN, NEW durable \in BOOLEAN,
             finishSteer(i, accepted, durable) PROVE Places(s)
  BY <1>8 DEF finishSteer, readyVars
<1>9. CASE Restart BY <1>9 DEF Restart, readyVars
<1>10. CASE UNCHANGED vars BY <1>10 DEF vars, readyVars, slotVars
<1> QED BY <1>1, <1>2, <1>3, <1>4, <1>5, <1>6, <1>7, <1>8, <1>9, <1>10 DEF Next

\* Whoever was served goes behind those who wait.
LEMMA ServedStep ==
    TypeOK /\ LedgerInv /\ ServedStandBehind /\ [MCNext]_mcVars => ServedStandBehind'
<1> SUFFICES ASSUME TypeOK, LedgerInv, ServedStandBehind, [MCNext]_mcVars
             PROVE  ServedStandBehind'
  OBVIOUS
<1>1. CASE UNCHANGED mcVars BY <1>1 DEF mcVars, vars, readyVars, slotVars, ServedStandBehind, Waits
<1>2. CASE MCNext
  <2>1. overtakers' = [s \in Sessions |->
            IF Waits(s) /\ Waits(s)' THEN overtakers[s] \cup {t \in Sessions : Claims(t)}
                                     ELSE {}]
    BY <1>2 DEF MCNext
  <2>2. overtakers' \in [Sessions -> SUBSET Sessions] BY <2>1 DEF ServedStandBehind
  <2>3. ASSUME NEW s \in Sessions, NEW t \in Sessions, Waits(s)', t \in overtakers'[s]
        PROVE  \/ slot' # None /\ SessionOf[slot'] = t
               \/ t \notin ready'
               \/ position'[s] < position'[t]
    <3>1. Waits(s) /\ (t \in overtakers[s] \/ Claims(t)) BY <2>1, <2>3
    <3>2. CASE Claims(t) BY <3>2 DEF Claims
    <3>3. CASE t \in overtakers[s]
      <4>1. [Next]_vars BY <1>2 DEF MCNext
      <4>2. Places(s) /\ Places(t) BY <4>1, PlacesKept
      <4>3. TypeOK' BY <4>1, TypeStep
      <4>4. /\ s \in ready /\ s \in ready'
            /\ slot = None \/ SessionOf[slot] # s
            /\ position[s] \in Nat /\ position[t] \in Nat /\ serial \in Nat
            /\ position'[s] \in Nat /\ position'[t] \in Nat
            /\ position[s] <= serial
        BY <2>3, <3>1, <4>3 DEF Waits, TypeOK, LedgerInv, PositionsDistinct
      <4>5. position'[s] = position[s] BY <4>2, <4>4 DEF Places
      <4>6. \/ slot # None /\ SessionOf[slot] = t
            \/ t \notin ready
            \/ position[s] < position[t]
        BY <3>1, <3>3 DEF ServedStandBehind
      <4>7. CASE slot # None /\ SessionOf[slot] = t
        <5>1. CASE slot' = slot BY <4>7, <5>1
        <5>2. CASE slot' # slot
          <6>1. t \notin ready' \/ position'[t] = serial + 1 BY <4>2, <4>7, <5>2 DEF Places
          <6> QED BY <4>4, <4>5, <6>1
        <5> QED BY <5>1, <5>2
      <4>8. CASE t \notin ready
        <5>1. t \notin ready' \/ position'[t] = serial + 1 BY <4>2, <4>8 DEF Places
        <5> QED BY <4>4, <4>5, <5>1
      <4>9. CASE t \in ready /\ position[s] < position[t]
        <5>1. t \notin ready' \/ position'[t] = position[t] \/ position'[t] = serial + 1
          BY <4>2, <4>9 DEF Places
        <5> QED BY <4>4, <4>5, <4>9, <5>1
      <4> QED BY <4>6, <4>7, <4>8, <4>9
    <3> QED BY <3>1, <3>2, <3>3
  <2> QED BY <2>2, <2>3 DEF ServedStandBehind
<1> QED BY <1>1, <1>2

\* A claim takes the session that stands first of those that may run.
LEMMA ClaimTakesFirst ==
    ASSUME TypeOK, [Next]_vars, NEW t \in Sessions, Claims(t)
    PROVE  slot = None /\ t \in ready /\ IsNextReady(t)
<1> None \notin Inputs BY InputsAssumption
<1>1. slot = None /\ slot' # None /\ SessionOf[slot'] = t BY DEF Claims
<1>2. claim
  BY <1>1 DEF Next, Enqueue, EnqueueSteer, DispatchReminder, edit, finish, remove, stageSteer,
    acknowledgeMainInputs, finishSteer, Restart, vars, slotVars
<1>3. PICK s \in ready : /\ IsNextReady(s)
                         /\ \/ \E i \in Queued(s) : slot' = i
                            \/ UNCHANGED slot
  BY <1>2 DEF claim
<1>4. SessionOf[slot'] = s BY <1>1, <1>3 DEF Queued
<1> QED BY <1>1, <1>3, <1>4

\* Round robin: while a session waits that may run, no other is served twice.
THEOREM RotationCorrect == MCSpec => NoDoubleOvertake
<1>1. MCInit => ServedStandBehind BY DEF MCInit, Init, ServedStandBehind, Waits
<1>2. TypeOK /\ LedgerInv /\ ServedStandBehind /\ [MCNext]_mcVars => ServedStandBehind'
  BY ServedStep
<1>3. TypeOK /\ LedgerInv /\ ServedStandBehind /\ [MCNext]_mcVars
        => [\A s, t \in Sessions : s # t /\ Waits(s) /\ Claims(t) => t \notin overtakers[s]]_mcVars
  <2> SUFFICES ASSUME TypeOK, LedgerInv, ServedStandBehind, MCNext,
                      NEW s \in Sessions, NEW t \in Sessions, Waits(s), Claims(t),
                      t \in overtakers[s]
               PROVE  FALSE
    BY DEF MCNext
  <2>1. slot = None /\ t \in ready /\ IsNextReady(t) BY ClaimTakesFirst DEF MCNext
  <2>2. position[s] < position[t] BY <2>1 DEF ServedStandBehind
  <2>3. position[t] <= position[s] BY <2>1 DEF IsNextReady, Waits
  <2> QED BY <2>2, <2>3 DEF TypeOK
<1> QED
  BY <1>1, <1>2, <1>3, HistoryUsesLedger, TypeCorrect, LedgerCorrect, PTL DEF MCSpec,
    NoDoubleOvertake

\* Only a user's submission brings a new queued row that is no reminder.
LEMMA OnlyEnqueueAdmits ==
    ASSUME TypeOK, [Next]_vars, NEW s \in Sessions, UserEnqueues(s)
    PROVE  \E i \in Inputs, w \in Weights : Enqueue(i, w) /\ SessionOf[i] = s
<1>1. PICK j \in Inputs \ Reminders :
        SessionOf[j] = s /\ row[j] = "absent" /\ row'[j] = "queued"
  BY DEF UserEnqueues
<1> USE <1>1 DEF TypeOK
<1>2. ASSUME NEW i \in Inputs, NEW w \in Weights, Enqueue(i, w) PROVE i = j
  BY <1>2 DEF Enqueue, insertMainInput
<1>3. ASSUME NEW i \in Inputs, NEW w \in Weights,
             EnqueueSteer(i, w) \/ DispatchReminder(i, w) \/ edit(i, w)
      PROVE  FALSE
  BY <1>3 DEF EnqueueSteer, DispatchReminder, insertMainInput, edit
<1>4. ~claim BY DEF claim, Queued, InState
<1>5. ASSUME NEW interrupted \in BOOLEAN PROVE ~finish(interrupted) BY DEF finish, settle
<1>6. ASSUME NEW i \in Inputs PROVE ~remove(i) /\ ~stageSteer(i) /\ ~acknowledgeMainInputs(i)
  BY DEF remove, settle, CancelledState, stageSteer, acknowledgeMainInputs
<1>7. ASSUME NEW i \in Inputs, NEW accepted \in BOOLEAN, NEW durable \in BOOLEAN
      PROVE  ~finishSteer(i, accepted, durable)
  <2>1. SteerOutcome(i, accepted, durable) # "queued" BY SteerOutcomeTerminal
  <2> QED BY <2>1 DEF finishSteer, settle
<1>8. ~Restart /\ ~UNCHANGED vars BY DEF Restart, vars, inputVars
<1> QED BY <1>2, <1>3, <1>4, <1>5, <1>6, <1>7, <1>8 DEF Next

\* What a step that keeps the slot, the claim found at the start and the marks
\* does to them: nothing.
LEMMA WordUntouched ==
    ASSUME WordIsMarked, UNCHANGED <<slot, startupClaim, ready, paused>>, resumed' = resumed
    PROVE  WordIsMarked'
  BY DEF WordIsMarked

\* No step parts a user's word from its mark.
LEMMA WordStep ==
    TypeOK /\ LedgerInv /\ WordIsMarked /\ [MCNext]_mcVars => WordIsMarked'
<1> SUFFICES ASSUME TypeOK, LedgerInv, WordIsMarked, [MCNext]_mcVars PROVE WordIsMarked'
  OBVIOUS
<1> None \notin Inputs /\ SessionOf \in [Inputs -> Sessions] BY InputsAssumption
<1>1. CASE UNCHANGED mcVars BY <1>1, WordUntouched DEF mcVars, vars, readyVars, slotVars
<1>2. CASE MCNext
  <2> DEFINE Word == \E s \in Sessions : HeldBefore(s) /\ UserEnqueues(s)
  <2>1. Next /\ (resumed' <=> slot' = slot /\ (resumed \/ Word)) /\ resumed' \in BOOLEAN
    BY <1>2 DEF MCNext, WordIsMarked
  <2>2. ASSUME NEW s \in Sessions, UserEnqueues(s)
        PROVE  \E i \in Inputs, w \in Weights : Enqueue(i, w) /\ SessionOf[i] = s
    BY <2>1, <2>2, OnlyEnqueueAdmits
  <2>3. ASSUME NEW i \in Inputs, NEW w \in Weights, Enqueue(i, w) PROVE WordIsMarked'
    <3>1. /\ i \notin Reminders /\ row[i] = "absent" /\ row' = [row EXCEPT ![i] = "queued"]
          /\ ready' = ready \cup {SessionOf[i]}
          /\ paused' = [paused EXCEPT ![SessionOf[i]] = IF StaleOwner(SessionOf[i]) THEN -1 ELSE 0]
          /\ UNCHANGED <<slot, startupClaim>>
      BY <2>3 DEF Enqueue, insertMainInput, IsNew, AppendReady, resume
    <3>2. UserEnqueues(SessionOf[i]) BY <3>1 DEF UserEnqueues, TypeOK
    <3>3. CASE slot = None
      <4>1. ~Word /\ ~resumed BY <3>3 DEF HeldBefore, WordIsMarked
      <4> QED BY <2>1, <3>1, <3>3, <4>1 DEF WordIsMarked
    <3>4. CASE slot # None /\ slot # startupClaim
      <4>1. ~Word /\ ~resumed BY <3>4 DEF HeldBefore, WordIsMarked
      <4>2. slot \in Inputs /\ paused'[SessionOf[slot]] # 1 BY <3>1, <3>4 DEF TypeOK, WordIsMarked
      <4> QED BY <2>1, <3>1, <3>4, <4>1, <4>2 DEF WordIsMarked
    <3>5. CASE slot # None /\ slot = startupClaim /\ SessionOf[slot] = SessionOf[i]
      <4>1. HeldBefore(SessionOf[i]) /\ StaleOwner(SessionOf[i]) /\ slot \in Inputs
        BY <3>5 DEF HeldBefore, StaleOwner, TypeOK
      <4>2. resumed' BY <2>1, <3>1, <3>2, <4>1
      <4>3. paused'[SessionOf[slot]] = -1 BY <3>1, <3>5, <4>1 DEF TypeOK
      <4> QED BY <2>1, <3>1, <3>5, <4>2, <4>3 DEF WordIsMarked
    <3>6. CASE slot # None /\ slot = startupClaim /\ SessionOf[slot] # SessionOf[i]
      <4>1. slot \in Inputs BY <3>6 DEF TypeOK
      <4>2. ~Word
        <5> SUFFICES ASSUME NEW s \in Sessions, HeldBefore(s), UserEnqueues(s) PROVE FALSE OBVIOUS
        <5>1. PICK j \in Inputs \ Reminders :
                SessionOf[j] = s /\ row[j] = "absent" /\ row'[j] = "queued"
          BY DEF UserEnqueues
        <5>2. j = i BY <3>1, <5>1 DEF TypeOK
        <5> QED BY <3>6, <5>1, <5>2 DEF HeldBefore
      <4>3. /\ paused'[SessionOf[slot]] = paused[SessionOf[slot]]
            /\ SessionOf[slot] \in ready' <=> SessionOf[slot] \in ready
        BY <3>1, <3>6, <4>1 DEF TypeOK
      <4>4. resumed' <=> resumed BY <2>1, <3>1, <4>2
      <4> QED BY <2>1, <3>1, <3>6, <4>3, <4>4 DEF WordIsMarked
    <3> QED BY <3>3, <3>4, <3>5, <3>6
  <2>4. CASE ~\E i \in Inputs, w \in Weights : Enqueue(i, w)
    <3>1. resumed' <=> slot' = slot /\ resumed BY <2>1, <2>2, <2>4
    <3>2. slot' = slot => resumed' = resumed BY <3>1, <2>1 DEF WordIsMarked
    <3>3. ASSUME NEW i \in Inputs, NEW w \in Weights,
                 EnqueueSteer(i, w) \/ DispatchReminder(i, w) \/ edit(i, w)
          PROVE  WordIsMarked'
      <4>1. CASE EnqueueSteer(i, w) \/ edit(i, w)
        <5>1. UNCHANGED <<slot, startupClaim, ready, paused>>
          BY <4>1 DEF EnqueueSteer, insertMainInput, edit, readyVars
        <5> QED BY <3>2, <5>1, WordUntouched
      <4>2. CASE DispatchReminder(i, w)
        <5>1. slot = None /\ slot' = None BY <4>2 DEF DispatchReminder
        <5>2. resumed' = FALSE BY <2>1, <3>1, <5>1 DEF WordIsMarked
        <5> QED BY <5>1, <5>2 DEF WordIsMarked
      <4> QED BY <3>3, <4>1, <4>2
    <3>4. CASE claim
      <4>1. slot = None /\ UNCHANGED startupClaim BY <3>4 DEF claim
      <4>2. resumed' = FALSE BY <2>1, <3>1, <4>1 DEF WordIsMarked
      <4>3. CASE slot' = None BY <4>2, <4>3 DEF WordIsMarked
      <4>4. CASE slot' # None
        <5>1. PICK s \in ready : /\ IsNextReady(s)
                                 /\ \/ (\E i \in Queued(s) : slot' = i) /\ UNCHANGED readyVars
                                    \/ UNCHANGED slot
          BY <3>4 DEF claim
        <5>2. SessionOf[slot'] = s /\ paused'[s] = 0
          BY <4>1, <4>4, <5>1 DEF Queued, IsNextReady, readyVars
        <5>3. paused'[SessionOf[slot']] # 1 /\ paused'[SessionOf[slot']] # -1 BY <5>2
        <5> QED BY ONLY <4>2, <5>3 DEF WordIsMarked
      <4> QED BY <4>3, <4>4
    <3>5. ASSUME NEW interrupted \in BOOLEAN, finish(interrupted) PROVE WordIsMarked'
      <4>1. slot # None /\ slot' = None BY <3>5 DEF finish
      <4>2. resumed' = FALSE BY <2>1, <3>1, <4>1
      <4> QED BY <4>1, <4>2 DEF WordIsMarked
    <3>6. ASSUME NEW i \in Inputs, remove(i) PROVE WordIsMarked'
      <4>1. UNCHANGED <<slot, startupClaim>> /\ resumed' = resumed BY <3>2, <3>6 DEF remove
      <4>2. CASE UNCHANGED readyVars BY <4>1, <4>2, WordUntouched DEF readyVars
      <4>3. CASE DropReady(SessionOf[i])
        <5>1. CASE slot = None BY <4>1, <5>1 DEF WordIsMarked
        <5>2. CASE slot # None
          <6>1. slot \in Inputs BY <5>2 DEF TypeOK
          <6>2. \/ SessionOf[slot] \notin ready' /\ paused'[SessionOf[slot]] = 0
                \/ /\ SessionOf[slot] \in ready' <=> SessionOf[slot] \in ready
                   /\ paused'[SessionOf[slot]] = paused[SessionOf[slot]]
            BY <4>3, <6>1 DEF DropReady, TypeOK
          <6> QED BY <4>1, <6>2 DEF WordIsMarked
        <5> QED BY <5>1, <5>2
      <4> QED BY <3>6, <4>2, <4>3 DEF remove
    <3>7. ASSUME NEW i \in Inputs, stageSteer(i) PROVE WordIsMarked'
      BY <3>2, <3>7, WordUntouched DEF stageSteer, readyVars, slotVars
    <3>8. ASSUME NEW i \in Inputs, acknowledgeMainInputs(i) PROVE WordIsMarked'
      BY <3>2, <3>8, WordUntouched DEF acknowledgeMainInputs, readyVars, slotVars
    <3>9. ASSUME NEW i \in Inputs, NEW accepted \in BOOLEAN, NEW durable \in BOOLEAN,
                 finishSteer(i, accepted, durable) PROVE WordIsMarked'
      BY <3>2, <3>9, WordUntouched DEF finishSteer, readyVars
    <3>10. CASE Restart
      <4>1. startupClaim' = slot /\ UNCHANGED <<slot, ready, paused>> /\ resumed' = resumed
        BY <3>2, <3>10 DEF Restart, readyVars
      <4>2. CASE slot = startupClaim BY <4>1, <4>2, WordUntouched
      <4>3. CASE slot # startupClaim
        <5>1. ~resumed /\ (slot # None => paused[SessionOf[slot]] # -1)
          BY <4>3 DEF WordIsMarked, LedgerInv, ResumeMarkHasOwner, TypeOK
        <5> QED BY <2>1, <4>1, <5>1 DEF WordIsMarked
      <4> QED BY <4>2, <4>3
    <3> QED BY <2>1, <2>4, <3>3, <3>4, <3>5, <3>6, <3>7, <3>8, <3>9, <3>10 DEF Next
  <2> QED BY <2>3, <2>4
<1> QED BY <1>1, <1>2

\* The pauses of one step: closing the claim of a dead process pauses unless a
\* user spoke, and only a user lifts a pause.
LEMMA PauseStep ==
    ASSUME TypeOK, LedgerInv, WordIsMarked, Next, NEW s \in Sessions
    PROVE  /\ HeldBefore(s) /\ slot' = None /\ row'[slot] = "interrupted" /\ s \in ready'
                  => (paused'[s] = 1 <=> ~resumed)
           /\ paused[s] = 1 /\ paused'[s] # 1 => UserEnqueues(s) \/ s \notin ready'
<1> None \notin Inputs /\ SessionOf \in [Inputs -> Sessions] BY InputsAssumption
<1>1. ASSUME HeldBefore(s), slot' = None, row'[slot] = "interrupted", s \in ready'
      PROVE  paused'[s] = 1 <=> ~resumed
  <2>1. slot # None /\ slot = startupClaim /\ SessionOf[slot] = s /\ slot \in Inputs
    BY <1>1 DEF HeldBefore, TypeOK
  <2>2. PICK interrupted \in BOOLEAN : finish(interrupted)
    BY <1>1, <2>1 DEF Next, Enqueue, EnqueueSteer, DispatchReminder, claim, edit, remove,
      stageSteer, acknowledgeMainInputs, finishSteer, Restart, slotVars
  <2>3. row'[slot] = IF interrupted THEN "interrupted" ELSE "settled"
    BY <2>1, <2>2 DEF finish, settle, TypeOK
  <2>4. interrupted BY <1>1, <2>3
  <2>5. /\ Followups(s, slot) # {}
        /\ paused' = [paused EXCEPT ![s] = IF interrupted /\ paused[s] # -1 THEN 1 ELSE 0]
    BY <1>1, <2>1, <2>2 DEF finish, DropReady
  <2>6. s \in ready BY <2>5 DEF Followups, Queued, InState, LedgerInv, QueuedIsReady
  <2>7. paused[s] = -1 <=> resumed BY <2>1, <2>6 DEF WordIsMarked
  <2>8. paused'[s] = IF paused[s] # -1 THEN 1 ELSE 0 BY <2>4, <2>5 DEF TypeOK
  <2> QED BY <2>7, <2>8
<1>2. ASSUME paused[s] = 1, paused'[s] # 1, s \in ready' PROVE UserEnqueues(s)
  <2> USE <1>2 DEF TypeOK
  <2>1. ASSUME NEW i \in Inputs, NEW w \in Weights, Enqueue(i, w) PROVE UserEnqueues(s)
    <3>1. /\ i \notin Reminders /\ row[i] = "absent" /\ row' = [row EXCEPT ![i] = "queued"]
          /\ SessionOf[i] = s
      BY <2>1 DEF Enqueue, insertMainInput, IsNew, resume
    <3> QED BY <3>1 DEF UserEnqueues
  <2>2. ASSUME NEW i \in Inputs, NEW w \in Weights,
               EnqueueSteer(i, w) \/ DispatchReminder(i, w) \/ edit(i, w)
        PROVE  FALSE
    BY <2>2 DEF EnqueueSteer, DispatchReminder, edit, readyVars
  <2>3. ~claim BY DEF claim, IsNextReady, DropReady, readyVars
  <2>4. ASSUME NEW interrupted \in BOOLEAN, finish(interrupted) PROVE FALSE
    <3>1. slot \in Inputs /\ SessionOf[slot] # s BY <2>4 DEF finish, WordIsMarked
    <3> QED BY <2>4, <3>1 DEF finish, DropReady
  <2>5. ASSUME NEW i \in Inputs, remove(i) PROVE FALSE BY <2>5 DEF remove, DropReady, readyVars
  <2>6. ASSUME NEW i \in Inputs PROVE ~stageSteer(i) /\ ~acknowledgeMainInputs(i)
    BY DEF stageSteer, acknowledgeMainInputs, readyVars
  <2>7. ASSUME NEW i \in Inputs, NEW accepted \in BOOLEAN, NEW durable \in BOOLEAN
        PROVE  ~finishSteer(i, accepted, durable)
    BY DEF finishSteer, readyVars
  <2>8. ~Restart BY DEF Restart, readyVars
  <2> QED BY <2>1, <2>2, <2>3, <2>4, <2>5, <2>6, <2>7, <2>8 DEF Next
<1> QED BY <1>1, <1>2

\* Closing the claim of a dead process pauses what its session still has queued
\* unless a user wrote to it after a restart, however many restarts follow, and
\* a pause ends only when a user writes or takes the last input it holds away.
THEOREM PausesCorrect == MCSpec => PauseIsTheUsers
<1>1. MCInit => WordIsMarked BY DEF MCInit, Init, WordIsMarked
<1>2. TypeOK /\ LedgerInv /\ WordIsMarked /\ [MCNext]_mcVars => WordIsMarked' BY WordStep
<1>3. TypeOK /\ LedgerInv /\ WordIsMarked /\ [MCNext]_mcVars
        => [\A s \in Sessions :
            /\ HeldBefore(s) /\ slot' = None /\ row'[slot] = "interrupted" /\ s \in ready'
                    => (paused'[s] = 1 <=> ~resumed)
            /\ paused[s] = 1 /\ paused'[s] # 1 => UserEnqueues(s) \/ s \notin ready']_mcVars
  BY PauseStep DEF MCNext
<1> QED
  BY <1>1, <1>2, <1>3, HistoryUsesLedger, TypeCorrect, LedgerCorrect, PTL DEF MCSpec,
    PauseIsTheUsers
==============================================================================
