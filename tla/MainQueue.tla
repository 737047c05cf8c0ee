------------------------------ MODULE MainQueue ------------------------------
(***************************************************************************)
(* The durable admission ledger of the owner's Durable Object              *)
(* (main-session-queue.ts): the inputs table, the ready table and the      *)
(* one-row slot.  Every method of MainSessionQueue commits one SQLite      *)
(* transaction, so each is one action.  A row is addressed by its input    *)
(* identity (UNIQUE(session_id, input_id)), and an identity names its      *)
(* session (SessionOf).  Repeating an identity changes nothing, whatever   *)
(* its digest, so it is a stutter here.                                    *)
(***************************************************************************)
EXTENDS Integers, FiniteSets, Functions

CONSTANTS
    Sessions,           \* session ids
    Inputs,             \* input identities of every session
    Reminders,          \* the identities dispatchDueSchedules makes
    SessionOf,          \* the session of each identity
    Weights,            \* byte lengths an encoded message may have
    MAIN_QUEUE_LIMIT,   \* unsettled inputs per owner
    MAIN_QUEUE_BYTES,   \* serialized input bytes per owner
    None

ASSUME SessionsAssumption == None \notin Sessions
ASSUME InputsAssumption ==
    /\ IsFiniteSet(Inputs) /\ None \notin Inputs
    /\ Reminders \subseteq Inputs
    /\ SessionOf \in [Inputs -> Sessions]
ASSUME LimitsAssumption ==
    /\ MAIN_QUEUE_LIMIT \in Nat \ {0}
    /\ MAIN_QUEUE_BYTES \in Nat
    /\ Weights \subseteq Nat \ {0}

VARIABLES
    row,            \* state column of each input, "absent" while it has no row
    seq,            \* AUTOINCREMENT key of each unsettled row (no one reads it later)
    lastSeq,        \* last key handed out
    weight,         \* bytes column
    ready,          \* sessions with a row in the ready table
    position,       \* their round-robin position
    paused,         \* their pause mark: 0, 1, or -1 (explicit resume pending)
    slot,           \* the claimed input, or None
    serial,         \* last position handed out
    pending,        \* counter of unsettled inputs
    bytes,          \* counter of their bytes
    startupClaim    \* in memory: the claim the constructor found

inputVars == <<row, seq, lastSeq, weight>>
readyVars == <<ready, position, paused>>
slotVars  == <<slot, serial, pending, bytes>>
vars == <<inputVars, readyVars, slotVars, startupClaim>>

Waiting   == {"queued", "steering", "promoting"}
Owning    == {"claimed", "admitted"}
Unsettled == Waiting \cup Owning
Terminal  == {"settled", "interrupted", "cancelled", "rejected"}

InState(S) == {i \in Inputs : row[i] \in S}
Queued(s)  == {i \in InState({"queued"}) : SessionOf[i] = s}
SumOver(f, S) == FoldFunctionOnSet(+, 0, f, S)

----------------------------------------
(* Row-level steps shared by the operations. *)

\* INSERT OR IGNORE at the tail, after serial was advanced.
AppendReady(s) ==
    /\ serial' = serial + 1
    /\ ready' = ready \cup {s}
    /\ position' = IF s \in ready THEN position ELSE [position EXCEPT ![s] = serial + 1]

DropReady(s) ==
    /\ ready' = ready \ {s}
    /\ position' = [position EXCEPT ![s] = 0]
    /\ paused' = [paused EXCEPT ![s] = 0]

HasRoomInclusive(w) == pending <= MAIN_QUEUE_LIMIT /\ bytes + w <= MAIN_QUEUE_BYTES  \* mutant
HasRoom(w) == pending < MAIN_QUEUE_LIMIT /\ bytes + w <= MAIN_QUEUE_BYTES

IsNewOrClosed(i) == row[i] \notin Unsettled  \* mutant: a closed identity may be used again
IsNew(i) == row[i] = "absent"

insertMainInput(i, w, state) ==
    /\ IsNew(i)
    /\ HasRoom(w)
    /\ row' = [row EXCEPT ![i] = state]
    /\ seq' = [seq EXCEPT ![i] = lastSeq + 1]
    /\ lastSeq' = lastSeq + 1
    /\ weight' = [weight EXCEPT ![i] = w]
    /\ pending' = pending + 1
    /\ bytes' = bytes + w
    /\ IF state = "queued" THEN AppendReady(SessionOf[i])
                           ELSE UNCHANGED <<serial, ready, position>>

settle(i, state) ==
    /\ row' = [row EXCEPT ![i] = state]
    /\ seq' = [seq EXCEPT ![i] = 0]
    /\ weight' = [weight EXCEPT ![i] = 0]
    /\ pending' = pending - 1
    /\ bytes' = bytes - weight[i]
    /\ UNCHANGED lastSeq

StaleOwnerUnknown(s) == FALSE  \* mutant: the startup claim is not remembered

\* The slot is held by the claim this process found when it started.
StaleOwner(s) == slot # None /\ slot = startupClaim /\ SessionOf[slot] = s

\* UPDATE ... WHERE session_id: a session without a ready row keeps none.
resume(s) ==
    paused' = IF s \in ready' THEN [paused EXCEPT ![s] = IF StaleOwner(s) THEN -1 ELSE 0]
                              ELSE paused

----------------------------------------
(* Operations of the ledger. *)

Init ==
    /\ row = [i \in Inputs |-> "absent"]
    /\ seq = [i \in Inputs |-> 0]
    /\ lastSeq = 0
    /\ weight = [i \in Inputs |-> 0]
    /\ ready = {}
    /\ position = [s \in Sessions |-> 0]
    /\ paused = [s \in Sessions |-> 0]
    /\ slot = None
    /\ serial = 0
    /\ pending = 0
    /\ bytes = 0
    /\ startupClaim = None

\* An ordinary user submission: insert and explicit resume in one transaction.
Enqueue(i, w) ==
    /\ i \notin Reminders
    /\ insertMainInput(i, w, "queued")
    /\ resume(SessionOf[i])
    /\ UNCHANGED <<slot, startupClaim>>

\* A steering submission reserves capacity only.
EnqueueSteer(i, w) ==
    /\ i \notin Reminders
    /\ insertMainInput(i, w, "steering")
    /\ UNCHANGED <<paused, slot, startupClaim>>

\* dispatchDueSchedules: never for a paused session, never resumes one; the
\* driver dispatches only between residencies, while the slot is free.
DispatchReminder(i, w) ==
    /\ i \in Reminders
    /\ slot = None
    /\ paused[SessionOf[i]] # 1
    /\ insertMainInput(i, w, "queued")
    /\ UNCHANGED <<paused, slot, startupClaim>>

IsNextReady(s) ==
    /\ s \in ready /\ paused[s] = 0
    /\ \A t \in ready : paused[t] = 0 => position[s] <= position[t]

\* Head of the line, or the deletion of a ready row that has no input left.
claim ==
    /\ slot = None
    /\ \E s \in ready :
        /\ IsNextReady(s)
        /\ \/ \E i \in Queued(s) :
                /\ \A j \in Queued(s) : seq[i] <= seq[j]
                /\ slot' = i
                /\ row' = [row EXCEPT ![i] = "claimed"]
                /\ UNCHANGED readyVars
           \/ /\ Queued(s) = {}
              /\ DropReady(s)
              /\ UNCHANGED <<slot, row>>
    /\ UNCHANGED <<seq, lastSeq, weight, serial, pending, bytes, startupClaim>>

FollowupsForgotten(s, i) == {}  \* mutant: the ready row is always dropped

\* What stays queued for session s once i is closed.
Followups(s, i) == Queued(s) \ {i}

PlaceKept(s) == position[s]  \* mutant: no rotation
Tail(s) == serial + 1

\* Settle the owner, free the slot and rotate its session to the tail.
finish(interrupted) ==
    /\ slot # None
    /\ settle(slot, IF interrupted THEN "interrupted" ELSE "settled")
    /\ slot' = None
    /\ LET s == SessionOf[slot] IN
        \/ /\ Followups(s, slot) = {}
           /\ DropReady(s)
           /\ UNCHANGED serial
        \/ /\ Followups(s, slot) # {}
           /\ serial' = serial + 1
           /\ ready' = ready \cup {s}
           /\ position' = [position EXCEPT ![s] = Tail(s)]
           /\ paused' = [paused EXCEPT ![s] = IF interrupted /\ paused[s] # -1 THEN 1 ELSE 0]
    /\ UNCHANGED startupClaim

RemovedState == "removed"  \* mutant: a state startTurn does not know
CancelledState == "cancelled"

remove(i) ==
    /\ row[i] \in Waiting
    /\ settle(i, CancelledState)
    /\ IF Followups(SessionOf[i], i) = {} THEN DropReady(SessionOf[i]) ELSE UNCHANGED readyVars
    /\ UNCHANGED <<slot, serial, startupClaim>>

stageSteer(i) ==
    /\ row[i] = "queued"
    /\ row' = [row EXCEPT ![i] = "promoting"]
    /\ UNCHANGED <<seq, lastSeq, weight, readyVars, slotVars, startupClaim>>

\* Mutant of SteerOutcome: promotion is not told from a plain steer.
SteerOutcomePlain(i, accepted, durable) ==
    CASE durable -> "settled" [] ~durable /\ accepted -> "interrupted" [] OTHER -> "rejected"

\* A promoted input already has an accepted receipt; a plain steer does not.
SteerOutcome(i, accepted, durable) ==
    CASE durable -> "settled"
      [] ~durable /\ (accepted \/ row[i] = "promoting") -> "interrupted"
      [] OTHER -> "rejected"

finishSteer(i, accepted, durable) ==
    /\ row[i] \in {"steering", "promoting"}
    /\ settle(i, SteerOutcome(i, accepted, durable))
    /\ UNCHANGED <<readyVars, slot, serial, startupClaim>>

ByteGrowth(i, w) == w  \* mutant: the old length is not given back
ByteDelta(i, w) == w - weight[i]

edit(i, w) ==
    /\ row[i] = "queued"
    /\ bytes + ByteDelta(i, w) <= MAIN_QUEUE_BYTES
    /\ weight' = [weight EXCEPT ![i] = w]
    /\ bytes' = bytes + ByteDelta(i, w)
    /\ UNCHANGED <<row, seq, lastSeq, readyVars, slot, serial, pending, startupClaim>>

\* In the transaction of the canonical append that carries the inbox splice.
acknowledgeMainInputs(i) ==
    \/ /\ row[i] \in Waiting
       /\ settle(i, "settled")
       /\ UNCHANGED <<readyVars, slot, serial, startupClaim>>
    \/ /\ row[i] = "claimed"
       /\ row' = [row EXCEPT ![i] = "admitted"]
       /\ UNCHANGED <<seq, lastSeq, weight, readyVars, slotVars, startupClaim>>

\* Eviction or crash, then the constructor: steers of the dead run are closed.
Restart ==
    LET dead == InState({"steering", "promoting"}) IN
    /\ startupClaim' = slot
    /\ row' = [i \in Inputs |-> CASE row[i] = "steering"  -> "rejected"
                                  [] row[i] = "promoting" -> "interrupted"
                                  [] OTHER -> row[i]]
    /\ seq' = [i \in Inputs |-> IF i \in dead THEN 0 ELSE seq[i]]
    /\ weight' = [i \in Inputs |-> IF i \in dead THEN 0 ELSE weight[i]]
    /\ pending' = pending - Cardinality(dead)
    /\ bytes' = bytes - SumOver(weight, dead)
    /\ UNCHANGED <<lastSeq, readyVars, slot, serial>>

Next ==
    \/ \E i \in Inputs, w \in Weights : \/ Enqueue(i, w)
                                        \/ EnqueueSteer(i, w)
                                        \/ DispatchReminder(i, w)
                                        \/ edit(i, w)
    \/ claim
    \/ \E interrupted \in BOOLEAN : finish(interrupted)
    \/ \E i \in Inputs : \/ remove(i)
                         \/ stageSteer(i)
                         \/ acknowledgeMainInputs(i)
                         \/ \E accepted, durable \in BOOLEAN : finishSteer(i, accepted, durable)
    \/ Restart

Spec == Init /\ [][Next]_vars

----------------------------------------
(* Properties. *)

\* Every column holds a value of its type; BytesExact says what bytes is.
TypeOK ==
    /\ row \in [Inputs -> Unsettled \cup Terminal \cup {"absent"}]
    /\ seq \in [Inputs -> Nat] /\ lastSeq \in Nat
    /\ weight \in [Inputs -> Nat]
    /\ ready \subseteq Sessions
    /\ position \in [Sessions -> Nat]
    /\ paused \in [Sessions -> {-1, 0, 1}]
    /\ slot \in Inputs \cup {None} /\ startupClaim \in Inputs \cup {None}
    /\ serial \in Nat /\ pending \in Int

\* The pending counter kept in the slot row is the number of unsettled inputs,
\* and stays within the limit: no order of claims, steers, removals,
\* acknowledgements and restarts leaks or double-frees capacity.
PendingExact ==
    /\ pending = Cardinality(InState(Unsettled))
    /\ pending <= MAIN_QUEUE_LIMIT

\* The byte counter is the sum over the rows, within its limit.
BytesExact ==
    /\ bytes = SumOver(weight, Inputs)
    /\ bytes <= MAIN_QUEUE_BYTES

\* The slot names the one input that is claimed or admitted.
SlotOwnsClaim == \A i \in Inputs : row[i] \in Owning <=> slot = i

\* No queued input is orphaned: its session is in the ready table, where claim
\* or a later resume finds it.
QueuedIsReady == \A i \in Inputs : row[i] = "queued" => SessionOf[i] \in ready

\* Two sessions never share a place in the rotation.
PositionsDistinct ==
    /\ \A s \in ready : 0 < position[s] /\ position[s] <= serial
    /\ \A s, t \in ready : position[s] = position[t] => s = t

\* The mark -1 hides a session from claim, and only finish of its own stale
\* claim takes it away: it never outlives that claim.
ResumeMarkHasOwner ==
    \A s \in Sessions : paused[s] = -1 =>
        /\ s \in ready
        /\ slot # None /\ slot = startupClaim /\ SessionOf[slot] = s

\* Slot, rotation and resume marks agree: what claim and finish rely on.
LedgerInv == SlotOwnsClaim /\ QueuedIsReady /\ PositionsDistinct /\ ResumeMarkHasOwner

\* hasReceipt answers true.
HasReceipt(i) == row[i] \notin {"absent", "steering", "rejected"}

\* A receipt once given is never withdrawn, in particular a promoted input
\* never becomes a rejected steer.
ReceiptIsStable == [][\A i \in Inputs : HasReceipt(i) => HasReceipt(i)']_vars

\* A settled outcome is final: no step revives or re-labels the input.
OutcomeIsFinal == [][\A i \in Inputs : row[i] \in Terminal => row'[i] = row[i]]_vars
==============================================================================
