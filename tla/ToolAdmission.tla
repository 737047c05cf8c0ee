---------------------------- MODULE ToolAdmission ----------------------------
(***************************************************************************)
(* Tool calls and container commands together: a tool holds a permit of    *)
(* the short tool pool while its command waits for a container slot and    *)
(* runs, the abort of a call reaches its command (and those of its nested  *)
(* calls) at once, and a stopped command may keep its slot after the tool  *)
(* returned.  Direct commands (the Web terminal) take slots without a      *)
(* permit.                                                                 *)
(***************************************************************************)
EXTENDS ShortToolPool, ContainerActivity

CONSTANT Direct

ASSUME DirectAssumption == Direct \cap Calls = {} /\ Commands = Calls \cup Direct

vars == <<poolVars, activityVars>>

Init == PoolInit /\ ActivityInit

\* A tool runs a command.
RunCommand(c) == call[c] = "executing" /\ admit(c) /\ UNCHANGED poolVars

CommandEnds(c) == ReleaseSlot(c) /\ UNCHANGED poolVars

\* The tool returns once its command is over, or was stopped and lingers.
ToolReturns(c) ==
    /\ command[c] \in {"idle", "running"}
    /\ Finish(c)
    /\ aborted' = aborted \ {c}
    /\ UNCHANGED <<command, inFlight, waiters, stopping, cooled, cutIn>>

\* The executing calls that see the signal of call c abort.
Reached(c) == {d \in Calls : call[d] = "executing" /\ (d = c \/ Parent[d] = c)}
AbortReaches(c) ==
    IF Reached(c) = {} THEN UNCHANGED activityVars ELSE AbortCommands(Reached(c))

CancelCall(c)   == Cancel(c) /\ AbortReaches(c)
DeadlinePasses(c) == ExecutionDeadline(c) /\ AbortReaches(c)

\* The wait for a slot used up the command's own timeout.
WaitExpires(c) ==
    /\ command[c] \in {"waiting", "onStop", "woken"}
    /\ AbortCommands({c})
    /\ UNCHANGED poolVars

PoolStep(c) == (Bypass(c) \/ acquire(c) \/ Resume(c) \/ QueueDeadline(c)) /\ UNCHANGED activityVars

DirectStep(d) == (admit(d) \/ AbortCommands({d}) \/ NewSignal(d)) /\ UNCHANGED poolVars

Next ==
    \/ \E c \in Calls : \/ PoolStep(c) \/ RunCommand(c) \/ ToolReturns(c)
                        \/ CancelCall(c) \/ DeadlinePasses(c)
    \/ \E c \in Commands : CommandEnds(c) \/ WaitExpires(c)
    \/ \E d \in Direct : DirectStep(d)
    \/ StoppingNext /\ UNCHANGED poolVars

Spec == Init /\ [][Next]_vars

AdmissionTypeOK == PoolTypeOK /\ ActivityTypeOK

\* Permits, waiters and container slots are counted exactly, no holder of one
\* waits for good, and stopping spares commands (short-tool-pool.ts,
\* container-activity.ts, edge-tools.ts).
AdmissionIsExact ==
    /\ AdmissionTypeOK /\ PermitsExact /\ HoldersCanFinish
    /\ SlotsExact /\ StopSparesCommands /\ WaiterHasWaker
==============================================================================
