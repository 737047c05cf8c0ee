--------------------------- MODULE SettlingProofs ---------------------------
(***************************************************************************)
(* Proofs about what runs in the background of a turn and has to settle,   *)
(* for every number of agents, every lineage of sessions and every limit:  *)
(* workflow runs, shell commands, the sweep of the storage, session        *)
(* archives and code programs.                                             *)
(***************************************************************************)
EXTENDS MCSettling, LineLemmas

----------------------------------------
(* The workflow run.  A slot belongs to the calls between acquireSlot and  *)
(* releaseSlot and calls wait in a line in which each stands once.  What a *)
(* call has answered and announced depends on how far it is; no start      *)
(* comes back between the handlers of an evaluation, which is why no agent *)
(* is announced after the result.                                          *)

SlotsCounted ==
    /\ IsFiniteSet(Holders) /\ activeSlots = Cardinality(Holders)
    /\ IsInjective(slotWaiters) /\ ToSet(slotWaiters) = {a \in Agents : call[a] = "queued"}
    /\ slotWaiters # <<>> => activeSlots = MaxConcurrentAgents /\ ~cancelled

\* The run has not evaluated anything.
Early == stage \in {"none", "created", "rejected", "unloaded"}
RunOK ==
    /\ Early => started = 0
    /\ stage \in {"none", "created"} => ~isolate
    /\ stage = "decided" => verdict # "none"
    /\ graceTimer => cancelled
    /\ RunIsOver => ~isolate
    /\ disposal = "quiet" => settled # "no"

CallOK(a) ==
    /\ Early => call[a] = "idle"
    /\ call[a] \in {"idle", "queued", "granted", "starting", "returned"} => event[a] = "none"
    /\ call[a] = "running" => event[a] \in {"started", "cancelled"}
    /\ call[a] \in {"leaving", "done"} => event[a] # "started"
    /\ call[a] \in {"leaving", "done"} <=> reply[a] # "none"
    /\ reply[a] = "value" => event[a] \in {"completed", "cancelled"}
    /\ reply[a] = "null" => event[a] \in {"failed", "cancelled"}
    /\ reply[a] = "CANCELLED" => RunIsOver
    /\ reply[a] = "AGENT_RESULT" => event[a] # "none"
    /\ call[a] = "returned" => settled = "no" /\ stage # "decided"
    /\ event[a] = "started" => settled = "no"
    /\ disposal = "quiet" => child[a] \notin {"registered", "disposing"} /\ call[a] # "starting"

SlotTypes ==
    /\ call \in [Agents -> {"idle", "queued", "granted", "starting", "returned", "running",
                            "leaving", "done"}]
    /\ activeSlots \in 0..MaxConcurrentAgents /\ slotWaiters \in Seq(Agents)
AgentTypes ==
    /\ structured \subseteq Agents
    /\ reply \in [Agents -> {"none", "value", "null"} \cup Codes]
    /\ child \in [Agents -> {"none", "registered", "disposing", "gone"}]
    /\ event \in [Agents -> {"none", "started", "completed", "failed", "cancelled"}]
CountTypes ==
    /\ cap \in 0..MaxTotalAgents /\ started \in 0..cap
    /\ progressEvents \in 0..MaxProgressEvents
RunTypes ==
    /\ stage \in {"none", "created", "evaluating", "rejected", "decided", "over", "unloaded"}
    /\ verdict \in {"none", "completed", "error", "cancelled"}
    /\ settled \in {"no", "completed", "error", "cancelled"}
    /\ disposal \in {"none", "waiting", "quiet", "timedOut"}
FlagTypes ==
    /\ isolate \in BOOLEAN /\ cancelled \in BOOLEAN
    /\ graceTimer \in BOOLEAN /\ childAbort \in BOOLEAN

\* The type invariant in the parts that steps touch apart.
LEMMA TypesSplit ==
    WorkflowTypeOK <=> SlotTypes /\ AgentTypes /\ CountTypes /\ RunTypes /\ FlagTypes
BY DEF WorkflowTypeOK, SlotTypes, AgentTypes, CountTypes, RunTypes, FlagTypes

WorkflowInv ==
    /\ SlotTypes /\ AgentTypes /\ CountTypes /\ RunTypes /\ FlagTypes
    /\ SlotsCounted /\ RunOK /\ \A a \in Agents : CallOK(a)

\* A new run has no calls and holds no slot.
LEMMA WorkflowStarts == WorkflowInit => WorkflowInv
<1> SUFFICES ASSUME WorkflowInit PROVE WorkflowInv OBVIOUS
<1> USE WorkflowLimits
<1>1. SlotTypes /\ AgentTypes /\ CountTypes /\ RunTypes /\ FlagTypes
  <2>1. <<>> \in Seq(Agents) /\ 0 \in 0..MaxConcurrentAgents BY EmptySeq
  <2>2. SlotTypes BY <2>1 DEF WorkflowInit, SlotTypes
  <2>3. AgentTypes BY DEF WorkflowInit, AgentTypes
  <2>4. CountTypes BY DEF WorkflowInit, CountTypes
  <2>5. RunTypes BY DEF WorkflowInit, RunTypes
  <2>6. FlagTypes BY DEF WorkflowInit, FlagTypes
  <2> QED BY <2>2, <2>3, <2>4, <2>5, <2>6
<1>2. SlotsCounted
  <2>1. Holders = {} BY DEF WorkflowInit, Holders
  <2>2. IsFiniteSet({}) /\ Cardinality({}) = 0 BY FS_EmptySet
  <2>3. slotWaiters = <<>> /\ DOMAIN <<>> = {} BY DEF WorkflowInit
  <2>4. IsInjective(slotWaiters) /\ ToSet(slotWaiters) = {} BY <2>3 DEF IsInjective, ToSet
  <2>5. {a \in Agents : call[a] = "queued"} = {} BY DEF WorkflowInit
  <2> QED BY <2>1, <2>2, <2>3, <2>4, <2>5 DEF WorkflowInit, SlotsCounted
<1>3. RunOK BY DEF WorkflowInit, RunOK, RunIsOver
<1>4. \A a \in Agents : CallOK(a) BY DEF WorkflowInit, CallOK, Early
<1> QED BY <1>1, <1>2, <1>3, <1>4 DEF WorkflowInv

----------------------------------------
(* The slots. *)

\* A released slot is free, or the first call in line holds it.
LEMMA SlotReleased ==
    ASSUME SlotTypes, SlotsCounted, NEW a \in Agents, releaseSlot(a)
    PROVE  SlotTypes' /\ SlotsCounted'
<1> USE WorkflowLimits
<1>1. SlotTypes /\ SlotsCounted OBVIOUS
<1>2. a \in Holders /\ call[a] # "queued" /\ IsFiniteSet(Holders)
  BY DEF Holders, SlotsCounted, releaseSlot, MayRelease
<1>0. cancelled' = cancelled BY DEF releaseSlot, runVars
<1>3. CASE slotWaiters = <<>>
  <2>1. /\ call' = [call EXCEPT ![a] = "done"] /\ activeSlots' = activeSlots - 1
        /\ slotWaiters' = slotWaiters
    BY <1>3 DEF releaseSlot
  <2>2. Holders' = Holders \ {a} BY <2>1, <1>1, <1>2 DEF Holders, SlotTypes
  <2>3. /\ IsFiniteSet(Holders \ {a}) /\ Cardinality(Holders \ {a}) = Cardinality(Holders) - 1
        /\ Cardinality(Holders) >= 1
    BY <1>2, CountMembers
  <2>4. {b \in Agents : call'[b] = "queued"} = {b \in Agents : call[b] = "queued"}
    BY <2>1, <1>1, <1>2 DEF SlotTypes
  <2>5. SlotTypes'
    <3>1. activeSlots >= 1 BY <2>3, <1>1 DEF SlotsCounted
    <3>2. call' \in [Agents -> {"idle", "queued", "granted", "starting", "returned", "running",
                               "leaving", "done"}]
      BY <2>1, <1>1 DEF SlotTypes
    <3>3. activeSlots' \in 0..MaxConcurrentAgents BY <3>1, <2>1, <1>1 DEF SlotTypes
    <3> QED BY <3>2, <3>3, <2>1, <1>1 DEF SlotTypes
  <2>6. SlotsCounted' BY <2>1, <2>2, <2>3, <2>4, <1>1, <1>3 DEF SlotsCounted
  <2> QED BY <2>5, <2>6
<1>4. CASE slotWaiters # <<>>
  <2> DEFINE h == Head(slotWaiters)
  <2>1. /\ slotWaiters' = Tail(slotWaiters) /\ activeSlots' = activeSlots
        /\ call' = [call EXCEPT ![a] = "done", ![h] = "granted"]
    BY <1>4 DEF releaseSlot
  <2>2. /\ h \in Agents /\ h \in ToSet(slotWaiters) /\ Tail(slotWaiters) \in Seq(Agents)
        /\ IsInjective(Tail(slotWaiters)) /\ ToSet(Tail(slotWaiters)) = ToSet(slotWaiters) \ {h}
    BY <1>4, <1>1, LeaveFront DEF SlotTypes, SlotsCounted
  <2>3. call[h] = "queued" /\ h # a BY <2>2, <1>1, <1>2 DEF SlotsCounted
  <2> HIDE DEF h
  <2>4. /\ call'[a] = "done" /\ call'[h] = "granted"
        /\ \A b \in Agents : b # a /\ b # h => call'[b] = call[b]
    BY <2>1, <2>2, <2>3, <1>1, <1>2 DEF SlotTypes
  <2>5. Holders' = (Holders \ {a}) \cup {h} /\ h \notin Holders
    BY <2>2, <2>3, <2>4, <1>2 DEF Holders
  <2>6. IsFiniteSet(Holders') /\ Cardinality(Holders') = Cardinality(Holders)
    BY <2>5, <1>2, CountMembers
  <2>7. {b \in Agents : call'[b] = "queued"} = {b \in Agents : call[b] = "queued"} \ {h}
    BY <2>3, <2>4, <1>2
  <2>8. SlotTypes' BY <2>1, <2>2, <1>1, <1>2 DEF SlotTypes
  <2>9. SlotsCounted' BY <2>1, <2>2, <2>6, <2>7, <1>0, <1>1, <1>4 DEF SlotsCounted
  <2> QED BY <2>8, <2>9
<1> QED BY <1>3, <1>4

\* A cancellation empties the line and leaves the slots with their calls.
LEMMA WaitersRejected ==
    ASSUME SlotTypes, SlotsCounted, RejectWaiters, UNCHANGED activeSlots
    PROVE  SlotTypes' /\ SlotsCounted'
<1>1. SlotTypes /\ SlotsCounted OBVIOUS
<1>2. /\ slotWaiters' = <<>>
      /\ \A b \in Agents : call'[b] = IF call[b] = "queued" THEN "done" ELSE call[b]
  BY <1>1 DEF RejectWaiters
<1>3. SlotTypes'
  <2>1. <<>> \in Seq(Agents) BY EmptySeq
  <2> QED BY <2>1, <1>1 DEF SlotTypes, RejectWaiters
<1>4. SlotsCounted'
  <2>1. Holders' = Holders BY <1>2 DEF Holders
  <2>2. {b \in Agents : call'[b] = "queued"} = {} BY <1>2
  <2>3. IsInjective(<<>>) /\ ToSet(<<>>) = {}
    <3>1. DOMAIN <<>> = {} OBVIOUS
    <3> QED BY <3>1 DEF IsInjective, ToSet
  <2> QED BY <2>1, <2>2, <2>3, <1>1, <1>2 DEF SlotsCounted
<1> QED BY <1>3, <1>4

\* The slots are as they were when no call moves and none waits for a
\* cancellation to reject it.
LEMMA SlotsStay ==
    ASSUME SlotTypes, SlotsCounted, UNCHANGED slotVars, cancelled' = cancelled \/ slotWaiters = <<>>
    PROVE  SlotTypes' /\ SlotsCounted'
<1>1. UNCHANGED <<call, activeSlots, slotWaiters>> BY DEF slotVars
<1>2. Holders' = Holders BY <1>1 DEF Holders
<1>3. SlotTypes' BY <1>1 DEF SlotTypes
<1>4. SlotsCounted' BY <1>1, <1>2 DEF SlotsCounted
<1> QED BY <1>3, <1>4

\* A call that keeps its slot leaves the slots as they are.
LEMMA SlotKept ==
    ASSUME SlotTypes, SlotsCounted, NEW a \in Holders, UNCHANGED <<activeSlots, slotWaiters, cancelled>>,
           NEW to \in {"starting", "returned", "running", "leaving"}, call' = [call EXCEPT ![a] = to]
    PROVE  SlotTypes' /\ SlotsCounted'
<1>1. SlotTypes /\ SlotsCounted OBVIOUS
<1>2. a \in Agents /\ call[a] # "queued" BY DEF Holders
<1>3. call'[a] = to /\ \A b \in Agents : b # a => call'[b] = call[b] BY <1>1, <1>2 DEF SlotTypes
<1>4. Holders' = Holders BY <1>2, <1>3 DEF Holders
<1>5. {b \in Agents : call'[b] = "queued"} = {b \in Agents : call[b] = "queued"} BY <1>2, <1>3
<1>6. SlotTypes' BY <1>1 DEF SlotTypes
<1>7. SlotsCounted' BY <1>1, <1>4, <1>5 DEF SlotsCounted
<1> QED BY <1>6, <1>7

\* A call is refused, gets a free slot, or joins the line.
LEMMA SlotAsked ==
    ASSUME SlotTypes, SlotsCounted, NEW a \in Agents, NEW req \in AgentRequests, agent(a, req)
    PROVE  SlotTypes' /\ SlotsCounted'
<1> USE WorkflowLimits
<1>1. SlotTypes /\ SlotsCounted OBVIOUS
<1>2. call[a] = "idle" /\ cancelled' = cancelled BY DEF agent, runVars
<1>3. a \notin Holders /\ a \notin ToSet(slotWaiters) BY <1>1, <1>2 DEF Holders, SlotsCounted
<1>4. \E to \in {"done", "granted", "queued"} : call' = [call EXCEPT ![a] = to]
  BY DEF agent, acquireSlot
<1>5. /\ call' \in [Agents -> {"idle", "queued", "granted", "starting", "returned", "running",
                               "leaving", "done"}]
      /\ call'[a] \in {"done", "granted", "queued"}
      /\ \A b \in Agents : b # a => call'[b] = call[b]
  BY <1>1, <1>4 DEF SlotTypes
<1>6. AgentRefusal(req) = "accepted" => ~cancelled BY DEF AgentRefusal, RunIsOver
<1>7. CASE AgentRefusal(req) # "accepted"
  <2>1. call' = [call EXCEPT ![a] = "done"] /\ UNCHANGED <<started, activeSlots, slotWaiters>>
    BY <1>7 DEF agent
  <2>2. Holders' = Holders BY <2>1, <1>1, <1>2 DEF Holders, SlotTypes
  <2>3. {b \in Agents : call'[b] = "queued"} = {b \in Agents : call[b] = "queued"}
    BY <2>1, <1>1, <1>2 DEF SlotTypes
  <2>4. SlotTypes' BY <2>1, <1>5, <1>1 DEF SlotTypes
  <2>5. SlotsCounted' BY <2>1, <2>2, <2>3, <1>1, <1>2 DEF SlotsCounted
  <2> QED BY <2>4, <2>5
<1>8. CASE AgentRefusal(req) = "accepted" /\ activeSlots < MaxConcurrentAgents
  <2>1. /\ call' = [call EXCEPT ![a] = "granted"] /\ activeSlots' = activeSlots + 1
        /\ slotWaiters' = slotWaiters
    BY <1>8 DEF agent, acquireSlot
  <2>2. Holders' = Holders \cup {a} BY <2>1, <1>1, <1>2 DEF Holders, SlotTypes
  <2>3. {b \in Agents : call'[b] = "queued"} = {b \in Agents : call[b] = "queued"}
    BY <2>1, <1>1, <1>2 DEF SlotTypes
  <2>4. activeSlots' \in 0..MaxConcurrentAgents BY <2>1, <1>8, <1>1 DEF SlotTypes
  <2>5. SlotTypes' BY <2>1, <2>4, <1>5, <1>1 DEF SlotTypes
  <2>6. /\ IsFiniteSet(Holders \cup {a})
        /\ Cardinality(Holders \cup {a}) = Cardinality(Holders) + 1
    BY <1>1, <1>3, CountMembers DEF SlotsCounted
  <2>7. slotWaiters = <<>> BY <1>8, <1>1 DEF SlotsCounted, SlotTypes
  <2>8. SlotsCounted' BY <2>1, <2>2, <2>3, <2>6, <2>7, <1>1 DEF SlotsCounted
  <2> QED BY <2>5, <2>8
<1>9. CASE AgentRefusal(req) = "accepted" /\ ~(activeSlots < MaxConcurrentAgents)
  <2>1. /\ call' = [call EXCEPT ![a] = "queued"] /\ slotWaiters' = Append(slotWaiters, a)
        /\ activeSlots' = activeSlots
    BY <1>9 DEF agent, acquireSlot
  <2>2. Holders' = Holders BY <2>1, <1>1, <1>2 DEF Holders, SlotTypes
  <2>3. {b \in Agents : call'[b] = "queued"} = {b \in Agents : call[b] = "queued"} \cup {a}
    BY <2>1, <1>1, <1>2 DEF SlotTypes
  <2>4. /\ slotWaiters' \in Seq(Agents) /\ IsInjective(slotWaiters')
        /\ ToSet(slotWaiters') = ToSet(slotWaiters) \cup {a}
    BY <2>1, <1>1, <1>3, JoinLine DEF SlotTypes, SlotsCounted
  <2>5. activeSlots = MaxConcurrentAgents /\ ~cancelled BY <1>9, <1>1, <1>6 DEF SlotTypes
  <2>6. SlotTypes' BY <2>1, <2>4, <1>5, <1>1 DEF SlotTypes
  <2>7. SlotsCounted' BY <2>1, <2>2, <2>3, <2>4, <2>5, <1>1, <1>2 DEF SlotsCounted
  <2> QED BY <2>6, <2>7
<1> QED BY <1>7, <1>8, <1>9

\* Which step is taken: the disjuncts of WorkflowNext by what they do to the slots.
RunStep ==
    \/ \E req \in StartRequests, already \in BOOLEAN : start(req, already)
    \/ beginCancelled \/ \E loads \in BOOLEAN : begin(loads)
    \/ \E shape \in {"plain", "notPlain", "tooLarge", "thrown"} : Evaluated(shape)
    \/ finish \/ GraceExpires \/ DisposeResolves \/ DisposeExpires
    \/ \E hook \in {"phase", "log"}, arg \in {"text", "empty", "other"} : Progress(hook, arg)
Results == {"text", "structured", "tooLarge", "other", "rejected"}
CallStep(a) ==
    \/ startChild(a) \/ agentStart(a)
    \/ stage # "decided" /\ (ChildStarts(a) \/ StartFails(a) \/ \E given \in Results : ChildEnds(a, given))
GoneStep(a) == stage # "decided" /\ ChildDisposed(a)

\* Every step is one of these.
LEMMA StepsAre ==
    ASSUME WorkflowNext
    PROVE  \/ RunStep \/ cancel \/ dispose
           \/ \E a \in Agents : \/ \E req \in AgentRequests : agent(a, req)
                                \/ CallStep(a) \/ releaseSlot(a) \/ GoneStep(a)
BY DEF WorkflowNext, RunStep, CallStep, GoneStep, Results

\* No step loses or doubles a slot.
LEMMA SlotsKept == ASSUME WorkflowInv, [WorkflowNext]_workflowVars PROVE SlotTypes' /\ SlotsCounted'
<1>1. SlotTypes /\ SlotsCounted BY DEF WorkflowInv
<1>2. CASE RunStep
  <2>1. UNCHANGED slotVars
    BY <1>2 DEF RunStep, start, beginCancelled, begin, Evaluated, finish, GraceExpires,
      DisposeResolves, DisposeExpires, Progress, callVars
  <2>2. cancelled' = cancelled \/ slotWaiters = <<>>
    <3>1. CASE stage = "none"
      <4>1. \A a \in Agents : call[a] = "idle" BY <3>1 DEF WorkflowInv, CallOK, Early
      <4>2. ToSet(slotWaiters) = {} /\ slotWaiters \in Seq(Agents) /\ IsInjective(slotWaiters)
        BY <4>1, <1>1 DEF SlotsCounted, SlotTypes
      <4> QED BY <4>2, LeaveFront
    <3>2. CASE stage # "none"
      BY <1>2, <3>2 DEF RunStep, start, beginCancelled, begin, Evaluated, finish, GraceExpires,
        DisposeResolves, DisposeExpires, Progress, runVars
    <3> QED BY <3>1, <3>2
  <2> QED BY <1>1, <2>1, <2>2, SlotsStay
<1>3. CASE cancel \/ dispose
  <2>1. activeSlots' = activeSlots BY <1>3 DEF cancel, dispose
  <2>2. RejectWaiters \/ UNCHANGED <<cancelled, slotVars>>
    BY <1>3, <2>1 DEF cancel, dispose, cancelRun, slotVars
  <2> QED BY <1>1, <2>1, <2>2, WaitersRejected, SlotsStay
<1>4. CASE \E a \in Agents, req \in AgentRequests : agent(a, req) BY <1>1, <1>4, SlotAsked
<1>5. ASSUME NEW a \in Agents, CallStep(a) PROVE SlotTypes' /\ SlotsCounted'
  <2>1. a \in Holders
    BY <1>5 DEF CallStep, startChild, agentStart, ChildStarts, StartFails, ChildEnds, Holders
  <2>2. \E to \in {"starting", "returned", "running", "leaving"} : call' = [call EXCEPT ![a] = to]
    BY <1>5 DEF CallStep, startChild, agentStart, ChildStarts, StartFails, ChildEnds
  <2>3. UNCHANGED <<activeSlots, slotWaiters, cancelled>>
    BY <1>5 DEF CallStep, startChild, agentStart, ChildStarts, StartFails, ChildEnds, runVars
  <2> QED BY <1>1, <2>1, <2>2, <2>3, SlotKept
<1>6. CASE \E a \in Agents : releaseSlot(a) BY <1>1, <1>6, SlotReleased
<1>7. CASE (\E a \in Agents : GoneStep(a)) \/ UNCHANGED workflowVars
  <2>1. UNCHANGED <<cancelled, slotVars>>
    BY <1>7 DEF GoneStep, ChildDisposed, workflowVars, runVars, callVars
  <2> QED BY <1>1, <2>1, SlotsStay
<1> QED BY <1>2, <1>3, <1>4, <1>5, <1>6, <1>7, StepsAre

----------------------------------------
(* The types. *)

\* The flags and the stages of the run.
LEMMA RunTyped == ASSUME WorkflowInv, [WorkflowNext]_workflowVars PROVE RunTypes' /\ FlagTypes'
<1>1. RunTypes /\ FlagTypes /\ RunOK BY DEF WorkflowInv
<1>2. CASE \E req \in StartRequests, already \in BOOLEAN : start(req, already)
  <2>1. RunTypes' BY <1>1, <1>2 DEF start, RunTypes
  <2>2. FlagTypes' BY <1>1, <1>2 DEF start, FlagTypes
  <2> QED BY <2>1, <2>2
<1>3. CASE beginCancelled \/ \E loads \in BOOLEAN : begin(loads)
  <2>1. RunTypes' BY <1>1, <1>3 DEF beginCancelled, begin, settle, RunTypes
  <2>2. FlagTypes' BY <1>1, <1>3 DEF beginCancelled, begin, settle, FlagTypes
  <2> QED BY <2>1, <2>2
<1>4. CASE \E shape \in {"plain", "notPlain", "tooLarge", "thrown"} : Evaluated(shape)
  <2>1. RunTypes' BY <1>1, <1>4 DEF Evaluated, RunTypes
  <2>2. FlagTypes' BY <1>1, <1>4 DEF Evaluated, FlagTypes
  <2> QED BY <2>1, <2>2
<1>5. CASE finish \/ GraceExpires
  <2>1. RunTypes' BY <1>1, <1>5 DEF finish, GraceExpires, settle, RunTypes, RunOK
  <2>2. FlagTypes' BY <1>1, <1>5 DEF finish, GraceExpires, settle, reapChildren, FlagTypes
  <2> QED BY <2>1, <2>2
<1>6. CASE DisposeResolves \/ DisposeExpires
  <2>1. RunTypes' BY <1>1, <1>6 DEF DisposeResolves, DisposeExpires, RunTypes
  <2>2. FlagTypes' BY <1>1, <1>6 DEF DisposeResolves, DisposeExpires, reapChildren, FlagTypes
  <2> QED BY <2>1, <2>2
<1>7. CASE cancel \/ dispose
  <2>1. RunTypes' BY <1>1, <1>7 DEF cancel, dispose, RunTypes
  <2>2. FlagTypes' BY <1>1, <1>7 DEF cancel, dispose, cancelRun, reapChildren, FlagTypes
  <2> QED BY <2>1, <2>2
<1>8. CASE UNCHANGED <<runVars, disposal>> BY <1>1, <1>8 DEF runVars, RunTypes, FlagTypes
<1>9. ASSUME NEW a \in Agents,
             \/ \E req \in AgentRequests : agent(a, req)
             \/ CallStep(a) \/ releaseSlot(a) \/ GoneStep(a)
      PROVE  UNCHANGED <<runVars, disposal>>
  BY <1>9 DEF agent, CallStep, startChild, agentStart, ChildStarts, StartFails, ChildEnds,
    releaseSlot, GoneStep, ChildDisposed
<1>10. CASE \/ \E hook \in {"phase", "log"}, arg \in {"text", "empty", "other"} : Progress(hook, arg)
            \/ UNCHANGED workflowVars
  <2>1. UNCHANGED <<runVars, disposal>> BY <1>10 DEF Progress, workflowVars
  <2> QED BY <2>1, <1>8
<1> QED BY <1>2, <1>3, <1>4, <1>5, <1>6, <1>7, <1>8, <1>9, <1>10, StepsAre DEF RunStep

\* The counters and their caps.
LEMMA CountsTyped == ASSUME WorkflowInv, [WorkflowNext]_workflowVars PROVE CountTypes'
<1> USE WorkflowLimits
<1>1. CountTypes /\ RunOK BY DEF WorkflowInv
<1>2. ASSUME NEW req \in StartRequests, NEW already \in BOOLEAN, start(req, already) PROVE CountTypes'
  <2>1. started = 0 /\ UNCHANGED <<started, progressEvents>>
    BY <1>1, <1>2 DEF RunOK, Early, start, callVars
  <2>2. cap' = resolveMaxTotalAgents(req.cap) /\ capIsAdmissible(req.cap)
    BY <1>2 DEF start, Admissible
  <2>3. cap' \in 0..MaxTotalAgents BY <2>2 DEF resolveMaxTotalAgents, capIsAdmissible, Unasked
  <2> QED BY <1>1, <2>1, <2>3 DEF CountTypes
<1>3. ASSUME NEW a \in Agents, NEW req \in AgentRequests, agent(a, req) PROVE CountTypes'
  <2>1. AgentRefusal(req) = "accepted" => ~(started >= cap) BY DEF AgentRefusal
  <2>2. /\ UNCHANGED <<cap, progressEvents>>
        /\ started' = started \/ (~(started >= cap) /\ started' = started + 1)
    BY <1>3, <2>1 DEF agent, runVars
  <2> QED BY <1>1, <2>2 DEF CountTypes
<1>4. ASSUME NEW hook, NEW arg, Progress(hook, arg) PROVE CountTypes'
  <2>1. /\ UNCHANGED <<cap, started>>
        /\ progressEvents < MaxProgressEvents /\ progressEvents' = progressEvents + 1
    BY <1>4 DEF Progress, runVars, callVars
  <2> QED BY <1>1, <2>1 DEF CountTypes
<1>5. CASE UNCHANGED <<cap, started, progressEvents>> BY <1>1, <1>5 DEF CountTypes
<1>6. CASE \/ beginCancelled \/ \E loads \in BOOLEAN : begin(loads)
           \/ \E shape \in {"plain", "notPlain", "tooLarge", "thrown"} : Evaluated(shape)
           \/ finish \/ GraceExpires \/ DisposeResolves \/ DisposeExpires \/ cancel \/ dispose
           \/ UNCHANGED workflowVars
  <2>1. UNCHANGED <<cap, started, progressEvents>>
    BY <1>6 DEF beginCancelled, begin, Evaluated, finish, GraceExpires, DisposeResolves,
      DisposeExpires, cancel, dispose, callVars, workflowVars, runVars
  <2> QED BY <2>1, <1>5
<1>7. ASSUME NEW a \in Agents, CallStep(a) \/ releaseSlot(a) \/ GoneStep(a)
      PROVE  UNCHANGED <<cap, started, progressEvents>>
  BY <1>7 DEF CallStep, startChild, agentStart, ChildStarts, StartFails, ChildEnds, releaseSlot,
    GoneStep, ChildDisposed, runVars
<1> QED BY <1>2, <1>3, <1>4, <1>5, <1>6, <1>7, StepsAre DEF RunStep

\* The codes of a refusal.
LEMMA RefusalIs ==
    ASSUME NEW req
    PROVE  /\ AgentRefusal(req) \in {"accepted", "CANCELLED", "INVALID_ARGUMENT", "UNSUPPORTED_OPTION",
                                     "UNSUPPORTED_SCHEMA", "AGENT_CAP"}
           /\ AgentRefusal(req) = "CANCELLED" => RunIsOver
<1>1. readAgentOptions(req.opts) \in {"accepted", "INVALID_ARGUMENT", "UNSUPPORTED_OPTION", "UNSUPPORTED_SCHEMA"}
  <2>1. CASE req.opts.shape = "absent" BY <2>1 DEF readAgentOptions
  <2>2. CASE req.opts.shape = "object" BY <2>2 DEF readAgentOptions
  <2>3. CASE req.opts.shape \notin {"absent", "object"} BY <2>3 DEF readAgentOptions
  <2> QED BY <2>1, <2>2, <2>3
<1> QED BY <1>1 DEF AgentRefusal

\* The codes a child's end gives.
LEMMA EndIs ==
    ASSUME NEW a \in Agents, NEW given \in Results
    PROVE  /\ Outcome(a, given) \in {"completed", "failed", "cancelled"}
           /\ ReplyTo(a, given) \in {"value", "null", "CANCELLED", "AGENT_RESULT"}
           /\ ReplyTo(a, given) = "value" => Outcome(a, given) = "completed"
           /\ ReplyTo(a, given) = "null" => Outcome(a, given) = "failed"
           /\ ReplyTo(a, given) = "CANCELLED" => cancelled
BY DEF Results, Outcome, ReplyTo, Unstructured

\* What is kept of each agent.
LEMMA AgentsTyped == ASSUME WorkflowInv, [WorkflowNext]_workflowVars PROVE AgentTypes'
<1>1. AgentTypes BY DEF WorkflowInv
<1>2. CASE UNCHANGED <<structured, reply, child, event>> BY <1>1, <1>2 DEF AgentTypes
<1>3. CASE \/ \E req \in StartRequests, already \in BOOLEAN : start(req, already)
           \/ beginCancelled \/ \E loads \in BOOLEAN : begin(loads)
           \/ \E shape \in {"plain", "notPlain", "tooLarge", "thrown"} : Evaluated(shape)
           \/ \E hook \in {"phase", "log"}, arg \in {"text", "empty", "other"} : Progress(hook, arg)
           \/ \E a \in Agents : releaseSlot(a)
           \/ UNCHANGED workflowVars
  <2>1. UNCHANGED <<structured, reply, child, event>>
    BY <1>3 DEF start, beginCancelled, begin, Evaluated, Progress, releaseSlot, callVars, workflowVars
  <2> QED BY <2>1, <1>2
<1>4. CASE finish \/ GraceExpires \/ DisposeResolves \/ DisposeExpires \/ cancel \/ dispose
  <2>1. structured' = structured /\ (event' = event \/ event' = endAgents(Agents, "cancelled"))
    BY <1>4 DEF finish, GraceExpires, DisposeResolves, DisposeExpires, cancel, dispose, endStrandedAgents
  <2>2. child' = child \/ child' = disposeChildren(Agents)
    BY <1>4 DEF finish, GraceExpires, DisposeResolves, DisposeExpires, cancel, dispose, reapChildren
  <2>3. reply' = reply \/ RejectWaiters
    BY <1>4 DEF finish, GraceExpires, DisposeResolves, DisposeExpires, cancel, dispose, cancelRun
  <2>4. event' \in [Agents -> {"none", "started", "completed", "failed", "cancelled"}]
    BY <1>1, <2>1 DEF endAgents, AgentTypes
  <2>5. child' \in [Agents -> {"none", "registered", "disposing", "gone"}]
    BY <1>1, <2>2 DEF disposeChildren, AgentTypes
  <2>6. reply' \in [Agents -> {"none", "value", "null"} \cup Codes]
    BY <1>1, <2>3 DEF RejectWaiters, AgentTypes, Codes
  <2> QED BY <1>1, <2>1, <2>4, <2>5, <2>6 DEF AgentTypes
<1>5. ASSUME NEW a \in Agents, NEW req \in AgentRequests, agent(a, req) PROVE AgentTypes'
  <2>1. UNCHANGED <<child, event>> /\ structured' \in {structured, structured \cup {a}}
    BY <1>5 DEF agent
  <2>2. reply' = reply \/ (AgentRefusal(req) # "accepted" /\ reply' = [reply EXCEPT ![a] = AgentRefusal(req)])
    BY <1>5 DEF agent
  <2>3. reply' \in [Agents -> {"none", "value", "null"} \cup Codes]
    BY <1>1, <2>2, RefusalIs DEF AgentTypes, Codes
  <2> QED BY <1>1, <2>1, <2>3 DEF AgentTypes
<1>6. ASSUME NEW a \in Agents, startChild(a) \/ agentStart(a) \/ ChildStarts(a) \/ StartFails(a)
      PROVE  AgentTypes'
  <2>1. /\ structured' = structured
        /\ event' = event \/ event' = [event EXCEPT ![a] = "started"]
        /\ \/ child' = child
           \/ child' = [child EXCEPT ![a] = "disposing"] \/ child' = [child EXCEPT ![a] = "registered"]
    BY <1>6 DEF startChild, agentStart, ChildStarts, StartFails
  <2>2. \/ reply' = reply
        \/ \E r \in {"CANCELLED", "AGENT_START"} : reply' = [reply EXCEPT ![a] = r]
    BY <1>6 DEF startChild, agentStart, ChildStarts, StartFails
  <2>3. reply' \in [Agents -> {"none", "value", "null"} \cup Codes]
    BY <1>1, <2>2 DEF AgentTypes, Codes
  <2>4. /\ event' \in [Agents -> {"none", "started", "completed", "failed", "cancelled"}]
        /\ child' \in [Agents -> {"none", "registered", "disposing", "gone"}]
    BY <1>1, <2>1 DEF AgentTypes
  <2> QED BY <1>1, <2>1, <2>3, <2>4 DEF AgentTypes
<1>7. ASSUME NEW a \in Agents, NEW given \in Results, ChildEnds(a, given) PROVE AgentTypes'
  <2>1. /\ structured' = structured /\ event' = endAgents({a}, Outcome(a, given))
        /\ child' = disposeChildren({a}) /\ reply' = [reply EXCEPT ![a] = ReplyTo(a, given)]
    BY <1>7 DEF ChildEnds
  <2>2. reply' \in [Agents -> {"none", "value", "null"} \cup Codes]
    BY <1>1, <2>1, EndIs DEF AgentTypes, Codes
  <2>3. event' \in [Agents -> {"none", "started", "completed", "failed", "cancelled"}]
    BY <1>1, <2>1, EndIs DEF AgentTypes, endAgents
  <2>4. child' \in [Agents -> {"none", "registered", "disposing", "gone"}]
    BY <1>1, <2>1 DEF AgentTypes, disposeChildren
  <2> QED BY <1>1, <2>1, <2>2, <2>3, <2>4 DEF AgentTypes
<1>8. ASSUME NEW a \in Agents, GoneStep(a) PROVE AgentTypes'
  BY <1>1, <1>8 DEF GoneStep, ChildDisposed, AgentTypes
<1> QED BY <1>2, <1>3, <1>4, <1>5, <1>6, <1>7, <1>8, StepsAre DEF RunStep, CallStep

----------------------------------------
(* The run and its calls. *)

\* What the stages of the run say of its counter, isolate and timer.
LEMMA RunKept == ASSUME WorkflowInv, [WorkflowNext]_workflowVars PROVE RunOK'
<1>1. RunOK /\ RunTypes /\ FlagTypes BY DEF WorkflowInv
<1>2. CASE \E req \in StartRequests, already \in BOOLEAN : start(req, already)
  BY <1>1, <1>2 DEF start, callVars, RunOK, RunIsOver, Early
<1>3. CASE beginCancelled \/ \E loads \in BOOLEAN : begin(loads)
  BY <1>1, <1>3 DEF beginCancelled, begin, settle, callVars, RunOK, RunIsOver, Early
<1>4. CASE \E shape \in {"plain", "notPlain", "tooLarge", "thrown"} : Evaluated(shape)
  BY <1>1, <1>4 DEF Evaluated, callVars, RunOK, RunIsOver, Early
<1>5. CASE finish \/ GraceExpires
  <2>1. settled' # "no" /\ graceTimer' = FALSE /\ started' = started /\ disposal' = disposal
    BY <1>1, <1>5 DEF finish, GraceExpires, settle, RunTypes, RunOK
  <2>2. (stage' = stage \/ stage' = "over") /\ isolate' = FALSE /\ (stage' = stage => verdict' = verdict)
    BY <1>1, <1>5 DEF finish, GraceExpires, RunOK, RunIsOver, FlagTypes
  <2> QED BY <1>1, <2>1, <2>2 DEF RunOK, Early
<1>6. CASE DisposeResolves \/ DisposeExpires
  BY <1>1, <1>6 DEF DisposeResolves, DisposeExpires, MayResolve, RunOK, RunIsOver, Early
<1>7. CASE cancel \/ dispose
  <2>1. /\ UNCHANGED <<stage, verdict, settled, started>>
        /\ disposal' = disposal \/ disposal' = "waiting"
        /\ \/ UNCHANGED <<isolate, cancelled, graceTimer>>
           \/ isolate' = FALSE /\ cancelled' = TRUE
    BY <1>7 DEF cancel, dispose, cancelRun
  <2> QED BY <1>1, <2>1 DEF RunOK, RunIsOver, Early
<1>8. ASSUME UNCHANGED <<runVars, disposal>>, started' = started \/ ~Early PROVE RunOK'
  <2>1. UNCHANGED <<stage, verdict, isolate, settled, cancelled, graceTimer>> BY <1>8 DEF runVars
  <2> QED BY <1>1, <1>8, <2>1 DEF RunOK, RunIsOver, Early
<1>9. CASE \/ \E hook \in {"phase", "log"}, arg \in {"text", "empty", "other"} : Progress(hook, arg)
           \/ UNCHANGED workflowVars
  <2>1. UNCHANGED <<runVars, disposal, started>> BY <1>9 DEF Progress, workflowVars, callVars
  <2> QED BY <1>8, <2>1
<1>10. ASSUME NEW a \in Agents, NEW req \in AgentRequests, agent(a, req) PROVE RunOK'
  <2>1. ~Early /\ UNCHANGED <<runVars, disposal>> BY <1>10 DEF agent, Early
  <2> QED BY <1>8, <2>1
<1>11. ASSUME NEW a \in Agents, CallStep(a) \/ releaseSlot(a) \/ GoneStep(a) PROVE RunOK'
  <2>1. UNCHANGED <<runVars, disposal, started>>
    BY <1>11 DEF CallStep, startChild, agentStart, ChildStarts, StartFails, ChildEnds,
      releaseSlot, GoneStep, ChildDisposed
  <2> QED BY <1>8, <2>1
<1> QED BY <1>2, <1>3, <1>4, <1>5, <1>6, <1>7, <1>9, <1>10, <1>11, StepsAre DEF RunStep

\* A call nothing happens to stays as it should be.
LEMMA CallStays ==
    ASSUME NEW b \in Agents, CallOK(b),
           call'[b] = call[b], reply'[b] = reply[b], event'[b] = event[b], child'[b] = child[b],
           Early' => Early, RunIsOver' \/ ~RunIsOver \/ reply[b] = "none",
           settled' = settled \/ (call[b] # "returned" /\ event[b] # "started"),
           stage' # "decided" \/ stage = "decided" \/ call[b] # "returned",
           disposal' = disposal \/ disposal' # "quiet"
    PROVE  CallOK(b)'
<1>1. /\ Early' => call'[b] = "idle"
      /\ call'[b] \in {"idle", "queued", "granted", "starting", "returned"} => event'[b] = "none"
      /\ call'[b] = "running" => event'[b] \in {"started", "cancelled"}
      /\ call'[b] \in {"leaving", "done"} => event'[b] # "started"
      /\ call'[b] \in {"leaving", "done"} <=> reply'[b] # "none"
  BY DEF CallOK
<1>2. /\ reply'[b] = "value" => event'[b] \in {"completed", "cancelled"}
      /\ reply'[b] = "null" => event'[b] \in {"failed", "cancelled"}
      /\ reply'[b] = "CANCELLED" => RunIsOver'
      /\ reply'[b] = "AGENT_RESULT" => event'[b] # "none"
  BY DEF CallOK
<1>3. /\ call'[b] = "returned" => settled' = "no" /\ stage' # "decided"
      /\ event'[b] = "started" => settled' = "no"
      /\ disposal' = "quiet" => child'[b] \notin {"registered", "disposing"} /\ call'[b] # "starting"
  BY DEF CallOK
<1> QED BY <1>1, <1>2, <1>3 DEF CallOK

\* The first steps of a run find no call, and no call returns from startChild
\* between the handlers of the evaluation.
LEMMA RunStarts ==
    ASSUME WorkflowInv, NEW b \in Agents,
           \/ \E req \in StartRequests, already \in BOOLEAN : start(req, already)
           \/ beginCancelled \/ \E loads \in BOOLEAN : begin(loads)
           \/ \E shape \in {"plain", "notPlain", "tooLarge", "thrown"} : Evaluated(shape)
           \/ \E hook \in {"phase", "log"}, arg \in {"text", "empty", "other"} : Progress(hook, arg)
           \/ DisposeExpires \/ UNCHANGED workflowVars
    PROVE  CallOK(b)'
<1>1. CallOK(b) /\ RunTypes /\ AgentTypes BY DEF WorkflowInv
<1>2. CASE \/ \E req \in StartRequests, already \in BOOLEAN : start(req, already)
           \/ beginCancelled \/ \E loads \in BOOLEAN : begin(loads)
  <2>1. call[b] = "idle" /\ event[b] = "none" /\ Early
    BY <1>1, <1>2 DEF start, beginCancelled, begin, Early, CallOK
  <2>2. UNCHANGED <<call, reply, event, child, disposal>> /\ stage' # "decided"
    BY <1>2 DEF start, beginCancelled, begin, callVars, slotVars
  <2>3. reply[b] = "none" BY <1>1, <2>1 DEF CallOK
  <2> QED BY <1>1, <2>1, <2>2, <2>3, CallStays
<1>3. CASE \E shape \in {"plain", "notPlain", "tooLarge", "thrown"} : Evaluated(shape)
  <2>1. call[b] # "returned" BY <1>1, <1>3 DEF Evaluated, HopPending, CallOK, Early
  <2>2. UNCHANGED <<call, reply, event, child, disposal, settled, cancelled>> /\ stage' = "decided"
    BY <1>3 DEF Evaluated, callVars, slotVars
  <2>3. ~Early' /\ RunIsOver' = RunIsOver BY <2>2 DEF Early, RunIsOver
  <2> QED BY <1>1, <2>1, <2>2, <2>3, CallStays
<1>4. CASE \/ \E hook \in {"phase", "log"}, arg \in {"text", "empty", "other"} : Progress(hook, arg)
           \/ DisposeExpires \/ UNCHANGED workflowVars
  <2>1. /\ call'[b] = call[b] /\ reply'[b] = reply[b] /\ event'[b] = event[b]
        /\ UNCHANGED <<stage, settled, cancelled>>
    BY <1>4 DEF Progress, DisposeExpires, workflowVars, runVars, callVars, slotVars
  <2>2. disposal' = disposal \/ disposal' = "timedOut"
    BY <1>4 DEF Progress, DisposeExpires, workflowVars
  <2>3. RunIsOver' = RunIsOver /\ Early' = Early BY <2>1 DEF RunIsOver, Early
  <2>4. CASE DisposeExpires
    <3>1. disposal' = "timedOut" BY <2>4 DEF DisposeExpires
    <3> QED BY <1>1, <2>1, <2>3, <3>1 DEF CallOK
  <2>5. CASE ~DisposeExpires
    <3>1. child'[b] = child[b] BY <1>4, <2>5 DEF Progress, workflowVars, callVars
    <3> QED BY <1>1, <2>1, <2>2, <2>3, <3>1, CallStays
  <2> QED BY <2>4, <2>5
<1> QED BY <1>2, <1>3, <1>4

\* The end of a run ends the agents that were announced; a call whose start
\* is under way is not announced after it.
LEMMA RunEnds == ASSUME WorkflowInv, NEW b \in Agents, finish \/ GraceExpires \/ DisposeResolves PROVE CallOK(b)'
<1>1. CallOK(b) /\ RunOK /\ RunTypes /\ AgentTypes BY DEF WorkflowInv
<1>2. call'[b] = call[b] /\ reply'[b] = reply[b] /\ (Early' => Early)
  BY DEF finish, GraceExpires, DisposeResolves, slotVars, Early
<1>3. CASE finish \/ GraceExpires
  <2>1. event'[b] = IF event[b] = "started" THEN "cancelled" ELSE event[b]
    BY <1>3 DEF finish, GraceExpires, endStrandedAgents, endAgents
  <2>2. child'[b] = IF child[b] = "registered" THEN "disposing" ELSE child[b]
    BY <1>3 DEF finish, GraceExpires, reapChildren, disposeChildren
  <2>3. settled' # "no" /\ disposal' = disposal
    BY <1>1, <1>3 DEF finish, GraceExpires, settle, RunTypes, RunOK
  <2>4. call[b] # "returned" BY <1>1, <1>3 DEF finish, GraceExpires, HopPending, CallOK
  <2>5. RunIsOver' BY <2>3 DEF RunIsOver
  <2>6. /\ Early' => call'[b] = "idle"
        /\ call'[b] \in {"idle", "queued", "granted", "starting", "returned"} => event'[b] = "none"
        /\ call'[b] = "running" => event'[b] \in {"started", "cancelled"}
        /\ call'[b] \in {"leaving", "done"} => event'[b] # "started"
        /\ call'[b] \in {"leaving", "done"} <=> reply'[b] # "none"
    BY <1>1, <1>2, <2>1 DEF CallOK
  <2>7. /\ reply'[b] = "value" => event'[b] \in {"completed", "cancelled"}
        /\ reply'[b] = "null" => event'[b] \in {"failed", "cancelled"}
        /\ reply'[b] = "AGENT_RESULT" => event'[b] # "none"
    BY <1>1, <1>2, <2>1 DEF CallOK
  <2>8. /\ call'[b] # "returned" /\ event'[b] # "started"
        /\ disposal' = "quiet" => child'[b] \notin {"registered", "disposing"} /\ call'[b] # "starting"
    BY <1>1, <1>2, <2>1, <2>2, <2>3, <2>4 DEF CallOK
  <2> QED BY <2>5, <2>6, <2>7, <2>8 DEF CallOK
<1>4. CASE DisposeResolves
  <2>1. child[b] \notin {"registered", "disposing"} /\ call[b] # "starting"
    BY <1>4 DEF DisposeResolves, MayResolve, Quiet, Children, PendingStarts
  <2>2. child'[b] = child[b] BY <1>4, <2>1 DEF DisposeResolves, reapChildren, disposeChildren
  <2>3. event'[b] = event[b] /\ UNCHANGED <<stage, settled, cancelled>> BY <1>4 DEF DisposeResolves
  <2>4. RunIsOver' = RunIsOver BY <2>3 DEF RunIsOver
  <2> QED BY <1>1, <1>2, <2>1, <2>2, <2>3, <2>4 DEF CallOK
<1> QED BY <1>3, <1>4

\* A cancellation answers the calls that wait for a slot.
LEMMA RunCancelled == ASSUME WorkflowInv, NEW b \in Agents, cancel \/ dispose PROVE CallOK(b)'
<1>1. CallOK(b) /\ AgentTypes BY DEF WorkflowInv
<1>2. event'[b] = event[b] /\ UNCHANGED <<stage, settled>> BY DEF cancel, dispose
<1>3. CASE cancelRun
  <2>1. /\ call'[b] = IF call[b] = "queued" THEN "done" ELSE call[b]
        /\ reply'[b] = IF call[b] = "queued" THEN "CANCELLED" ELSE reply[b]
        /\ RunIsOver'
    BY <1>3 DEF cancelRun, RejectWaiters, RunIsOver
  <2>2. disposal' = "quiet" => disposal = "quiet" /\ child'[b] = child[b] BY DEF cancel, dispose
  <2>3. /\ Early' => call'[b] = "idle"
        /\ call'[b] \in {"idle", "queued", "granted", "starting", "returned"} => event'[b] = "none"
        /\ call'[b] = "running" => event'[b] \in {"started", "cancelled"}
        /\ call'[b] \in {"leaving", "done"} => event'[b] # "started"
        /\ call'[b] \in {"leaving", "done"} <=> reply'[b] # "none"
    BY <1>1, <1>2, <2>1 DEF CallOK, Early
  <2>4. /\ reply'[b] = "value" => event'[b] \in {"completed", "cancelled"}
        /\ reply'[b] = "null" => event'[b] \in {"failed", "cancelled"}
        /\ reply'[b] = "AGENT_RESULT" => event'[b] # "none"
    BY <1>1, <1>2, <2>1 DEF CallOK
  <2>5. /\ call'[b] = "returned" => settled' = "no" /\ stage' # "decided"
        /\ event'[b] = "started" => settled' = "no"
        /\ disposal' = "quiet" => child'[b] \notin {"registered", "disposing"} /\ call'[b] # "starting"
    BY <1>1, <1>2, <2>1, <2>2 DEF CallOK
  <2> QED BY <2>1, <2>3, <2>4, <2>5 DEF CallOK
<1>4. CASE dispose /\ UNCHANGED <<cancelled, call, reply>>
  <2>1. disposal' = "waiting" BY <1>4 DEF dispose
  <2>2. RunIsOver' = RunIsOver /\ Early' = Early BY <1>2, <1>4 DEF RunIsOver, Early
  <2> QED BY <1>1, <1>2, <1>4, <2>1, <2>2 DEF CallOK
<1> QED BY <1>3, <1>4 DEF cancel, dispose

\* What the bridge call answers, or that it goes on.
LEMMA CallAsked ==
    ASSUME WorkflowInv, NEW a \in Agents, NEW req \in AgentRequests, agent(a, req), NEW b \in Agents
    PROVE  CallOK(b)'
<1>1. CallOK(b) /\ RunOK /\ SlotTypes /\ AgentTypes BY DEF WorkflowInv
<1>2. /\ call[a] = "idle" /\ ~Early
      /\ UNCHANGED <<stage, settled, cancelled, child, event, disposal>>
  BY DEF agent, Early, runVars
<1>3. RunIsOver' = RunIsOver /\ Early' = Early BY <1>2 DEF RunIsOver, Early
<1>4. CASE b # a
  <2>1. call'[b] = call[b] /\ reply'[b] = reply[b]
    BY <1>1, <1>4 DEF agent, acquireSlot, SlotTypes, AgentTypes
  <2> QED BY <1>1, <1>2, <1>3, <2>1, CallStays
<1>5. CASE b = a
  <2>1. event[b] = "none" /\ reply[b] = "none" /\ (disposal = "quiet" => child[b] \notin {"registered", "disposing"})
    BY <1>1, <1>2, <1>5 DEF CallOK
  <2>2. CASE AgentRefusal(req) = "accepted"
    <3>1. call'[b] \in {"granted", "queued"} /\ reply'[b] = "none"
      BY <1>1, <1>5, <2>1, <2>2 DEF agent, acquireSlot, SlotTypes
    <3> QED BY <1>2, <1>3, <2>1, <3>1 DEF CallOK
  <2>3. CASE AgentRefusal(req) # "accepted"
    <3>1. call'[b] = "done" /\ reply'[b] = AgentRefusal(req)
      BY <1>1, <1>5, <2>3 DEF agent, SlotTypes, AgentTypes
    <3>2. /\ reply'[b] \in {"CANCELLED", "INVALID_ARGUMENT", "UNSUPPORTED_OPTION", "UNSUPPORTED_SCHEMA",
                            "AGENT_CAP"}
          /\ reply'[b] = "CANCELLED" => RunIsOver'
      BY <1>3, <2>3, <3>1, RefusalIs
    <3> QED BY <1>2, <1>3, <2>1, <3>1, <3>2 DEF CallOK
  <2> QED BY <2>2, <2>3
<1> QED BY <1>4, <1>5

\* A step of another call leaves this one as it is.
LEMMA OthersStay ==
    ASSUME WorkflowInv, NEW a \in Agents, CallStep(a) \/ GoneStep(a), NEW b \in Agents, b # a
    PROVE  CallOK(b)'
<1>1. CallOK(b) /\ SlotTypes /\ AgentTypes BY DEF WorkflowInv
<1>2. UNCHANGED <<stage, settled, cancelled, disposal>>
  BY DEF CallStep, startChild, agentStart, ChildStarts, StartFails, ChildEnds, GoneStep,
    ChildDisposed, runVars
<1>3. RunIsOver' = RunIsOver /\ Early' = Early BY <1>2 DEF RunIsOver, Early
<1>4. CASE \/ startChild(a) \/ agentStart(a) \/ ChildStarts(a) \/ StartFails(a) \/ ChildDisposed(a)
  <2>1. call'[b] = call[b] /\ reply'[b] = reply[b]
    BY <1>1, <1>4 DEF startChild, agentStart, ChildStarts, StartFails, ChildDisposed, slotVars,
      SlotTypes, AgentTypes
  <2>2. event'[b] = event[b] /\ child'[b] = child[b]
    BY <1>1, <1>4 DEF startChild, agentStart, ChildStarts, StartFails, ChildDisposed, AgentTypes
  <2> QED BY <1>1, <1>2, <1>3, <2>1, <2>2, CallStays
<1>5. ASSUME NEW given \in Results, ChildEnds(a, given) PROVE CallOK(b)'
  <2>1. call'[b] = call[b] /\ reply'[b] = reply[b]
    BY <1>1, <1>5 DEF ChildEnds, SlotTypes, AgentTypes
  <2>2. event'[b] = event[b] /\ child'[b] = child[b]
    BY <1>1, <1>5 DEF ChildEnds, endAgents, disposeChildren
  <2> QED BY <1>1, <1>2, <1>3, <2>1, <2>2, CallStays
<1> QED BY <1>4, <1>5 DEF CallStep, GoneStep

\* A call with its slot starts a child, hears of it, and announces it.
LEMMA ChildAnnounced ==
    ASSUME WorkflowInv, NEW a \in Agents,
           stage # "decided" \/ startChild(a) \/ agentStart(a),
           startChild(a) \/ ChildStarts(a) \/ StartFails(a) \/ agentStart(a)
    PROVE  CallOK(a)'
<1>1. CallOK(a) /\ RunOK /\ SlotTypes /\ AgentTypes BY DEF WorkflowInv
<1>2. UNCHANGED <<stage, settled, cancelled, disposal>>
  BY DEF startChild, agentStart, ChildStarts, StartFails, runVars
<1>3. RunIsOver' = RunIsOver /\ Early' = Early BY <1>2 DEF RunIsOver, Early
<1>4. call[a] \in {"granted", "starting", "returned"} /\ event[a] = "none" /\ reply[a] = "none" /\ ~Early
  BY <1>1 DEF startChild, agentStart, ChildStarts, StartFails, CallOK
<1>5. CASE agentStart(a)
  <2>1. call'[a] = "running" /\ event'[a] = "started" /\ reply'[a] = "none" /\ child'[a] = child[a]
    BY <1>1, <1>4, <1>5 DEF agentStart, SlotTypes, AgentTypes
  <2>2. settled = "no" BY <1>1, <1>5 DEF agentStart, CallOK
  <2> QED BY <1>1, <1>2, <1>3, <1>4, <2>1, <2>2 DEF CallOK
<1>6. CASE startChild(a)
  <2>1. event'[a] = event[a] /\ child'[a] = child[a] BY <1>6 DEF startChild
  <2>2. \/ call'[a] = "leaving" /\ reply'[a] = "CANCELLED" /\ RunIsOver
        \/ call'[a] = "starting" /\ reply'[a] = "none" /\ ~RunIsOver
    BY <1>1, <1>4, <1>6 DEF startChild, SlotTypes, AgentTypes
  <2>3. disposal = "quiet" => RunIsOver /\ child[a] \notin {"registered", "disposing"}
    BY <1>1 DEF RunOK, RunIsOver, CallOK
  <2> QED BY <1>2, <1>3, <1>4, <2>1, <2>2, <2>3 DEF CallOK
<1>7. CASE ChildStarts(a)
  <2>1. event'[a] = event[a] /\ disposal # "quiet" /\ stage # "decided"
    BY <1>1, <1>7 DEF ChildStarts, startChild, agentStart, CallOK
  <2>2. \/ call'[a] = "leaving" /\ reply'[a] = "CANCELLED" /\ RunIsOver
        \/ call'[a] = "returned" /\ reply'[a] = "none" /\ settled = "no"
    BY <1>1, <1>4, <1>7 DEF ChildStarts, RunIsOver, SlotTypes, AgentTypes
  <2> QED BY <1>2, <1>3, <1>4, <2>1, <2>2 DEF CallOK
<1>8. CASE StartFails(a)
  <2>1. event'[a] = event[a] /\ disposal # "quiet" BY <1>1, <1>8 DEF StartFails, CallOK
  <2>2. /\ call'[a] = "leaving" /\ reply'[a] \in {"CANCELLED", "AGENT_START"}
        /\ reply'[a] = "CANCELLED" => RunIsOver
    BY <1>1, <1>8 DEF StartFails, RunIsOver, SlotTypes, AgentTypes
  <2> QED BY <1>2, <1>3, <1>4, <2>1, <2>2 DEF CallOK
<1> QED BY <1>5, <1>6, <1>7, <1>8

\* A child's end is announced unless the end of the run has already done so.
LEMMA ChildAnswered ==
    ASSUME WorkflowInv, NEW a \in Agents, NEW given \in Results, ChildEnds(a, given)
    PROVE  CallOK(a)'
<1>1. CallOK(a) /\ SlotTypes /\ AgentTypes BY DEF WorkflowInv
<1>2. UNCHANGED <<stage, settled, cancelled, disposal>> BY DEF ChildEnds, runVars
<1>3. RunIsOver' = RunIsOver /\ Early' = Early /\ (cancelled => RunIsOver)
  BY <1>2 DEF RunIsOver, Early
<1>4. call[a] = "running" /\ event[a] \in {"started", "cancelled"} /\ ~Early
  BY <1>1 DEF ChildEnds, CallOK
<1>5. /\ call'[a] = "leaving" /\ reply'[a] = ReplyTo(a, given)
      /\ event'[a] = IF event[a] = "started" THEN Outcome(a, given) ELSE event[a]
      /\ child'[a] = IF child[a] = "registered" THEN "disposing" ELSE child[a]
  BY <1>1 DEF ChildEnds, endAgents, disposeChildren, SlotTypes, AgentTypes
<1>6. /\ event'[a] \in {"completed", "failed", "cancelled"}
      /\ reply'[a] \in {"value", "null", "CANCELLED", "AGENT_RESULT"}
      /\ reply'[a] = "value" => event'[a] \in {"completed", "cancelled"}
      /\ reply'[a] = "null" => event'[a] \in {"failed", "cancelled"}
      /\ reply'[a] = "CANCELLED" => RunIsOver'
  <2> HIDE DEF Results
  <2> QED BY <1>3, <1>4, <1>5, EndIs
<1>7. disposal' = "quiet" => child'[a] \notin {"registered", "disposing"}
  BY <1>1, <1>2, <1>5 DEF CallOK
<1> QED BY <1>2, <1>3, <1>4, <1>5, <1>6, <1>7 DEF CallOK

\* No step breaks what holds of a call.
LEMMA CallsKept == ASSUME WorkflowInv, [WorkflowNext]_workflowVars PROVE \A b \in Agents : CallOK(b)'
<1> SUFFICES ASSUME NEW b \in Agents PROVE CallOK(b)' OBVIOUS
<1>1. CASE RunStep \/ UNCHANGED workflowVars BY <1>1, RunStarts, RunEnds DEF RunStep
<1>2. CASE cancel \/ dispose BY <1>2, RunCancelled
<1>3. ASSUME NEW a \in Agents, NEW req \in AgentRequests, agent(a, req) PROVE CallOK(b)'
  BY <1>3, CallAsked
<1>4. ASSUME NEW a \in Agents, CallStep(a) PROVE CallOK(b)'
  <2>1. CASE a = b
    <3>1. ASSUME NEW given \in Results, ChildEnds(a, given) PROVE CallOK(b)'
      BY <2>1, <3>1, ChildAnswered
    <3>2. CASE \A given \in Results : ~ChildEnds(a, given)
      <4>1. /\ stage # "decided" \/ startChild(a) \/ agentStart(a)
            /\ startChild(a) \/ ChildStarts(a) \/ StartFails(a) \/ agentStart(a)
        BY <1>4, <3>2 DEF CallStep
      <4> QED BY <2>1, <4>1, ChildAnnounced
    <3> QED BY <3>1, <3>2
  <2>2. CASE a # b BY <1>4, <2>2, OthersStay
  <2> QED BY <2>1, <2>2
<1>5. ASSUME NEW a \in Agents, GoneStep(a) PROVE CallOK(b)'
  <2>1. CASE a # b BY <1>5, <2>1, OthersStay
  <2>2. CASE a = b
    <3>1. CallOK(b) /\ AgentTypes BY DEF WorkflowInv
    <3>2. /\ child'[b] = "gone" /\ call'[b] = call[b]
          /\ UNCHANGED <<reply, event, stage, settled, cancelled, disposal>>
      BY <1>5, <2>2, <3>1 DEF GoneStep, ChildDisposed, runVars, slotVars, AgentTypes
    <3>3. RunIsOver' = RunIsOver /\ Early' = Early BY <3>2 DEF RunIsOver, Early
    <3> QED BY <3>1, <3>2, <3>3 DEF CallOK
  <2> QED BY <2>1, <2>2
<1>6. ASSUME NEW a \in Agents, releaseSlot(a) PROVE CallOK(b)'
  <2>1. CallOK(b) /\ CallOK(a) /\ SlotTypes /\ SlotsCounted /\ RunOK BY DEF WorkflowInv
  <2>2. UNCHANGED <<reply, event, child, stage, settled, cancelled, disposal>> /\ call[a] = "leaving"
    BY <1>6 DEF releaseSlot, MayRelease, runVars
  <2>3. RunIsOver' = RunIsOver /\ Early' = Early BY <2>2 DEF RunIsOver, Early
  <2>4. \/ call'[b] = call[b]
        \/ call[b] = "leaving" /\ call'[b] = "done"
        \/ call[b] = "queued" /\ call'[b] = "granted"
    <3>1. CASE slotWaiters = <<>> BY <1>6, <2>1, <2>2, <3>1 DEF releaseSlot, SlotTypes
    <3>2. CASE slotWaiters # <<>>
      <4> DEFINE h == Head(slotWaiters)
      <4>1. h \in ToSet(slotWaiters) /\ h \in Agents
        BY <2>1, <3>2, LeaveFront DEF SlotTypes, SlotsCounted
      <4>2. call[h] = "queued" BY <2>1, <4>1 DEF SlotsCounted
      <4>3. call' = [call EXCEPT ![a] = "done", ![h] = "granted"] BY <1>6, <3>2 DEF releaseSlot
      <4> HIDE DEF h
      <4> QED BY <2>1, <2>2, <4>1, <4>2, <4>3 DEF SlotTypes
    <3> QED BY <3>1, <3>2
  <2> QED BY <2>1, <2>2, <2>3, <2>4 DEF CallOK
<1> QED BY <1>1, <1>2, <1>3, <1>4, <1>5, <1>6, StepsAre

\* Every step keeps the invariant.
LEMMA WorkflowSteps == ASSUME WorkflowInv, [WorkflowNext]_workflowVars PROVE WorkflowInv'
BY SlotsKept, RunTyped, CountsTyped, AgentsTyped, RunKept, CallsKept DEF WorkflowInv

\* The strengthened invariant of a workflow run: slots, the line for them, and
\* what each call has announced and answered.
THEOREM WorkflowInvariant == WorkflowSpec => []WorkflowInv
BY WorkflowStarts, WorkflowSteps, PTL DEF WorkflowSpec

\* Over every interleaving of the calls, the isolate, cancellation, the grace
\* and disposal: slots are counted, events paired, answers true, the isolate
\* ends with its run, and a disposal that did not run out of time is quiet.
THEOREM WorkflowCorrect == WorkflowSpec => []WorkflowIsExact
<1>1. WorkflowInv => WorkflowIsExact
  <2> SUFFICES ASSUME WorkflowInv PROVE WorkflowIsExact OBVIOUS
  <2>1. slotWaiters \in Seq(Agents) /\ IsInjective(slotWaiters)
    BY DEF WorkflowInv, SlotTypes, SlotsCounted
  <2>2. Len(slotWaiters) = Cardinality(ToSet(slotWaiters)) BY <2>1, LineLength
  <2>3. WorkflowSlots BY <2>2 DEF WorkflowInv, SlotsCounted, WorkflowSlots
  <2>4. WorkflowTypeOK BY TypesSplit DEF WorkflowInv
  <2>5. \A a \in Agents : CallOK(a) BY DEF WorkflowInv
  <2>6. EventsPaired BY <2>5 DEF CallOK, EventsPaired
  <2>7. QuietAfterDispose BY <2>5 DEF CallOK, QuietAfterDispose, Quiet, Children, PendingStarts
  <2>8. RepliesAreTrue
    <3>1. ASSUME NEW a \in Agents
          PROVE  /\ call[a] \in {"leaving", "done"} <=> reply[a] # "none"
                 /\ reply[a] = "value" /\ event[a] # "cancelled" => event[a] = "completed"
                 /\ reply[a] = "null" /\ event[a] # "cancelled" => event[a] = "failed"
                 /\ reply[a] = "CANCELLED" => RunIsOver
                 /\ reply[a] = "AGENT_RESULT" => event[a] # "none"
      BY <2>5 DEF CallOK
    <3> QED BY <3>1 DEF RepliesAreTrue
  <2>9. IsolateEnds BY DEF WorkflowInv, RunOK, IsolateEnds
  <2> QED BY <2>3, <2>4, <2>6, <2>7, <2>8, <2>9 DEF WorkflowIsExact
<1> QED BY <1>1, WorkflowInvariant, PTL

\* A run settles once, however cancellation, the end of the evaluation and the
\* end of the grace meet, and an agent whose end was announced keeps it.
THEOREM WorkflowSettlesOnce == WorkflowSpec => SettlesOnce
<1>1. ASSUME WorkflowInv, [WorkflowNext]_workflowVars
      PROVE  [/\ settled # "no" => settled' = settled
              /\ \A a \in Agents : event[a] \notin {"none", "started"} => event'[a] = event[a]]_workflowVars
  <2>1. settled # "no" => settled' = settled
    <3>1. CASE RunStep \/ cancel \/ dispose \/ UNCHANGED workflowVars
      BY <3>1, <1>1 DEF RunStep, start, beginCancelled, begin, Evaluated, finish, GraceExpires,
        settle, DisposeResolves, DisposeExpires, Progress, cancel, dispose, runVars,
        workflowVars, RunIsOver
    <3>2. ASSUME NEW a \in Agents,
                 \/ \E req \in AgentRequests : agent(a, req)
                 \/ CallStep(a) \/ releaseSlot(a) \/ GoneStep(a)
          PROVE  settled' = settled
      BY <3>2 DEF agent, CallStep, startChild, agentStart, ChildStarts, StartFails, ChildEnds,
        releaseSlot, GoneStep, ChildDisposed, runVars
    <3> QED BY <1>1, <3>1, <3>2, StepsAre
  <2>2. ASSUME NEW b \in Agents, event[b] \notin {"none", "started"} PROVE event'[b] = event[b]
    <3>1. CASE RunStep \/ cancel \/ dispose \/ UNCHANGED workflowVars
      <4>1. event' = event \/ event' = endAgents(Agents, "cancelled")
        BY <3>1 DEF RunStep, start, beginCancelled, begin, Evaluated, finish, GraceExpires,
          endStrandedAgents, DisposeResolves, DisposeExpires, Progress, cancel, dispose,
          callVars, workflowVars
      <4> QED BY <4>1, <2>2 DEF endAgents
    <3>2. ASSUME NEW a \in Agents,
                 \/ \E req \in AgentRequests : agent(a, req)
                 \/ CallStep(a) \/ releaseSlot(a) \/ GoneStep(a)
          PROVE  event'[b] = event[b]
      <4>1. AgentTypes /\ CallOK(a) BY <1>1 DEF WorkflowInv
      <4>2. CASE agentStart(a) BY <2>2, <4>1, <4>2 DEF agentStart, AgentTypes, CallOK
      <4>3. ASSUME NEW given \in Results, ChildEnds(a, given) PROVE event'[b] = event[b]
        BY <2>2, <4>3 DEF ChildEnds, endAgents
      <4>4. CASE UNCHANGED event BY <4>4
      <4> QED BY <3>2, <4>2, <4>3, <4>4 DEF agent, CallStep, startChild, ChildStarts,
        StartFails, releaseSlot, GoneStep, ChildDisposed
    <3> QED BY <1>1, <3>1, <3>2, StepsAre
  <2> QED BY <2>1, <2>2
<1> QED BY <1>1, WorkflowInvariant, PTL DEF WorkflowSpec, SettlesOnce

----------------------------------------
(* The command.  Output is numbered, so that every piece of it that is     *)
(* held, queued or stored is a stretch of it.                              *)

\* The bytes after the i-th up to the j-th.
Stretch(i, j) == [k \in 1..(j - i) |-> i + k]

Captures == [held : Seq(Nat), over : BOOLEAN, todo : Seq(Nat), chunk : Seq(Nat),
             spilled : Nat, partial : BOOLEAN, failed : BOOLEAN]
CommandTypes ==
    /\ emitted \in Nat /\ taken \in 0..emitted /\ capture \in Captures
    /\ queue \in Seq(Nat) /\ file \in Seq(Nat)

\* The queue goes on where the file ends, and both ends of the capture are
\* bounded, whether the call still reads or has left its push behind.
SpillInOrder ==
    /\ file = Stretch(0, Len(file)) /\ queue = Stretch(Len(file), Len(file) + Len(queue))
    /\ Len(queue) <= SpillQueue /\ Len(capture.held) <= TailBytes
SpillHolds ==
    /\ ~capture.over => /\ spilling = "none" /\ ~stored /\ file = <<>> /\ queue = <<>>
                        /\ capture.todo = <<>> /\ capture.spilled = 0
                        /\ ~capture.partial /\ ~capture.failed
    /\ capture.over => spilling # "none"
    /\ ~capture.failed => capture.spilled = Len(file) + Len(queue)

\* Until the call is over, the tail in memory covers what was read, and what a
\* waiting push has left is its end; a spill that has not failed holds all that
\* was read up to its cap.
Live == toolCall \notin {"returned", "thrown"}
TailHeld ==
    /\ capture.chunk = <<>> /\ capture.held = LastOf(Bytes(taken), TailBytes)
    /\ capture.over <=> taken > TailBytes
SpillAccounts(c, n) ==
    /\ c.spilled <= SpillMax
    /\ c.todo # <<>> => c.spilled + Len(c.todo) = n /\ (c.partial => n > SpillMax)
    /\ c.todo = <<>> => c.spilled = IF c.partial THEN SpillMax ELSE n
TodoHolds ==
    /\ Len(capture.todo) <= taken /\ capture.todo = Stretch(taken - Len(capture.todo), taken)
    /\ capture.over /\ ~capture.failed => SpillAccounts(capture, taken)

\* Where the call, its writer and its slot stand.
CallStands ==
    /\ toolCall \in {"idle", "preparing", "starting", "reading", "closing"} => capture.todo = <<>>
    /\ toolCall = "pushing" => capture.over /\ capture.todo # <<>>
    /\ spilling = "closing" => toolCall \in {"closing", "returned"}
    /\ stored /\ ~capture.failed => spilling = "closing" /\ queue = <<>>
    /\ toolCall = "closing" => command = "over" /\ taken = emitted
    /\ lingering # "none" => toolCall = "returned"
ExitStands == (exit.light => interrupted) /\ (exit.completed = "late" => expired)
Reported ==
    toolCall = "returned" /\ result.path /\ ~result.pending =>
        stored /\ Len(file) = IF result.partial THEN SpillMax ELSE result.read

CommandInv ==
    /\ CommandTypes /\ SpillInOrder /\ SpillHolds /\ CallStands /\ ExitStands
    /\ Live => TailHeld /\ TodoHolds
    /\ Reported /\ TextIsTheTail /\ StatusIsTrue /\ SlotCoversTheCommand

\* A stretch of output holds the bytes after its start up to its end.
LEMMA StretchIs ==
    ASSUME NEW i \in Nat, NEW j \in Nat, i <= j
    PROVE  /\ Stretch(i, j) \in Seq(Nat) /\ Len(Stretch(i, j)) = j - i
           /\ \A k \in 1..(j - i) : Stretch(i, j)[k] = i + k
           /\ Stretch(i, j) = <<>> <=> i = j
<1> DEFINE s == Stretch(i, j)
<1>1. s \in [1..(j - i) -> Nat] /\ j - i \in Nat /\ \A k \in 1..(j - i) : s[k] = i + k
  BY DEF Stretch
<1> HIDE DEF s
<1>2. s \in Seq(Nat) /\ Len(s) = j - i BY <1>1, IsASeq, LenProperties
<1>3. s = <<>> <=> Len(s) = 0 BY <1>2, EmptySeq
<1> QED BY <1>1, <1>2, <1>3 DEF s

\* A sequence that counts on is a stretch.
LEMMA StretchWhen ==
    ASSUME NEW i \in Nat, NEW j \in Nat, i <= j, NEW s \in Seq(Nat),
           Len(s) = j - i, \A k \in 1..(j - i) : s[k] = i + k PROVE s = Stretch(i, j)
<1> DEFINE v == Stretch(i, j)
<1>1. v \in Seq(Nat) /\ Len(v) = j - i /\ \A k \in 1..(j - i) : v[k] = i + k BY StretchIs
<1> HIDE DEF v
<1>2. s = v BY <1>1, SeqEqual
<1> QED BY <1>2 DEF v

\* A piece of a stretch, and two that meet, are stretches.
LEMMA StretchPiece ==
    ASSUME NEW i \in Nat, NEW j \in Nat, NEW from \in Nat, NEW to \in Nat,
           i <= from, from <= to, to <= j
    PROVE  SubSeq(Stretch(i, j), from - i + 1, to - i) = Stretch(from, to)
<1> DEFINE s == Stretch(i, j)
           a == from - i + 1
           b == to - i
           u == SubSeq(s, a, b)
<1>1. s \in Seq(Nat) /\ Len(s) = j - i /\ \A k \in 1..(j - i) : s[k] = i + k BY StretchIs
<1>2. a \in Int /\ b \in Int /\ 1 <= a /\ b <= j - i /\ b - a + 1 = to - from OBVIOUS
<1> HIDE DEF s
<1>3. /\ u \in Seq(Nat) /\ Len(u) = IF a <= b THEN b - a + 1 ELSE 0
      /\ \A k \in 1..(b - a + 1) : u[k] = s[a + k - 1]
  <2> HIDE DEF a, b
  <2>1. \A k \in a..b : s[k] \in Nat BY <1>1, <1>2
  <2> QED BY <2>1, <1>2, SubSeqProperties
<1>4. Len(u) = to - from
  <2> HIDE DEF u
  <2> QED BY <1>2, <1>3
<1>5. ASSUME NEW k \in 1..(to - from) PROVE u[k] = from + k
  <2>1. a + k - 1 \in 1..(j - i) /\ i + (a + k - 1) = from + k /\ k \in 1..(b - a + 1) BY <1>2
  <2> HIDE DEF u, a, b
  <2> QED BY <2>1, <1>1, <1>3
<1> HIDE DEF u
<1>6. u = Stretch(from, to) BY <1>3, <1>4, <1>5, StretchWhen
<1> QED BY <1>6 DEF s, u, a, b

\* The end of a stretch is a stretch.
LEMMA StretchEnd ==
    ASSUME NEW i \in Nat, NEW j \in Nat, i <= j, NEW from \in Nat, i <= from, from <= j
    PROVE  SubSeq(Stretch(i, j), from - i + 1, j - i) = Stretch(from, j)
<1>1. j <= j OBVIOUS
<1> QED BY <1>1, StretchPiece

\* Two stretches that meet are one.
LEMMA StretchJoin ==
    ASSUME NEW i \in Nat, NEW j \in Nat, NEW k \in Nat, i <= j, j <= k
    PROVE  Stretch(i, j) \o Stretch(j, k) = Stretch(i, k)
<1> DEFINE s == Stretch(i, j)
           t == Stretch(j, k)
           u == s \o t
<1>1. s \in Seq(Nat) /\ Len(s) = j - i /\ \A n \in 1..(j - i) : s[n] = i + n BY StretchIs
<1>2. t \in Seq(Nat) /\ Len(t) = k - j /\ \A n \in 1..(k - j) : t[n] = j + n BY StretchIs
<1> HIDE DEF s, t
<1>3. /\ u \in Seq(Nat) /\ Len(u) = Len(s) + Len(t)
      /\ \A n \in 1..(Len(s) + Len(t)) : u[n] = IF n <= Len(s) THEN s[n] ELSE t[n - Len(s)]
  BY <1>1, <1>2, ConcatProperties
<1> HIDE DEF u
<1>4. ASSUME NEW n \in 1..(k - i) PROVE u[n] = i + n
  <2>1. n \in 1..(Len(s) + Len(t)) BY <1>1, <1>2
  <2>2. CASE n <= Len(s) BY <2>1, <2>2, <1>1, <1>3
  <2>3. CASE ~(n <= Len(s))
    <3>1. n - Len(s) \in 1..(k - j) /\ j + (n - Len(s)) = i + n BY <2>1, <2>3, <1>1, <1>2
    <3> QED BY <3>1, <2>1, <2>3, <1>2, <1>3
  <2> QED BY <2>2, <2>3
<1>5. Len(u) = k - i /\ i <= k BY <1>1, <1>2, <1>3
<1>6. u = Stretch(i, k) BY <1>3, <1>4, <1>5, StretchWhen
<1> QED BY <1>6 DEF s, t, u

\* A stretch grows by the byte after its end.
LEMMA StretchGrows ==
    ASSUME NEW i \in Nat, NEW j \in Nat, i <= j
    PROVE  Append(Stretch(i, j), j + 1) = Stretch(i, j + 1)
<1> DEFINE s == Stretch(i, j)
           e == j + 1
           u == Append(s, e)
<1>1. s \in Seq(Nat) /\ Len(s) = j - i /\ \A n \in 1..(j - i) : s[n] = i + n BY StretchIs
<1>2. e \in Nat /\ i <= e /\ e - i = (j - i) + 1 /\ i + ((j - i) + 1) = e OBVIOUS
<1> HIDE DEF s, e
<1>3. /\ u \in Seq(Nat) /\ Len(u) = Len(s) + 1 /\ u[Len(s) + 1] = e
      /\ \A n \in 1..Len(s) : u[n] = s[n]
  BY <1>1, <1>2, AppendProperties
<1> HIDE DEF u
<1>4. ASSUME NEW n \in 1..(e - i) PROVE u[n] = i + n
  <2>1. CASE n = (j - i) + 1 BY <2>1, <1>1, <1>2, <1>3
  <2>2. CASE n # (j - i) + 1
    <3>1. n \in 1..(j - i) BY <2>2, <1>2
    <3> QED BY <3>1, <1>1, <1>3
  <2> QED BY <2>1, <2>2
<1>5. u = Stretch(i, e) BY <1>1, <1>2, <1>3, <1>4, StretchWhen
<1> QED BY <1>5 DEF s, u, e

\* A stretch without its first byte starts one later.
LEMMA StretchShrinks ==
    ASSUME NEW i \in Nat, NEW j \in Nat, i < j
    PROVE  Head(Stretch(i, j)) = i + 1 /\ Tail(Stretch(i, j)) = Stretch(i + 1, j)
<1> DEFINE s == Stretch(i, j)
           u == Tail(s)
           e == i + 1
<1>1. s \in Seq(Nat) /\ Len(s) = j - i /\ \A n \in 1..(j - i) : s[n] = i + n BY StretchIs
<1>2. e \in Nat /\ e <= j /\ j - e = (j - i) - 1 /\ e = i + 1 OBVIOUS
<1> HIDE DEF s, e
<1>3. s # <<>> BY <1>1, EmptySeq
<1>4. /\ u \in Seq(Nat) /\ Len(u) = Len(s) - 1 /\ Head(s) = s[1]
      /\ \A n \in 1..Len(u) : u[n] = s[n + 1]
  BY <1>1, <1>3, HeadTailProperties
<1> HIDE DEF u
<1>5. \A n \in 1..(j - e) : u[n] = e + n BY <1>1, <1>2, <1>4
<1>6. Len(u) = j - e BY <1>1, <1>2, <1>4
<1>7. u = Stretch(e, j) BY <1>2, <1>4, <1>5, <1>6, StretchWhen
<1>8. Head(s) = e BY <1>1, <1>2, <1>4
<1> QED BY <1>7, <1>8 DEF s, u, e

\* The largest and the smallest of a few numbers.
LEMMA MaxOfTwo ==
    ASSUME NEW x \in Int, NEW y \in Int PROVE Max({x, y}) = IF x <= y THEN y ELSE x
<1>1. \E m \in {x, y} : \A n \in {x, y} : m >= n OBVIOUS
<1>2. Max({x, y}) \in {x, y} /\ \A n \in {x, y} : Max({x, y}) >= n BY <1>1 DEF Max
<1> QED BY <1>2

\* The least of three numbers is one of them and not above any.
LEMMA MinOfThree ==
    ASSUME NEW x \in Int, NEW y \in Int, NEW z \in Int
    PROVE  /\ Min({x, y, z}) \in {x, y, z}
           /\ Min({x, y, z}) <= x /\ Min({x, y, z}) <= y /\ Min({x, y, z}) <= z
<1>1. \E m \in {x, y, z} : \A n \in {x, y, z} : m <= n OBVIOUS
<1>2. Min({x, y, z}) \in {x, y, z} /\ \A n \in {x, y, z} : Min({x, y, z}) <= n BY <1>1 DEF Min
<1> QED BY <1>2

\* The last n bytes of a stretch, and the tail after more was read.
LEMMA LastOfStretch ==
    ASSUME NEW i \in Nat, NEW j \in Nat, i <= j, NEW n \in Nat
    PROVE  LastOf(Stretch(i, j), n) = IF j - i <= n THEN Stretch(i, j) ELSE Stretch(j - n, j)
<1> DEFINE m == Max({1, (j - i) - n + 1})
           from == IF j - i <= n THEN i ELSE j - n
<1>1. Len(Stretch(i, j)) = j - i BY StretchIs
<1>2. LastOf(Stretch(i, j), n) = SubSeq(Stretch(i, j), m, j - i) BY <1>1 DEF LastOf
<1>3. m = IF (j - i) - n + 1 <= 1 THEN 1 ELSE (j - i) - n + 1 BY MaxOfTwo
<1>4. from \in Nat /\ i <= from /\ from <= j /\ m = from - i + 1
  <2> HIDE DEF m
  <2> QED BY <1>3
<1>5. SubSeq(Stretch(i, j), from - i + 1, j - i) = Stretch(from, j)
  <2>1. from \in Nat /\ i <= from /\ from <= j BY <1>4
  <2> HIDE DEF from
  <2> QED BY <2>1, StretchEnd
<1>6. LastOf(Stretch(i, j), n) = Stretch(from, j)
  <2> HIDE DEF m, from
  <2> QED BY <1>2, <1>4, <1>5
<1> QED BY <1>6

\* The output so far is the stretch from its start.
LEMMA BytesAreStretch ==
    ASSUME NEW n \in Nat PROVE Bytes(n) = Stretch(0, n)
<1>1. n - 0 = n /\ \A k \in 1..n : 0 + k = k OBVIOUS
<1> QED BY <1>1 DEF Bytes, Stretch

\* The tail kept of a tail and of what follows it is the tail of everything.
LEMMA TailAfterMore ==
    ASSUME NEW n \in Nat, NEW to \in Nat, n <= to, NEW keep \in Nat
    PROVE  /\ LastOf(LastOf(Bytes(n), keep) \o Stretch(n, to), keep) = LastOf(Bytes(to), keep)
           /\ LastOf(Bytes(n), keep) \in Seq(Nat)
           /\ Len(LastOf(Bytes(n), keep)) = IF n <= keep THEN n ELSE keep
<1> DEFINE from == IF n <= keep THEN 0 ELSE n - keep
<1>1. from \in Nat /\ from <= n /\ n - from = (IF n <= keep THEN n ELSE keep) /\ n - 0 = n
      /\ 0 \in Nat /\ to \in Nat /\ n <= to
  OBVIOUS
<1>2. LastOf(Bytes(n), keep) = Stretch(from, n) BY <1>1, BytesAreStretch, LastOfStretch
<1>3. LastOf(Bytes(to), keep) =
          IF to <= keep THEN Stretch(0, to) ELSE Stretch(to - keep, to)
  <2>1. Bytes(to) = Stretch(0, to) /\ to - 0 = to BY <1>1, BytesAreStretch
  <2>2. 0 <= to OBVIOUS
  <2> QED BY <1>1, <2>1, <2>2, LastOfStretch
<1>4. Stretch(from, n) \o Stretch(n, to) = Stretch(from, to) BY <1>1, StretchJoin
<1>5. LastOf(Stretch(from, to), keep) =
          IF to - from <= keep THEN Stretch(from, to)
          ELSE Stretch(to - keep, to)
  <2>1. from <= to BY <1>1
  <2> HIDE DEF from
  <2> QED BY <1>1, <2>1, LastOfStretch
<1>6. Stretch(from, n) \in Seq(Nat) /\ Len(Stretch(from, n)) = n - from
  <2> HIDE DEF from
  <2> QED BY <1>1, StretchIs
<1>7. LastOf(Stretch(from, to), keep) = LastOf(Bytes(to), keep)
  <2>1. CASE to <= keep
    <3>1. from = 0 /\ to - from <= keep BY <2>1
    <3> HIDE DEF from
    <3> QED BY <3>1, <2>1, <1>3, <1>5
  <2>2. CASE ~(to <= keep) /\ to - from <= keep
    <3>1. from = to - keep BY <2>2
    <3> HIDE DEF from
    <3> QED BY <3>1, <2>2, <1>3, <1>5
  <2>3. CASE ~(to <= keep) /\ ~(to - from <= keep)
    <3> HIDE DEF from
    <3> QED BY <2>3, <1>3, <1>5
  <2> QED BY <2>1, <2>2, <2>3
<1> HIDE DEF from
<1> QED BY <1>1, <1>2, <1>4, <1>6, <1>7

\* The chunk joins the tail, or waits.
LEMMA TailTaken ==
    ASSUME NEW c \in Captures, NEW n \in Nat, NEW from \in Nat, from <= n,
           c.chunk = Stretch(from, n), c.held = LastOf(Bytes(from), TailBytes),
           NEW d \in Captures, d.chunk = c.chunk, d.held = c.held,
           c.chunk # <<>> => Len(d.todo) <= Len(c.chunk)
    PROVE  LET t == TakesTail(c, d) IN
           /\ t \in Captures /\ t.chunk = <<>> /\ t.held = LastOf(Bytes(n), TailBytes)
           /\ t.over = d.over /\ t.todo = d.todo /\ t.spilled = d.spilled
           /\ t.partial = d.partial /\ t.failed = d.failed
<1> DEFINE t == TakesTail(c, d)
<1>0. TailBytes \in Nat BY TailFitsTheQueue
<1>1. CASE c.chunk = <<>>
  <2>1. from = n BY <1>1, StretchIs
  <2>2. t = d BY <1>1 DEF TakesTail
  <2> QED BY <1>1, <2>1, <2>2
<1>2. CASE c.chunk # <<>>
  <2>1. t = Took(d) BY <1>2 DEF TakesTail
  <2>2. t = [d EXCEPT !.held = trimTail(d.held \o d.chunk), !.chunk = <<>>] BY <2>1 DEF Took
  <2>3. trimTail(d.held \o d.chunk) = LastOf(Bytes(n), TailBytes)
    <3>1. LastOf(LastOf(Bytes(from), TailBytes) \o Stretch(from, n), TailBytes) = LastOf(Bytes(n), TailBytes)
      BY <1>0, TailAfterMore
    <3> QED BY <3>1 DEF trimTail
  <2>4. LastOf(Bytes(n), TailBytes) \in Seq(Nat) /\ <<>> \in Seq(Nat)
    BY <1>0, TailAfterMore, EmptySeq
  <2> HIDE DEF t
  <2>5. t = [d EXCEPT !.held = LastOf(Bytes(n), TailBytes), !.chunk = <<>>] BY <2>2, <2>3
  <2>6. t \in Captures BY <2>4, <2>5 DEF Captures
  <2>7. t.chunk = <<>> /\ t.held = LastOf(Bytes(n), TailBytes) /\ t.todo = d.todo /\ t.spilled = d.spilled
    BY <2>5 DEF Captures
  <2>8. t.over = d.over /\ t.partial = d.partial /\ t.failed = d.failed BY <2>5, Zenon DEF Captures
  <2> QED BY <2>6, <2>7, <2>8 DEF t
<1> QED BY <1>1, <1>2

\* What a write may find: the tail covers what was read before the chunk, the
\* held bytes before the chunk fit into the queue, and the spill is complete up
\* to what is still to do, or full.
WriteReady(c, q, n, f, g, left, from) ==
    /\ c.over /\ left <= n /\ from <= n /\ f <= g
    /\ c.todo = Stretch(left, n)
    /\ c.chunk = Stretch(from, n) /\ c.held = LastOf(Bytes(from), TailBytes)
    /\ q = Stretch(f, g) /\ g - f <= SpillQueue
    /\ from < n => from - left <= SpillQueue - (g - f)
    /\ ~c.failed => /\ c.spilled = g /\ g <= SpillMax
                    /\ g = left \/ (c.partial /\ g = SpillMax)
                    /\ c.partial => g + (n - left) > SpillMax \/ g = SpillMax

\* What it leaves: the tail covers all that was read, and the spill all that is
\* not still to do, or its cap.
WrittenUpTo(c, w, n, f, g, rest) ==
    /\ w.capture \in Captures /\ w.capture.over /\ w.capture.failed = c.failed
    /\ w.capture.chunk = <<>> /\ w.capture.held = LastOf(Bytes(n), TailBytes)
    /\ rest <= n /\ w.capture.todo = Stretch(rest, n)
    /\ f <= g /\ w.queue = Stretch(f, g) /\ g - f <= SpillQueue
    /\ c.failed => rest = n
    /\ ~c.failed => /\ w.capture.spilled = g /\ g <= SpillMax
                    /\ rest < n => g = rest /\ (w.capture.partial => n > SpillMax)
                    /\ rest = n => g = IF w.capture.partial THEN SpillMax ELSE n

\* A failed spill takes what is left without storing it.
LEMMA WriteWhenFailed ==
    ASSUME NEW c \in Captures, NEW q, NEW n \in Nat, NEW f \in Nat, NEW g \in Nat,
           NEW left \in Nat, NEW from \in Nat, WriteReady(c, q, n, f, g, left, from), c.failed
    PROVE  WrittenUpTo(c, write(c, q), n, f, g, n)
<1> DEFINE d == [c EXCEPT !.todo = <<>>]
           t == TakesTail(c, d)
<1>1. d \in Captures /\ d.chunk = c.chunk /\ d.held = c.held /\ d.todo = <<>>
  <2>1. <<>> \in Seq(Nat) BY EmptySeq
  <2> QED BY <2>1 DEF Captures
<1>2. d.over = c.over /\ d.failed = c.failed BY Zenon DEF Captures
<1>3. Len(d.todo) <= Len(c.chunk)
  <2>1. Len(<<>>) = 0 /\ Len(c.chunk) \in Nat BY EmptySeq, LenProperties DEF Captures
  <2> QED BY <2>1, <1>1
<1> HIDE DEF d
<1>4. /\ t \in Captures /\ t.chunk = <<>> /\ t.held = LastOf(Bytes(n), TailBytes)
      /\ t.over = d.over /\ t.todo = d.todo /\ t.failed = d.failed
  BY <1>1, <1>3, TailTaken DEF WriteReady
<1>5. write(c, q) = [capture |-> t, queue |-> q] BY DEF write, Dropped, t, d
<1>6. Stretch(n, n) = <<>> BY StretchIs
<1> HIDE DEF t
<1>7. write(c, q).capture = t /\ write(c, q).queue = q BY <1>5
<1>8. WrittenUpTo(c, write(c, q), n, f, g, n)
  <2> DEFINE w == write(c, q)
  <2>1. w.capture = t /\ w.queue = q BY <1>7
  <2> HIDE DEF w
  <2>2. w.capture.over /\ w.capture.failed = c.failed BY <2>1, <1>2, <1>4, Zenon DEF WriteReady
  <2> QED BY <2>1, <2>2, <1>1, <1>4, <1>6 DEF WrittenUpTo, WriteReady, w
<1> QED BY <1>8

\* The room of a write is the least of its three limits.
LEMMA RoomIs ==
    ASSUME NEW c \in Captures, NEW q \in Seq(Nat), Len(q) <= SpillQueue, c.spilled <= SpillMax
    PROVE  /\ Room(c, q) \in Nat /\ Room(c, q) <= SpillQueue - Len(q)
           /\ Room(c, q) <= SpillMax - c.spilled /\ Room(c, q) <= Len(c.todo)
           /\ Room(c, q) \in {SpillQueue - Len(q), SpillMax - c.spilled, Len(c.todo)}
<1>1. /\ Len(q) \in Nat /\ c.spilled \in Nat /\ Len(c.todo) \in Nat
      /\ SpillQueue \in Nat /\ SpillMax \in Nat
  BY TailFitsTheQueue, LenProperties DEF Captures
<1> DEFINE x == SpillQueue - Len(q)
           y == SpillMax - c.spilled
           z == Len(c.todo)
<1>2. x \in Int /\ y \in Int /\ z \in Int /\ 0 <= x /\ 0 <= y /\ 0 <= z BY <1>1
<1>3. Room(c, q) = Min({x, y, z}) BY DEF Room
<1> HIDE DEF x, y, z
<1>4. /\ Min({x, y, z}) \in {x, y, z} /\ Min({x, y, z}) <= x /\ Min({x, y, z}) <= y
      /\ Min({x, y, z}) <= z
  BY <1>2, MinOfThree
<1>5. /\ Room(c, q) \in Nat /\ Room(c, q) <= x /\ Room(c, q) <= y /\ Room(c, q) <= z
      /\ Room(c, q) \in {x, y, z}
  BY <1>2, <1>3, <1>4
<1> QED BY <1>5 DEF x, y, z

\* A spill that stands queues the next stretch, as far as there is room.
LEMMA WriteWhenWhole ==
    ASSUME NEW c \in Captures, NEW q, NEW n \in Nat, NEW f \in Nat, NEW g \in Nat,
           NEW left \in Nat, NEW from \in Nat, WriteReady(c, q, n, f, g, left, from), ~c.failed
    PROVE  \E g2 \in Nat, rest \in Nat : g <= g2 /\ WrittenUpTo(c, write(c, q), n, f, g2, rest)
<1> DEFINE k == Room(c, q)
           sent == [c EXCEPT !.todo = SubSeq(c.todo, k + 1, Len(c.todo)), !.spilled = c.spilled + k]
           cut == c.spilled + Len(c.todo) > SpillMax
           told == [sent EXCEPT !.partial = sent.partial \/ cut]
           gone == [told EXCEPT !.todo = <<>>]
           w == write(c, q)
           mid == left + k
           g2 == g + k
<1>0. TailBytes \in Nat /\ SpillMax \in Nat /\ SpillQueue \in Nat /\ TailBytes <= SpillQueue
  BY TailFitsTheQueue
<1>1. /\ c.over /\ left <= n /\ from <= n /\ f <= g /\ g - f <= SpillQueue
      /\ c.todo = Stretch(left, n) /\ c.chunk = Stretch(from, n) /\ q = Stretch(f, g)
      /\ c.held = LastOf(Bytes(from), TailBytes) /\ c.spilled = g /\ g <= SpillMax
      /\ from < n => from - left <= SpillQueue - (g - f)
      /\ g = left \/ (c.partial /\ g = SpillMax)
      /\ c.partial => g + (n - left) > SpillMax \/ g = SpillMax
  BY DEF WriteReady
<1>2. /\ c.todo \in Seq(Nat) /\ Len(c.todo) = n - left /\ Len(c.chunk) = n - from
      /\ q \in Seq(Nat) /\ Len(q) = g - f /\ (c.chunk = <<>> <=> from = n)
  <2>1. Stretch(left, n) \in Seq(Nat) /\ Len(Stretch(left, n)) = n - left BY <1>1, StretchIs
  <2>2. Stretch(f, g) \in Seq(Nat) /\ Len(Stretch(f, g)) = g - f BY <1>1, StretchIs
  <2>3. Len(Stretch(from, n)) = n - from /\ (Stretch(from, n) = <<>> <=> from = n)
    BY <1>1, StretchIs
  <2> QED BY <1>1, <2>1, <2>2, <2>3
<1>3. /\ k \in Nat /\ k <= SpillQueue - (g - f) /\ k <= SpillMax - g /\ k <= n - left
      /\ k \in {SpillQueue - (g - f), SpillMax - g, n - left}
  BY <1>0, <1>1, <1>2, RoomIs
<1> HIDE DEF k
<1>4. mid \in Nat /\ left <= mid /\ mid <= n /\ g2 \in Nat /\ g <= g2 /\ g2 <= SpillMax
      /\ g2 - f <= SpillQueue /\ n - mid = (n - left) - k
  BY <1>0, <1>1, <1>3
<1>5. SubSeq(c.todo, k + 1, Len(c.todo)) = Stretch(mid, n)
  <2>1. mid - left + 1 = k + 1 /\ Len(c.todo) = n - left BY <1>2, <1>3
  <2>2. mid \in Nat /\ left <= mid /\ mid <= n /\ left <= n BY <1>1, <1>4
  <2> HIDE DEF mid
  <2>3. SubSeq(Stretch(left, n), mid - left + 1, n - left) = Stretch(mid, n) BY <2>2, StretchEnd
  <2> QED BY <2>1, <2>3, <1>1
<1>6. q \o SubSeq(c.todo, 1, k) = Stretch(f, g2)
  <2>1. CASE k = 0
    <3>1. SubSeq(c.todo, 1, k) = <<>> BY <2>1, SubSeqEmpty
    <3>2. q \o <<>> = q BY <1>2, ConcatEmptySeq
    <3>3. g2 = g BY <2>1
    <3> QED BY <3>1, <3>2, <3>3, <1>1
  <2>2. CASE k # 0
    <3>1. g = left BY <2>2, <1>0, <1>1, <1>3
    <3>2. left - left + 1 = 1 /\ mid - left = k BY <1>3
    <3>3. left <= left /\ left <= mid /\ mid <= n /\ mid \in Nat BY <1>4
    <3>4. g2 = mid BY <3>1
    <3> HIDE DEF mid
    <3>5. SubSeq(Stretch(left, n), left - left + 1, mid - left) = Stretch(left, mid)
      BY <3>3, StretchPiece, SMTT(30)
    <3>6. Stretch(f, left) \o Stretch(left, mid) = Stretch(f, mid)
      BY <3>1, <3>3, <1>1, StretchJoin, ZenonT(60)
    <3> HIDE DEF g2
    <3> QED BY <3>1, <3>2, <3>4, <3>5, <3>6, <1>1
  <2> QED BY <2>1, <2>2
<1>7. Stretch(mid, n) \in Seq(Nat) /\ Len(Stretch(mid, n)) = n - mid
  <2> HIDE DEF mid
  <2> QED BY <1>4, StretchIs
<1>8. sent \in Captures /\ sent.todo = Stretch(mid, n) /\ sent.spilled = g2
      /\ sent.held = c.held /\ sent.chunk = c.chunk
  <2>5. SubSeq(c.todo, k + 1, Len(c.todo)) \in Seq(Nat)
    <3> HIDE DEF mid
    <3> QED BY <1>5, <1>7
  <2>6. c.spilled + k \in Nat BY <1>1, <1>3
  <2>2. c.spilled + k = g2 BY <1>1
  <2>3. sent \in Captures BY <2>5, <2>6 DEF Captures
  <2>4. /\ sent.todo = SubSeq(c.todo, k + 1, Len(c.todo)) /\ sent.spilled = c.spilled + k
        /\ sent.held = c.held /\ sent.chunk = c.chunk
    BY DEF Captures
  <2> HIDE DEF sent, g2, mid
  <2> QED BY <2>2, <2>3, <2>4, <1>5
<1>9. sent.over = c.over /\ sent.partial = c.partial /\ sent.failed = c.failed BY Zenon DEF Captures
<1>10. cut <=> g + (n - left) > SpillMax BY <1>1, <1>2
<1>11. cut \in BOOLEAN OBVIOUS
<1> HIDE DEF sent, cut
<1>12. told \in Captures
  <2>1. sent.partial \in BOOLEAN BY <1>8 DEF Captures
  <2>2. (sent.partial \/ cut) \in BOOLEAN BY <2>1, <1>11
  <2> QED BY <2>2, <1>8 DEF Captures
<1>13. /\ told.todo = Stretch(mid, n) /\ told.spilled = g2 /\ told.held = c.held
       /\ told.chunk = c.chunk
  <2>1. /\ told.todo = sent.todo /\ told.spilled = sent.spilled /\ told.held = sent.held
        /\ told.chunk = sent.chunk
    BY <1>8 DEF Captures
  <2> HIDE DEF told, mid, g2
  <2> QED BY <2>1, <1>8
<1>14. told.over = c.over /\ told.failed = c.failed /\ told.partial = (c.partial \/ cut)
  <2>1. /\ told.over = sent.over /\ told.failed = sent.failed
        /\ told.partial = (sent.partial \/ cut)
    BY <1>8, Zenon DEF Captures
  <2> HIDE DEF told
  <2> QED BY <2>1, <1>9
<1> HIDE DEF told
<1>15. gone \in Captures /\ gone.todo = <<>> /\ gone.spilled = g2 /\ gone.held = c.held
       /\ gone.chunk = c.chunk
  <2>1. <<>> \in Seq(Nat) BY EmptySeq
  <2>2. gone \in Captures BY <2>1, <1>12 DEF Captures
  <2>3. /\ gone.todo = <<>> /\ gone.spilled = told.spilled /\ gone.held = told.held
        /\ gone.chunk = told.chunk
    BY <1>12 DEF Captures
  <2> HIDE DEF gone, g2
  <2> QED BY <2>2, <2>3, <1>13
<1>16. gone.over = c.over /\ gone.failed = c.failed /\ gone.partial = told.partial
  <2>1. gone.over = told.over /\ gone.failed = told.failed /\ gone.partial = told.partial
    BY <1>12, Zenon DEF Captures
  <2> HIDE DEF gone
  <2> QED BY <2>1, <1>14
<1>17. w = [capture |-> IF sent.spilled = SpillMax THEN TakesTail(told, gone) ELSE TakesTail(c, told),
            queue |-> q \o SubSeq(c.todo, 1, k)]
  BY DEF write, Dropped, sends, cutOff, sent, told, gone, cut, k, w
<1> HIDE DEF gone, w
<1>18. CASE g2 = SpillMax
  <2> DEFINE t == TakesTail(told, gone)
  <2>1. w.capture = t /\ w.queue = Stretch(f, g2) BY <1>17, <1>18, <1>8, <1>6
  <2>2. Len(gone.todo) <= Len(told.chunk)
    <3>1. Len(<<>>) = 0 /\ Len(told.chunk) \in Nat BY <1>12, EmptySeq, LenProperties DEF Captures
    <3> QED BY <3>1, <1>15
  <2>3. /\ t \in Captures /\ t.chunk = <<>> /\ t.held = LastOf(Bytes(n), TailBytes)
        /\ t.over = gone.over /\ t.todo = gone.todo /\ t.spilled = gone.spilled
        /\ t.partial = gone.partial /\ t.failed = gone.failed
    BY <2>2, <1>1, <1>12, <1>13, <1>15, TailTaken
  <2> HIDE DEF t
  <2>4. ~told.partial => g2 = n
    <3>1. ASSUME ~told.partial PROVE ~c.partial /\ ~cut BY <3>1, <1>14, Zenon
    <3>2. ASSUME ~c.partial, ~cut PROVE g2 = n BY <3>2, <1>0, <1>1, <1>3, <1>10, <1>18
    <3> QED BY <3>1, <3>2
  <2>5. Stretch(n, n) = <<>> /\ n <= n BY StretchIs
  <2>6. w.capture.over /\ w.capture.failed = c.failed /\ w.capture.partial = told.partial
    BY <2>1, <2>3, <1>1, <1>16, Zenon
  <2>7. g2 = IF w.capture.partial THEN SpillMax ELSE n BY <2>4, <2>6, <1>18
  <2>8. /\ w.capture \in Captures /\ w.capture.chunk = <<>>
        /\ w.capture.held = LastOf(Bytes(n), TailBytes)
        /\ w.capture.todo = Stretch(n, n) /\ w.capture.spilled = g2
    BY <2>1, <2>3, <2>5, <1>15
  <2>9. f <= g2 BY <1>1, <1>4
  <2>10. ~(n < n) OBVIOUS
  <2> HIDE DEF g2
  <2>11. WrittenUpTo(c, w, n, f, g2, n)
    BY <2>1, <2>5, <2>6, <2>7, <2>8, <2>9, <2>10, <1>4 DEF WrittenUpTo
  <2> QED BY <2>11, <1>4 DEF w
<1>19. CASE g2 # SpillMax
  <2> DEFINE t == TakesTail(c, told)
  <2>1. w.capture = t /\ w.queue = Stretch(f, g2) BY <1>17, <1>19, <1>8, <1>6
  <2>2. g = left /\ g2 = mid BY <1>0, <1>1, <1>3, <1>19
  <2>3. c.chunk # <<>> => Len(told.todo) <= Len(c.chunk)
    <3>1. Len(told.todo) = n - mid BY <1>7, <1>13
    <3>2. from < n => from <= mid BY <1>0, <1>1, <1>3, <1>19, <2>2
    <3> HIDE DEF mid
    <3> QED BY <3>1, <3>2, <1>1, <1>2, <1>4
  <2>4. /\ t \in Captures /\ t.chunk = <<>> /\ t.held = LastOf(Bytes(n), TailBytes)
        /\ t.over = told.over /\ t.todo = told.todo /\ t.spilled = told.spilled
        /\ t.partial = told.partial /\ t.failed = told.failed
    BY <2>3, <1>1, <1>12, <1>13, TailTaken
  <2> HIDE DEF t
  <2>5. w.capture.over /\ w.capture.failed = c.failed /\ w.capture.partial = told.partial
    BY <2>1, <2>4, <1>1, <1>14, Zenon
  <2>6. told.partial => n > SpillMax
    <3>1. told.partial => c.partial \/ cut BY <1>14, Zenon
    <3>2. c.partial => n > SpillMax BY <1>0, <1>1, <1>3, <1>19, <2>2
    <3>3. cut => n > SpillMax BY <1>0, <1>1, <1>10, <2>2
    <3> QED BY <3>1, <3>2, <3>3
  <2>7. mid = n => ~told.partial BY <2>2, <2>6, <1>0, <1>4
  <2>8. /\ w.capture \in Captures /\ w.capture.chunk = <<>>
        /\ w.capture.held = LastOf(Bytes(n), TailBytes)
        /\ w.capture.todo = Stretch(mid, n) /\ w.capture.spilled = g2
    BY <2>1, <2>4, <1>13
  <2>9. f <= g2 BY <1>1, <1>4
  <2> HIDE DEF g2, mid
  <2>10. WrittenUpTo(c, w, n, f, g2, mid)
    BY <2>1, <2>2, <2>5, <2>6, <2>7, <2>8, <2>9, <1>4 DEF WrittenUpTo
  <2> QED BY <2>10, <1>4 DEF w
<1> QED BY <1>18, <1>19

\* The end of a sequence is no longer than asked for.
LEMMA LastOfIs ==
    ASSUME NEW s \in Seq(Nat), NEW n \in Nat
    PROVE  LastOf(s, n) \in Seq(Nat) /\ Len(LastOf(s, n)) <= n
<1> DEFINE l == Len(s)
           x == l - n + 1
           m == Max({1, x})
<1>1. l \in Nat /\ \A k \in 1..l : s[k] \in Nat BY LenProperties, ElementOfSeq
<1>2. x \in Int /\ m = IF 1 <= x THEN x ELSE 1 BY <1>1, MaxOfTwo
<1>3. LastOf(s, n) = SubSeq(s, m, l) BY DEF LastOf
<1> HIDE DEF m
<1>4. m \in Int /\ 1 <= m /\ x <= m BY <1>2
<1> HIDE DEF x, l
<1>5. \A k \in m..l : s[k] \in Nat BY <1>1, <1>4
<1>6. SubSeq(s, m, l) \in Seq(Nat) /\ Len(SubSeq(s, m, l)) = IF m <= l THEN l - m + 1 ELSE 0
  BY <1>1, <1>4, <1>5, SubSeqProperties
<1>7. Len(SubSeq(s, m, l)) <= n BY <1>1, <1>4, <1>6 DEF x
<1> QED BY <1>3, <1>6, <1>7 DEF l

\* How many leading bytes a decoded tail leaves out: all that continue a
\* character that began before it, and none of a tail that is not cut.
LEMMA SkippedIs ==
    ASSUME NEW b \in Nat, NEW n \in Nat, b <= n, NEW cut \in BOOLEAN, ~cut => b = 0
    PROVE  LET a == skipped(Stretch(b, n), cut) IN
           /\ a \in 0..3 /\ (a < n - b => b + a + 1 \notin Continues)
           /\ \A k \in 1..a : k <= n - b => b + k \in Continues
<1> DEFINE s == Stretch(b, n)
           S == {k \in 0..3 : ~cut \/ k = 3 \/ k >= Len(s) \/ s[k + 1] \notin Continues}
           a == Min(S)
<1>1. Len(s) = n - b /\ \A k \in 1..(n - b) : s[k] = b + k BY StretchIs
<1>2. a = skipped(s, cut) BY DEF skipped
<1> HIDE DEF s
<1>3. 3 \in S OBVIOUS
<1>4. \E m \in S : \A k \in S : m <= k
  <2>1. CASE 0 \in S BY <2>1
  <2>2. CASE 0 \notin S /\ 1 \in S BY <2>2
  <2>3. CASE 0 \notin S /\ 1 \notin S /\ 2 \in S BY <2>3
  <2>4. CASE 0 \notin S /\ 1 \notin S /\ 2 \notin S BY <2>4, <1>3
  <2> QED BY <2>1, <2>2, <2>3, <2>4
<1>5. a \in S /\ \A k \in S : a <= k
  <2> HIDE DEF S
  <2> QED BY <1>4 DEF Min
<1> HIDE DEF a
<1>6. a \in 0..3 BY <1>5
<1>7. ASSUME a < n - b PROVE b + a + 1 \notin Continues
  <2>1. ~cut \/ a = 3 \/ s[a + 1] \notin Continues BY <1>1, <1>5, <1>7
  <2>2. s[a + 1] = b + a + 1 BY <1>1, <1>6, <1>7
  <2>3. CASE ~cut
    <3>1. b = 0 /\ (0 \in S) BY <2>3
    <3>2. a = 0 BY <3>1, <1>5, <1>6
    <3>3. 1 \notin Continues BY CharactersAreShort
    <3> QED BY <3>1, <3>2, <3>3
  <2>4. CASE a = 3
    <3>1. ASSUME NEW k \in 0..2 PROVE b + k + 1 \in Continues
      <4>1. k \notin S BY <2>4, <1>5
      <4>2. s[k + 1] \in Continues BY <4>1
      <4>3. k + 1 \in 1..(n - b) /\ b + (k + 1) = b + k + 1 BY <2>4, <1>7
      <4> QED BY <4>2, <4>3, <1>1
    <3>2. b + 1 \in Continues /\ b + 2 \in Continues /\ b + 3 \in Continues BY <3>1
    <3>3. b + 4 \notin Continues
      <4> SUFFICES ASSUME b + 4 \in Continues PROVE FALSE OBVIOUS
      <4>1. PICK k \in 1..3 : (b + 4) - k \notin Continues BY CharactersAreShort
      <4> QED BY <4>1, <3>2
    <3> QED BY <2>4, <3>3
  <2>5. CASE s[a + 1] \notin Continues BY <2>2, <2>5
  <2> QED BY <2>1, <2>3, <2>4, <2>5
<1>8. ASSUME NEW k \in 1..a, k <= n - b PROVE b + k \in Continues
  <2>1. k - 1 \in 0..3 /\ k - 1 < a /\ (k - 1) + 1 = k BY <1>6
  <2>2. k - 1 \notin S BY <2>1, <1>5
  <2>3. s[k] \in Continues BY <2>1, <2>2
  <2>4. k \in 1..(n - b) BY <1>8, <1>6
  <2> QED BY <2>3, <2>4, <1>1
<1> QED BY <1>2, <1>6, <1>7, <1>8 DEF s

\* How far a decoded tail goes: to the end of its last whole character.
LEMMA CompleteIs ==
    ASSUME NEW b \in Nat, NEW n \in Nat, b <= n
    PROVE  LET e == completeTo(Stretch(b, n)) IN
           /\ e \in 0..(n - b) /\ (e > 0 => b + e + 1 \notin Continues)
           /\ \A k \in 1..(n - b) : b + k + 1 \notin Continues => k <= e
<1> DEFINE s == Stretch(b, n)
           l == n - b
           S == {k \in 0..Len(s) : k = 0 \/ s[k] + 1 \notin Continues}
           e == Max(S)
<1>1. Len(s) = l /\ l \in Nat /\ \A k \in 1..l : s[k] = b + k BY StretchIs
<1>2. e = completeTo(s) BY DEF completeTo
<1> HIDE DEF s, l
<1>3. ASSUME NEW k \in 1..l PROVE k \in S <=> b + k + 1 \notin Continues BY <1>1, <1>3
<1>4. 0 \in S /\ S \subseteq 0..l BY <1>1
<1>5. l > 3 => l \in S \/ l - 1 \in S \/ l - 2 \in S \/ l - 3 \in S
  <2> SUFFICES ASSUME l > 3, b + l + 1 \in Continues
               PROVE  l - 1 \in S \/ l - 2 \in S \/ l - 3 \in S
    BY <1>1, <1>3
  <2>1. PICK k \in 1..3 : (b + l + 1) - k \notin Continues BY CharactersAreShort
  <2>2. l - k \in 1..l /\ b + (l - k) + 1 = (b + l + 1) - k BY <1>1
  <2>3. l - k \in S BY <2>1, <2>2, <1>3
  <2>4. k = 1 \/ k = 2 \/ k = 3 OBVIOUS
  <2> HIDE DEF S
  <2> QED BY <2>3, <2>4
<1> HIDE DEF S
<1>6. \E m \in S : \A k \in S : m >= k
  <2>1. CASE l \in S BY <2>1, <1>4
  <2>2. CASE l \notin S /\ l - 1 \in S BY <2>2, <1>1, <1>4
  <2>3. CASE l \notin S /\ l - 1 \notin S /\ l - 2 \in S BY <2>3, <1>1, <1>4
  <2>4. CASE l \notin S /\ l - 1 \notin S /\ l - 2 \notin S /\ l - 3 \in S BY <2>4, <1>1, <1>4
  <2>5. CASE l \notin S /\ l - 1 \notin S /\ l - 2 \notin S /\ l - 3 \notin S
    <3>1. l <= 3 BY <2>5, <1>1, <1>5
    <3>2. \A k \in S : k = 0 BY <2>5, <3>1, <1>1, <1>4
    <3> QED BY <3>2, <1>4
  <2> QED BY <2>1, <2>2, <2>3, <2>4, <2>5
<1>7. e \in S /\ \A k \in S : e >= k BY <1>6 DEF Max
<1> HIDE DEF e
<1>8. e \in 0..l BY <1>4, <1>7
<1>9. e > 0 => b + e + 1 \notin Continues BY <1>3, <1>7, <1>8
<1>10. \A k \in 1..l : b + k + 1 \notin Continues => k <= e BY <1>1, <1>3, <1>7, <1>8
<1> QED BY <1>2, <1>8, <1>9, <1>10 DEF s, l

\* What a stretch holds, and that it counts on.
LEMMA StretchHolds ==
    ASSUME NEW i \in Nat, NEW j \in Nat, i <= j
    PROVE  /\ ToSet(Stretch(i, j)) = (i + 1)..j
           /\ \A k \in DOMAIN Stretch(i, j) : Stretch(i, j)[k] = Stretch(i, j)[1] + k - 1
<1> DEFINE s == Stretch(i, j)
<1>1. DOMAIN s = 1..(j - i) /\ \A k \in 1..(j - i) : s[k] = i + k BY DEF Stretch
<1> HIDE DEF s
<1>2. ToSet(s) = (i + 1)..j
  <2>1. ASSUME NEW v \in (i + 1)..j PROVE v \in ToSet(s)
    <3>1. v - i \in 1..(j - i) /\ i + (v - i) = v OBVIOUS
    <3> QED BY <3>1, <1>1 DEF ToSet
  <2>2. ASSUME NEW v \in ToSet(s) PROVE v \in (i + 1)..j
    <3>1. PICK k \in 1..(j - i) : v = s[k] BY <1>1 DEF ToSet
    <3> QED BY <3>1, <1>1
  <2> QED BY <2>1, <2>2
<1>3. ASSUME NEW k \in DOMAIN s PROVE s[k] = s[1] + k - 1
  <2>1. k \in 1..(j - i) /\ 1 \in 1..(j - i) BY <1>1
  <2> QED BY <2>1, <1>1
<1> QED BY <1>2, <1>3 DEF s

\* A decoded tail is every whole character of the last bytes of the output.
LEMMA DecodesTail ==
    ASSUME NEW n \in Nat, NEW cut \in BOOLEAN, n > TailBytes => cut
    PROVE  LET t == decodeTail(LastOf(Bytes(n), TailBytes), cut) IN
           /\ ToSet(t) = Whole(Max({1, n - TailBytes + 1}), n)
           /\ \A i \in DOMAIN t : t[i] = t[1] + i - 1
<1> DEFINE b == IF n <= TailBytes THEN 0 ELSE n - TailBytes
           first == Max({1, n - TailBytes + 1})
           s == Stretch(b, n)
           a == skipped(s, cut)
           e == completeTo(s)
           t == SubSeq(s, a + 1, e)
<1>1. TailBytes \in Nat /\ b \in Nat /\ b <= n /\ (~cut => b = 0) /\ n - 0 = n BY TailFitsTheQueue
<1>2. first = b + 1
  <2>1. n - TailBytes + 1 \in Int BY <1>1
  <2>2. first = IF 1 <= n - TailBytes + 1 THEN n - TailBytes + 1 ELSE 1 BY <2>1, MaxOfTwo
  <2> HIDE DEF first
  <2> QED BY <2>2, <1>1
<1>3. LastOf(Bytes(n), TailBytes) = s
  <2>1. Bytes(n) = Stretch(0, n) BY BytesAreStretch
  <2>2. LastOf(Stretch(0, n), TailBytes) = IF n - 0 <= TailBytes THEN Stretch(0, n) ELSE Stretch(n - TailBytes, n)
    BY <1>1, LastOfStretch
  <2> QED BY <2>1, <2>2, <1>1
<1> HIDE DEF b, first
<1>4. /\ a \in 0..3 /\ (a < n - b => b + a + 1 \notin Continues)
      /\ \A k \in 1..a : k <= n - b => b + k \in Continues
  BY <1>1, SkippedIs
<1>5. /\ e \in 0..(n - b) /\ (e > 0 => b + e + 1 \notin Continues)
      /\ \A k \in 1..(n - b) : b + k + 1 \notin Continues => k <= e
  BY <1>1, CompleteIs
<1>6. decodeTail(LastOf(Bytes(n), TailBytes), cut) = t BY <1>3 DEF decodeTail
<1> HIDE DEF a, e
<1>7. ASSUME NEW i \in first..n PROVE i \in Whole(first, n) <=> i \in (b + a + 1)..(b + e)
  <2>1. i \in Int /\ b + 1 <= i /\ i <= n BY <1>1, <1>2
  <2>2. ASSUME i \in (b + a + 1)..(b + e) PROVE i \in Whole(first, n)
    <3>1. b + a + 1 \in first..i /\ b + a + 1 \notin Continues BY <2>1, <2>2, <1>1, <1>2, <1>4, <1>5
    <3>2. b + e + 1 \in (i + 1)..(n + 1) /\ b + e + 1 \notin Continues
      BY <2>1, <2>2, <1>1, <1>4, <1>5
    <3> QED BY <3>1, <3>2 DEF Whole
  <2>3. ASSUME i \in Whole(first, n) PROVE i \in (b + a + 1)..(b + e)
    <3>1. PICK j \in first..i : j \notin Continues BY <2>3 DEF Whole
    <3>2. PICK k \in (i + 1)..(n + 1) : k \notin Continues BY <2>3 DEF Whole
    <3>3. b + a + 1 <= i
      <4>1. j - b \in Int /\ 1 <= j - b /\ j - b <= n - b /\ b + (j - b) = j /\ j <= i
        BY <2>1, <3>1, <1>1, <1>2
      <4>2. ~(j - b <= a) BY <4>1, <3>1, <1>4
      <4> QED BY <4>1, <4>2, <2>1, <1>1, <1>4
    <3>4. i <= b + e
      <4>1. k - 1 - b \in 1..(n - b) /\ b + (k - 1 - b) + 1 = k BY <2>1, <3>2, <1>1, <1>2
      <4>2. k - 1 - b <= e BY <4>1, <3>2, <1>5
      <4> QED BY <4>2, <3>2, <2>1, <1>1, <1>5
    <3> QED BY <3>3, <3>4, <2>1, <1>1, <1>4, <1>5
  <2> QED BY <2>2, <2>3
<1>8. Whole(first, n) = (b + a + 1)..(b + e)
  <2>1. Whole(first, n) \subseteq first..n BY DEF Whole
  <2>2. (b + a + 1)..(b + e) \subseteq first..n BY <1>1, <1>2, <1>4, <1>5
  <2> QED BY <2>1, <2>2, <1>7
<1>9. CASE a <= e
  <2>1. /\ b + a \in Nat /\ b + e \in Nat /\ b <= b + a /\ b + a <= b + e /\ b + e <= n
        /\ (b + a) - b + 1 = a + 1 /\ (b + e) - b = e
    BY <1>1, <1>4, <1>5, <1>9
  <2>2. SubSeq(Stretch(b, n), (b + a) - b + 1, (b + e) - b) = Stretch(b + a, b + e)
    <3> DEFINE x == b + a
               y == b + e
    <3>1. x \in Nat /\ y \in Nat /\ b <= x /\ x <= y /\ y <= n BY <2>1
    <3> HIDE DEF x, y
    <3>2. SubSeq(Stretch(b, n), x - b + 1, y - b) = Stretch(x, y) BY <1>1, <3>1, StretchPiece
    <3> QED BY <3>2 DEF x, y
  <2>3. t = Stretch(b + a, b + e) BY <2>1, <2>2
  <2> HIDE DEF t
  <2>4. /\ ToSet(t) = (b + a + 1)..(b + e)
        /\ \A i \in DOMAIN t : t[i] = t[1] + i - 1
    BY <2>1, <2>3, StretchHolds
  <2> QED BY <2>4, <1>6, <1>8 DEF first
<1>10. CASE ~(a <= e)
  <2>1. t = <<>> BY <1>4, <1>5, <1>10, SubSeqEmpty
  <2>2. (b + a + 1)..(b + e) = {} BY <1>1, <1>4, <1>5, <1>10
  <2> HIDE DEF t
  <2>3. ToSet(<<>>) = {} /\ DOMAIN <<>> = {} BY DEF ToSet
  <2> QED BY <2>1, <2>2, <2>3, <1>6, <1>8 DEF first
<1> QED BY <1>9, <1>10

\* The capture is as it was, but that its writer may be closed.
LEMMA CaptureStays ==
    ASSUME CommandInv, UNCHANGED <<taken, capture, queue, file, stored>>,
           spilling' = spilling \/ (spilling = "open" /\ spilling' = "closing"),
           emitted' \in Nat, emitted <= emitted', Live' => Live
    PROVE  CommandTypes' /\ SpillInOrder' /\ SpillHolds' /\ (Live' => TailHeld' /\ TodoHolds')
<1>1. CommandTypes /\ SpillInOrder /\ SpillHolds /\ (Live => TailHeld /\ TodoHolds)
  BY DEF CommandInv
<1>2. CommandTypes' BY <1>1 DEF CommandTypes
<1>3. SpillInOrder' BY <1>1 DEF SpillInOrder
<1>4. SpillHolds'
  <2>1. spilling' = "none" <=> spilling = "none" OBVIOUS
  <2> QED BY <1>1, <2>1, Zenon DEF SpillHolds
<1>5. ASSUME Live' PROVE TailHeld' /\ TodoHolds'
  <2>1. TailHeld /\ TodoHolds BY <1>1, <1>5
  <2>2. SpillAccounts(capture', taken') <=> SpillAccounts(capture, taken) BY DEF SpillAccounts
  <2> QED BY <2>1, <2>2 DEF TailHeld, TodoHolds
<1> QED BY <1>2, <1>3, <1>4, <1>5

\* A result that has been given stays true.
LEMMA ResultStays ==
    ASSUME CommandInv, result' = result, exit' = exit,
           toolCall' = "returned" =>
               /\ toolCall = "returned" /\ (expired => expired')
               /\ command = "over" => command' = "over" /\ emitted' = emitted
    PROVE  TextIsTheTail' /\ StatusIsTrue'
<1>1. TextIsTheTail /\ StatusIsTrue BY DEF CommandInv
<1>2. TextIsTheTail' BY <1>1 DEF TextIsTheTail
<1>3. ASSUME toolCall' = "returned" PROVE StatusIsTrue' BY <1>1, <1>3 DEF StatusIsTrue
<1>4. StatusIsTrue' BY <1>3 DEF StatusIsTrue
<1> QED BY <1>2, <1>4

\* What is reported of a capture.
LEMMA FinishReports ==
    ASSUME NEW c, NEW read, NEW byCaller, NEW r,
           \/ r = finishCapture(c, read, byCaller)
           \/ r = [finishCapture(c, read, byCaller) EXCEPT !.detached = TRUE]
    PROVE  /\ r.text = decodeTail(c.held, c.over) /\ r.read = read /\ r.lost = Len(c.chunk)
           /\ r.truncated = c.over /\ r.path = (c.over /\ ~c.failed)
           /\ r.partial = ((c.over /\ ~c.failed) /\ c.partial)
           /\ r.pending = ((c.over /\ ~c.failed) /\ ~stored)
           /\ r.status = executionStatus(exit.code, byCaller) /\ r.timedOut = timedOut
           /\ r.light = exit.light
<1> DEFINE text == decodeTail(c.held, c.over)
           status == executionStatus(exit.code, byCaller)
           late == timedOut
           unseen == Len(c.chunk)
<1>1. \/ r = [NoResult EXCEPT !.text = text, !.truncated = c.over, !.path = c.over /\ ~c.failed,
                    !.partial = (c.over /\ ~c.failed) /\ c.partial,
                    !.pending = (c.over /\ ~c.failed) /\ ~stored,
                    !.status = status, !.timedOut = late, !.light = exit.light,
                    !.read = read, !.lost = unseen]
      \/ r = [[NoResult EXCEPT !.text = text, !.truncated = c.over, !.path = c.over /\ ~c.failed,
                    !.partial = (c.over /\ ~c.failed) /\ c.partial,
                    !.pending = (c.over /\ ~c.failed) /\ ~stored,
                    !.status = status, !.timedOut = late, !.light = exit.light,
                    !.read = read, !.lost = unseen] EXCEPT !.detached = TRUE]
  BY DEF finishCapture, text, status, late, unseen
<1> HIDE DEF text, status, late, unseen
<1>2. r.text = text /\ r.read = read /\ r.lost = unseen /\ r.status = status
  BY <1>1, ZenonT(60) DEF NoResult
<1>3. r.truncated = c.over BY <1>1, ZenonT(60) DEF NoResult
<1>4. r.path = (c.over /\ ~c.failed) BY <1>1, ZenonT(60) DEF NoResult
<1>5. r.partial = ((c.over /\ ~c.failed) /\ c.partial) BY <1>1, ZenonT(60) DEF NoResult
<1>6. r.pending = ((c.over /\ ~c.failed) /\ ~stored) BY <1>1, ZenonT(60) DEF NoResult
<1>7. r.timedOut = late BY <1>1, ZenonT(60) DEF NoResult
<1>8. r.light = exit.light BY <1>1, ZenonT(60) DEF NoResult
<1> QED BY <1>2, <1>3, <1>4, <1>5, <1>6, <1>7, <1>8 DEF text, status, late, unseen

\* A call that answers: its text is the tail of what was read, all but a last
\* chunk that a push left out; its spill is stored, or pending, as it says.
LEMMA AnswerIsTrue ==
    ASSUME CommandInv, NEW c \in Captures, NEW read \in Nat, NEW last \in Nat, NEW byCaller,
           \/ result' = finishCapture(c, read, byCaller)
           \/ result' = [finishCapture(c, read, byCaller) EXCEPT !.detached = TRUE],
           toolCall \in {"reading", "pushing", "closing"}, UNCHANGED <<file, stored>>,
           c.held = LastOf(Bytes(last), TailBytes), Len(c.chunk) = read - last,
           c.over <=> read > TailBytes, last <= read, last > TailBytes => c.over,
           last < read => result'.detached /\ last <= TailBytes,
           c.failed <=> capture.failed,
           toolCall = "closing" => c = capture /\ read = taken
    PROVE  Reported' /\ TextIsTheTail'
<1>1. CommandTypes /\ SpillHolds /\ CallStands /\ (Live => TailHeld /\ TodoHolds) BY DEF CommandInv
<1>2. /\ result'.text = decodeTail(c.held, c.over) /\ result'.read = read
      /\ result'.lost = Len(c.chunk) /\ result'.truncated = c.over
  BY FinishReports
<1>3. result'.path = (c.over /\ ~c.failed) BY FinishReports
<1>4. result'.partial = ((c.over /\ ~c.failed) /\ c.partial) BY FinishReports
<1>5. result'.pending = ((c.over /\ ~c.failed) /\ ~stored) BY FinishReports
<1>6. TextIsTheTail'
  <2>1. read - (read - last) = last /\ TailBytes \in Nat BY TailFitsTheQueue
  <2>2. c.over \in BOOLEAN BY DEF Captures
  <2>3. /\ ToSet(decodeTail(LastOf(Bytes(last), TailBytes), c.over))
               = Whole(Max({1, last - TailBytes + 1}), last)
        /\ \A i \in DOMAIN decodeTail(LastOf(Bytes(last), TailBytes), c.over) :
               decodeTail(LastOf(Bytes(last), TailBytes), c.over)[i]
                   = decodeTail(LastOf(Bytes(last), TailBytes), c.over)[1] + i - 1
    BY <2>2, DecodesTail
  <2> DEFINE t == decodeTail(LastOf(Bytes(last), TailBytes), c.over)
  <2>4. result'.text = t /\ result'.read - result'.lost = last BY <1>2, <2>1
  <2>5. result'.lost > 0 => last < read BY <1>2
  <2> HIDE DEF t
  <2>6. ToSet(t) = Whole(Max({1, last - TailBytes + 1}), last)
        /\ \A i \in DOMAIN t : t[i] = t[1] + i - 1
    BY <2>3 DEF t
  <2>7. last > TailBytes => result'.truncated BY <1>2
  <2>8. result'.truncated => result'.read > TailBytes BY <1>2
  <2>9. result'.lost > 0 => result'.detached /\ last <= TailBytes BY <2>5
  <2> QED BY <2>4, <2>6, <2>7, <2>8, <2>9 DEF TextIsTheTail
<1>7. ASSUME result'.path, ~result'.pending
      PROVE  stored /\ Len(file) = IF result'.partial THEN SpillMax ELSE read
  <2>1. c.over /\ ~c.failed /\ stored /\ ~capture.failed BY <1>3, <1>5, <1>7, Zenon
  <2>2. result'.partial <=> c.partial BY <1>4, <2>1, Zenon
  <2>3. spilling = "closing" /\ queue = <<>> /\ toolCall = "closing" /\ capture.todo = <<>>
    BY <2>1, <1>1 DEF CallStands
  <2>4. c = capture /\ read = taken /\ TodoHolds BY <2>3, <1>1 DEF Live
  <2>5. capture.spilled = Len(file) + Len(queue) BY <2>1, <1>1 DEF SpillHolds
  <2>6. capture.spilled = IF capture.partial THEN SpillMax ELSE taken
    BY <2>1, <2>3, <2>4 DEF TodoHolds, SpillAccounts
  <2>7. Len(queue) = 0 /\ Len(file) \in Nat BY <2>3, <1>1, EmptySeq, LenProperties DEF CommandTypes
  <2> QED BY <2>1, <2>2, <2>4, <2>5, <2>6, <2>7
<1>8. Reported'
  <2>1. result'.path /\ ~result'.pending =>
            stored' /\ Len(file') = IF result'.partial THEN SpillMax ELSE result'.read
    BY <1>2, <1>7, Zenon
  <2> QED BY <2>1 DEF Reported
<1> QED BY <1>6, <1>8

\* A command left behind is reported cancelled, and timed out only if it is.
LEMMA LeftIsTrue ==
    ASSUME CommandInv, NEW c, NEW read,
           result' = [finishCapture(c, read, TRUE) EXCEPT !.detached = TRUE],
           UNCHANGED <<expired, exit>>
    PROVE  StatusIsTrue'
<1>1. ExitStands BY DEF CommandInv
<1>2. result'.status = "cancelled" BY DEF finishCapture, NoResult, executionStatus
<1>3. result'.timedOut = timedOut
  <2> DEFINE late == timedOut
  <2> SUFFICES result'.timedOut = late OBVIOUS
  <2> HIDE DEF late
  <2> QED BY DEF finishCapture, NoResult, late
<1>4. result'.detached BY DEF finishCapture, NoResult
<1>5. timedOut => expired /\ exit.completed # "inTime" BY <1>1 DEF timedOut, ExitStands
<1> QED BY <1>2, <1>3, <1>4, <1>5 DEF StatusIsTrue

\* Steps outside the capture: the shell, the timers, the start, the slot.
LEMMA AroundTheCall ==
    ASSUME CommandInv,
           \/ Emit \/ Ends \/ abort \/ graceExpired \/ deadlinePasses \/ stopAtDeadline
           \/ mkdir \/ exec \/ Refused \/ ExecFails \/ Answered \/ ReadFails \/ StopsWaiting \/ Released
    PROVE  CommandInv'
<1>1. /\ CommandTypes /\ SpillHolds /\ CallStands /\ ExitStands /\ Reported /\ SlotCoversTheCommand
  BY DEF CommandInv
<1>2. UNCHANGED <<taken, capture, spilling, queue, file, stored, exit>>
  BY DEF Emit, Ends, abort, graceExpired, deadlinePasses, stopAtDeadline, mkdir, exec, Refused,
    ExecFails, Answered, ReadFails, StopsWaiting, Released, output, ending
<1>3. emitted' \in Nat /\ emitted <= emitted' /\ (emitted' = emitted \/ command # "over")
  <2>1. emitted' = emitted \/ (emitted' = emitted + 1 /\ command # "over")
    BY DEF Emit, Ends, abort, graceExpired, deadlinePasses, stopAtDeadline, mkdir, exec,
      Refused, ExecFails, Answered, ReadFails, StopsWaiting, Released, shell
  <2> QED BY <2>1, <1>1 DEF CommandTypes
<1>4. Live' => Live
  BY DEF Live, Emit, Ends, abort, graceExpired, deadlinePasses, stopAtDeadline, mkdir, exec,
    Refused, ExecFails, Answered, ReadFails, StopsWaiting, Released
<1>5. CommandTypes' /\ SpillInOrder' /\ SpillHolds' /\ (Live' => TailHeld' /\ TodoHolds')
  BY <1>2, <1>3, <1>4, CaptureStays
<1>6. CallStands'
  BY <1>1, <1>2 DEF CallStands, Emit, Ends, abort, graceExpired, deadlinePasses, stopAtDeadline,
    mkdir, exec, Refused, ExecFails, Answered, ReadFails, StopsWaiting, Released, exited, shell,
    ending
<1>7. ExitStands'
  BY <1>1, <1>2 DEF ExitStands, Emit, Ends, abort, graceExpired, deadlinePasses, stopAtDeadline,
    mkdir, exec, Refused, ExecFails, Answered, ReadFails, StopsWaiting, Released, clocks
<1>8. Reported' /\ TextIsTheTail' /\ StatusIsTrue'
  <2>1. CASE StopsWaiting
    <3>1. result' = [NoResult EXCEPT !.status = "cancelled", !.detached = TRUE]
      BY <2>1 DEF StopsWaiting
    <3>2. result'.read = 0 /\ ~result'.path /\ result'.status = "cancelled" /\ result'.detached
      BY <3>1 DEF NoResult
    <3>3. ~result'.timedOut BY <3>1 DEF NoResult
    <3> QED BY <3>2, <3>3 DEF Reported, TextIsTheTail, StatusIsTrue
  <2>2. CASE ~StopsWaiting
    <3>1. result' = result /\ (toolCall' = "returned" => toolCall = "returned")
      BY <2>2 DEF Emit, Ends, abort, graceExpired, deadlinePasses, stopAtDeadline, mkdir, exec,
        Refused, ExecFails, Answered, ReadFails, Released, ending
    <3>2. toolCall' = "returned" => (expired => expired') /\ (command = "over" => command' = "over")
      BY <2>2 DEF Emit, Ends, abort, graceExpired, deadlinePasses, stopAtDeadline, mkdir, exec,
        Refused, ExecFails, Answered, ReadFails, Released, shell, clocks
    <3>3. TextIsTheTail' /\ StatusIsTrue' BY <3>1, <3>2, <1>2, <1>3, ResultStays
    <3>4. Reported' BY <3>1, <1>1, <1>2 DEF Reported
    <3> QED BY <3>3, <3>4
  <2> QED BY <2>1, <2>2
<1>9. SlotCoversTheCommand'
  BY <1>1 DEF SlotCoversTheCommand, CallStands, Emit, Ends, abort, graceExpired, deadlinePasses,
    stopAtDeadline, mkdir, exec, Refused, ExecFails, Answered, ReadFails, StopsWaiting,
    Released, exited, clocks, shell, ending
<1> QED BY <1>5, <1>6, <1>7, <1>8, <1>9 DEF CommandInv

\* The event stream gives the exit, or its end.
LEMMA StreamEnds ==
    ASSUME CommandInv, ReadExit \/ ReadEnd
    PROVE  CommandInv'
<1>1. CommandTypes /\ CallStands /\ ExitStands /\ SlotCoversTheCommand BY DEF CommandInv
<1>2. /\ UNCHANGED <<taken, capture, queue, file, stored, command, emitted, expired, lingering, result>>
      /\ spilling' = spilling \/ (spilling = "open" /\ spilling' = "closing")
      /\ toolCall = "reading" /\ toolCall' \in {"reading", "closing"}
      /\ command = "over" /\ taken = emitted /\ (spilling' # spilling => toolCall' = "closing")
  BY DEF ReadExit, ReadEnd, closesSpill, output, clocks, shell, ending
<1>3. emitted' \in Nat /\ emitted <= emitted' /\ (Live' => Live)
  BY <1>1, <1>2 DEF CommandTypes, Live
<1>4. CommandTypes' /\ SpillInOrder' /\ SpillHolds' /\ (Live' => TailHeld' /\ TodoHolds')
  BY <1>2, <1>3, CaptureStays
<1>5. CallStands' BY <1>1, <1>2 DEF CallStands
<1>6. ExitStands'
  <2>1. CASE ReadEnd BY <2>1, <1>1 DEF ReadEnd, ExitStands, clocks, ending
  <2>2. CASE ReadExit
    <3>1. PICK code \in {0, 1}, light \in BOOLEAN :
              /\ exit' = [code |-> code, completed |-> IF expired THEN "late" ELSE "inTime", light |-> light]
              /\ interrupted' = (interrupted \/ light)
      BY <2>2 DEF ReadExit
    <3>2. exit'.light => interrupted' BY <3>1
    <3>3. exit'.completed = "late" => expired BY <3>1
    <3> QED BY <3>2, <3>3, <1>2 DEF ExitStands
  <2> QED BY <2>1, <2>2
<1>7. Reported' /\ TextIsTheTail' /\ StatusIsTrue' BY <1>2 DEF Reported, TextIsTheTail, StatusIsTrue
<1>8. SlotCoversTheCommand' BY <1>1, <1>2 DEF SlotCoversTheCommand
<1> QED BY <1>4, <1>5, <1>6, <1>7, <1>8 DEF CommandInv

\* The call answers with what it has read.
LEMMA CallAnswers ==
    ASSUME CommandInv, Detaches \/ Returns
    PROVE  CommandInv'
<1>1. /\ CommandTypes /\ CallStands /\ ExitStands /\ SlotCoversTheCommand
      /\ SpillHolds /\ (Live => TailHeld /\ TodoHolds)
  BY DEF CommandInv
<1>2. /\ UNCHANGED <<taken, capture, queue, file, stored, command, emitted, expired, exit>>
      /\ spilling' = spilling \/ (spilling = "open" /\ spilling' = "closing")
      /\ toolCall \in {"reading", "pushing", "closing"} /\ toolCall' = "returned"
      /\ \/ interrupted' = TRUE /\ result' = [finishCapture(capture, taken, TRUE) EXCEPT !.detached = TRUE]
         \/ interrupted' = interrupted /\ result' = finishCapture(capture, taken, interrupted)
  BY DEF Detaches, leavesCommand, Returns, closesSpill, output, clocks, shell
<1>3. emitted' \in Nat /\ emitted <= emitted' /\ ~Live' /\ TailHeld
  BY <1>1, <1>2 DEF CommandTypes, Live
<1>4. CommandTypes' /\ SpillInOrder' /\ SpillHolds' BY <1>2, <1>3, CaptureStays
<1>5. CallStands'
  <2>1. stored /\ ~capture.failed => spilling' = "closing" /\ queue = <<>>
    BY <1>1, <1>2 DEF CallStands
  <2> QED BY <2>1, <1>2 DEF CallStands
<1>6. ExitStands'
  <2>1. interrupted => interrupted' BY <1>2
  <2>2. exit' = exit /\ expired' = expired BY <1>2
  <2> QED BY <2>1, <2>2, <1>1, Zenon DEF ExitStands
<1>7. Reported' /\ TextIsTheTail'
  <2>1. /\ taken \in Nat /\ capture \in Captures /\ Len(capture.chunk) = taken - taken
        /\ capture.held = LastOf(Bytes(taken), TailBytes) /\ (capture.over <=> taken > TailBytes)
        /\ ~(taken < taken) /\ taken <= taken
    BY <1>1, <1>3, EmptySeq DEF CommandTypes, TailHeld
  <2>2. CASE result' = finishCapture(capture, taken, interrupted) BY <2>1, <2>2, <1>2, AnswerIsTrue
  <2>3. CASE result' = [finishCapture(capture, taken, TRUE) EXCEPT !.detached = TRUE]
    BY <2>1, <2>3, <1>2, AnswerIsTrue
  <2> QED BY <2>2, <2>3, <1>2
<1>8. StatusIsTrue'
  <2>1. CASE Detaches
    <3>1. result' = [finishCapture(capture, taken, TRUE) EXCEPT !.detached = TRUE]
      BY <2>1 DEF Detaches, leavesCommand
    <3> QED BY <3>1, <1>2, LeftIsTrue
  <2>2. CASE Returns
    <3>1. result' = finishCapture(capture, taken, interrupted) /\ toolCall = "closing"
      BY <2>2 DEF Returns
    <3>2. command = "over" /\ taken = emitted BY <3>1, <1>1 DEF CallStands
    <3>3. /\ result'.status = executionStatus(exit.code, interrupted) /\ result'.read = taken
          /\ result'.timedOut = timedOut /\ result'.light = exit.light
      BY <3>1, FinishReports
    <3>4. result'.detached = FALSE BY <3>1 DEF finishCapture, NoResult
    <3>5. result'.status = "completed" => exit.code = 0 /\ ~interrupted BY <3>3 DEF executionStatus
    <3>6. ~interrupted => ~result'.light BY <3>3, <1>1 DEF ExitStands
    <3>7. result'.timedOut => expired /\ exit.completed # "inTime"
      BY <3>3, <1>1 DEF timedOut, ExitStands
    <3>8. result'.status = "completed" =>
              exit.code = 0 /\ command = "over" /\ ~result'.light /\ result'.read = emitted /\ ~result'.detached
      BY <3>2, <3>3, <3>4, <3>5, <3>6
    <3> QED BY <3>2, <3>4, <3>7, <3>8, <1>2 DEF StatusIsTrue
  <2> QED BY <2>1, <2>2
<1>9. SlotCoversTheCommand'
  <2>1. CASE Detaches BY <2>1 DEF Detaches, leavesCommand, SlotCoversTheCommand
  <2>2. CASE Returns BY <2>2, <1>1, <1>2 DEF Returns, SlotCoversTheCommand, CallStands
  <2> QED BY <2>1, <2>2
<1> QED BY <1>3, <1>4, <1>5, <1>6, <1>7, <1>8, <1>9 DEF CommandInv

\* Storage takes the next byte of the queue: the file goes on where it ended.
LEMMA StoreKeeps ==
    ASSUME CommandInv, Store PROVE CommandInv'
<1>1. /\ CommandTypes /\ SpillInOrder /\ SpillHolds /\ CallStands /\ ExitStands /\ Reported
      /\ SlotCoversTheCommand /\ (Live => TailHeld /\ TodoHolds)
  BY DEF CommandInv
<1>2. /\ queue # <<>> /\ ~stored
      /\ file' = Append(file, Head(queue)) /\ queue' = Tail(queue)
      /\ UNCHANGED <<shell, toolCall, clocks, taken, capture, spilling, stored, ending>>
  BY DEF Store
<1> DEFINE f == Len(file)
           g == Len(file) + Len(queue)
           f2 == f + 1
<1>3. /\ f \in Nat /\ g \in Nat /\ f < g /\ f2 \in Nat /\ f2 <= g /\ 0 <= f
      /\ file = Stretch(0, f) /\ queue = Stretch(f, g) /\ g - f = Len(queue)
  <2>1. Len(file) \in Nat /\ Len(queue) \in Nat /\ Len(queue) # 0
    BY <1>1, <1>2, EmptySeq, LenProperties DEF CommandTypes
  <2> QED BY <2>1, <1>1 DEF SpillInOrder
<1>4. file' = Stretch(0, f2) /\ queue' = Stretch(f2, g)
  <2>1. Head(queue) = f2 /\ Tail(queue) = Stretch(f2, g)
    <3> HIDE DEF f, g
    <3> QED BY <1>3, StretchShrinks
  <2>2. Append(file, f2) = Stretch(0, f2)
    <3>1. Append(Stretch(0, f), f + 1) = Stretch(0, f + 1)
      <4> HIDE DEF f, g
      <4> QED BY <1>3, StretchGrows
    <3> QED BY <3>1, <1>3
  <2> HIDE DEF f, g, f2
  <2> QED BY <2>1, <2>2, <1>2
<1>5. /\ file' \in Seq(Nat) /\ queue' \in Seq(Nat) /\ Len(file') = f2 /\ Len(queue') = g - f2
  <2>1. Stretch(0, f2) \in Seq(Nat) /\ Len(Stretch(0, f2)) = f2 - 0
    <3>1. 0 \in Nat /\ 0 <= f2 BY <1>3
    <3> HIDE DEF f2
    <3> QED BY <1>3, <3>1, StretchIs
  <2>2. Stretch(f2, g) \in Seq(Nat) /\ Len(Stretch(f2, g)) = g - f2
    <3> HIDE DEF f2, g
    <3> QED BY <1>3, StretchIs
  <2>3. f2 - 0 = f2 BY <1>3
  <2> HIDE DEF f2, g
  <2> QED BY <2>1, <2>2, <2>3, <1>4
<1>6. f2 + (g - f2) = g /\ g - f2 <= g - f BY <1>3
<1>7. CommandTypes' BY <1>1, <1>2, <1>5 DEF CommandTypes, shell
<1>8. /\ CallStands' /\ ExitStands' /\ TextIsTheTail' /\ StatusIsTrue' /\ SlotCoversTheCommand'
      /\ Live' => TailHeld' /\ TodoHolds'
  <2>1. CallStands' /\ ExitStands' /\ SlotCoversTheCommand'
    BY <1>1, <1>2 DEF CallStands, ExitStands, SlotCoversTheCommand, shell, clocks, ending
  <2>2. TextIsTheTail' /\ StatusIsTrue' BY <1>2, ResultStays DEF shell, clocks, ending
  <2>3. SpillAccounts(capture, taken)' <=> SpillAccounts(capture, taken) BY <1>2 DEF SpillAccounts
  <2>4. Live' => TailHeld' /\ TodoHolds' BY <2>3, <1>1, <1>2 DEF Live, TailHeld, TodoHolds
  <2> QED BY <2>1, <2>2, <2>4
<1>9. Reported' BY <1>1, <1>2 DEF Reported, ending
<1>10. SpillInOrder'
  <2>1. Len(file') + Len(queue') = g BY <1>5, <1>6
  <2>2. Len(queue') <= SpillQueue
    <3>1. Len(queue') \in Int /\ Len(queue) \in Int /\ SpillQueue \in Int
      BY <1>1, <1>5, LenProperties, TailFitsTheQueue DEF CommandTypes
    <3>2. Len(queue') <= Len(queue) /\ Len(queue) <= SpillQueue
      BY <1>1, <1>3, <1>5, <1>6 DEF SpillInOrder
    <3> QED BY <3>1, <3>2
  <2> HIDE DEF f2, g
  <2> QED BY <2>1, <2>2, <1>1, <1>2, <1>4, <1>5 DEF SpillInOrder
<1>11. SpillHolds'
  <2>1. capture.over BY <1>1, <1>2 DEF SpillHolds
  <2>2. Len(file') + Len(queue') = Len(file) + Len(queue) BY <1>5, <1>6
  <2> QED BY <2>1, <2>2, <1>1, <1>2 DEF SpillHolds
<1> QED BY <1>7, <1>8, <1>9, <1>10, <1>11 DEF CommandInv

\* Storage fails, or ends the file of a closed writer; a push that was left
\* behind finds the writer closed.
LEMMA StorageSettles ==
    ASSUME CommandInv, StoreFails \/ StoreEnds \/ PushLeftBehind
    PROVE  CommandInv'
<1>1. /\ CommandTypes /\ SpillInOrder /\ SpillHolds /\ CallStands /\ ExitStands /\ Reported
      /\ SlotCoversTheCommand /\ (Live => TailHeld /\ TodoHolds)
  BY DEF CommandInv
<1>2. UNCHANGED <<shell, toolCall, clocks, taken, spilling, file, ending>>
  BY DEF StoreFails, StoreEnds, PushLeftBehind
<1>3. /\ Len(file) \in Nat /\ Stretch(Len(file), Len(file)) = <<>> /\ <<>> \in Seq(Nat)
      /\ Len(<<>>) = 0 /\ Len(file) + 0 = Len(file)
  <2>1. Len(file) \in Nat BY <1>1, LenProperties DEF CommandTypes
  <2> QED BY <2>1, StretchIs, EmptySeq
<1>4. TextIsTheTail' /\ StatusIsTrue' BY <1>2, ResultStays DEF shell, clocks, ending
<1>5. SlotCoversTheCommand' /\ ExitStands' /\ (Live' <=> Live)
  BY <1>1, <1>2 DEF SlotCoversTheCommand, ExitStands, Live, shell, clocks, ending
<1>6. CASE StoreFails
  <2>1. /\ spilling # "none" /\ ~stored /\ stored' /\ queue' = <<>>
        /\ capture' = [capture EXCEPT !.failed = TRUE]
    BY <1>6 DEF StoreFails
  <2>2. /\ capture' \in Captures /\ capture'.held = capture.held /\ capture'.todo = capture.todo
        /\ capture'.chunk = capture.chunk
    BY <2>1, <1>1 DEF CommandTypes, Captures
  <2>3. capture'.failed /\ capture'.over = capture.over
    BY <2>1, <1>1, Zenon DEF CommandTypes, Captures
  <2>4. capture.over BY <2>1, <1>1 DEF SpillHolds
  <2>5. CommandTypes' BY <2>1, <2>2, <1>1, <1>2, <1>3 DEF CommandTypes, shell
  <2>6. SpillInOrder'
    <3>1. 0 <= SpillQueue BY TailFitsTheQueue
    <3> QED BY <3>1, <2>1, <2>2, <1>1, <1>2, <1>3 DEF SpillInOrder
  <2>7. Live' => TailHeld' /\ TodoHolds' BY <2>2, <2>3, <1>1, <1>2, <1>5 DEF TailHeld, TodoHolds
  <2>8. SpillHolds' BY <2>1, <2>3, <2>4, <1>2 DEF SpillHolds
  <2>9. CallStands' BY <2>1, <2>2, <2>3, <1>1, <1>2 DEF CallStands, shell, ending
  <2>10. Reported' BY <2>1, <1>1, <1>2 DEF Reported, ending
  <2> QED BY <2>5, <2>6, <2>7, <2>8, <2>9, <2>10, <1>4, <1>5 DEF CommandInv
<1>7. CASE StoreEnds
  <2>1. spilling = "closing" /\ queue = <<>> /\ ~stored /\ stored' /\ UNCHANGED <<capture, queue>>
    BY <1>7 DEF StoreEnds
  <2>2. CommandTypes' /\ SpillInOrder' BY <2>1, <1>1, <1>2 DEF CommandTypes, SpillInOrder, shell
  <2>3. SpillHolds'
    <3>1. capture.over BY <2>1, <1>1 DEF SpillHolds
    <3> QED BY <3>1, <2>1, <1>1, <1>2 DEF SpillHolds
  <2>4. CallStands' BY <2>1, <1>1, <1>2 DEF CallStands, shell, ending
  <2>5. Reported' BY <2>1, <1>1, <1>2 DEF Reported, ending
  <2>6. Live' => TailHeld' /\ TodoHolds'
    <3>1. SpillAccounts(capture, taken)' <=> SpillAccounts(capture, taken)
      BY <2>1, <1>2 DEF SpillAccounts
    <3> QED BY <3>1, <2>1, <1>1, <1>2, <1>5 DEF TailHeld, TodoHolds
  <2> QED BY <2>2, <2>3, <2>4, <2>5, <2>6, <1>4, <1>5 DEF CommandInv
<1>8. CASE PushLeftBehind
  <2> DEFINE c == [capture EXCEPT !.failed = TRUE]
             d == [c EXCEPT !.todo = <<>>]
             tail == LastOf(d.held \o c.chunk, TailBytes)
  <2>1. /\ toolCall = "returned" /\ capture.todo # <<>> /\ UNCHANGED <<queue, stored>>
        /\ capture' = Dropped(c)
    BY <1>8 DEF PushLeftBehind
  <2>2. c \in Captures /\ c.held = capture.held /\ c.chunk = capture.chunk
    BY <1>1 DEF CommandTypes, Captures
  <2>3. c.failed /\ c.over = capture.over BY <1>1, Zenon DEF CommandTypes, Captures
  <2> HIDE DEF c
  <2>4. d \in Captures /\ d.held = capture.held /\ d.todo = <<>> /\ d.chunk = capture.chunk
    BY <2>2, <1>3 DEF Captures
  <2>5. d.failed /\ d.over = capture.over BY <2>2, <2>3, Zenon DEF Captures
  <2>6. capture' = IF c.chunk # <<>> /\ Len(d.todo) <= Len(c.chunk)
                   THEN [d EXCEPT !.held = LastOf(d.held \o d.chunk, TailBytes), !.chunk = <<>>] ELSE d
    BY <2>1 DEF Dropped, TakesTail, Took, trimTail, d
  <2> HIDE DEF d
  <2>7. tail \in Seq(Nat) /\ Len(tail) <= TailBytes /\ d.chunk = c.chunk
    <3>1. d.held \o c.chunk \in Seq(Nat) BY <2>2, <2>4, ConcatProperties DEF Captures
    <3> QED BY <3>1, <2>2, <2>4, LastOfIs, TailFitsTheQueue
  <2>8. capture' = d \/ capture' = [d EXCEPT !.held = tail, !.chunk = <<>>] BY <2>6, <2>7
  <2> HIDE DEF tail
  <2>9. /\ capture' \in Captures /\ capture'.held \in {d.held, tail} /\ capture'.todo = <<>>
    BY <2>4, <2>7, <2>8, <1>3 DEF Captures
  <2>10. capture'.failed /\ capture'.over = capture.over BY <2>4, <2>5, <2>8, Zenon DEF Captures
  <2>11. capture.over BY <2>1, <1>1 DEF SpillHolds
  <2>12. CommandTypes' BY <2>1, <2>9, <1>1, <1>2 DEF CommandTypes, shell
  <2>13. SpillInOrder' BY <2>1, <2>4, <2>7, <2>9, <1>1, <1>2 DEF SpillInOrder
  <2>14. SpillHolds' BY <2>1, <2>10, <2>11, <1>1, <1>2 DEF SpillHolds
  <2>15. CallStands' BY <2>1, <2>10, <1>1, <1>2 DEF CallStands, shell, ending
  <2>16. Reported' BY <2>1, <1>1, <1>2 DEF Reported, ending
  <2>17. ~Live' BY <2>1, <1>2 DEF Live
  <2> QED BY <2>12, <2>13, <2>14, <2>15, <2>16, <2>17, <1>4, <1>5 DEF CommandInv
<1> QED BY <1>6, <1>7, <1>8

\* What a write leaves is what the invariant asks for.
LEMMA AfterWrite ==
    ASSUME CommandInv, NEW c \in Captures, NEW w, NEW n \in Nat, NEW g \in Nat, NEW rest \in Nat,
           WrittenUpTo(c, w, n, Len(file), g, rest), c.failed <=> capture.failed,
           capture' = w.capture, queue' = w.queue, UNCHANGED <<file, stored>>, taken' = n,
           TailBytes < n, emitted' \in Nat, n <= emitted', spilling' # "none"
    PROVE  /\ CommandTypes' /\ TailHeld' /\ TodoHolds' /\ SpillInOrder' /\ SpillHolds'
           /\ capture'.over /\ (capture'.failed <=> capture.failed)
           /\ capture.failed => capture'.todo = <<>>
<1> DEFINE f == Len(file)
<1>1. CommandTypes /\ SpillInOrder BY DEF CommandInv
<1>2. /\ capture' \in Captures /\ capture'.chunk = <<>>
      /\ capture'.held = LastOf(Bytes(n), TailBytes)
      /\ rest <= n /\ capture'.todo = Stretch(rest, n)
      /\ f <= g /\ queue' = Stretch(f, g) /\ g - f <= SpillQueue
      /\ capture.failed => rest = n
      /\ ~capture.failed => /\ capture'.spilled = g /\ g <= SpillMax
                            /\ rest < n => g = rest /\ (capture'.partial => n > SpillMax)
                            /\ rest = n => g = IF capture'.partial THEN SpillMax ELSE n
  BY DEF WrittenUpTo
<1>3. capture'.over /\ (capture'.failed <=> capture.failed) BY Zenon DEF WrittenUpTo
<1>4. f \in Nat BY <1>1, LenProperties DEF CommandTypes
<1>5. /\ queue' \in Seq(Nat) /\ Len(queue') = g - f /\ f + (g - f) = g
  <2>1. f <= g /\ queue' = Stretch(f, g) BY <1>2
  <2> HIDE DEF f
  <2>2. Stretch(f, g) \in Seq(Nat) /\ Len(Stretch(f, g)) = g - f BY <2>1, <1>4, StretchIs
  <2> QED BY <2>1, <2>2, <1>4
<1>6. /\ capture'.todo \in Seq(Nat) /\ Len(capture'.todo) = n - rest /\ n - (n - rest) = rest
      /\ capture'.todo = <<>> <=> rest = n
  <2>1. rest <= n /\ capture'.todo = Stretch(rest, n) BY <1>2
  <2>2. /\ Stretch(rest, n) \in Seq(Nat) /\ Len(Stretch(rest, n)) = n - rest
        /\ Stretch(rest, n) = <<>> <=> rest = n
    BY <2>1, StretchIs
  <2>3. n - (n - rest) = rest OBVIOUS
  <2> QED BY <2>1, <2>2, <2>3
<1>7. CommandTypes' BY <1>1, <1>2, <1>5 DEF CommandTypes
<1>8. TailHeld'
  <2>1. n > TailBytes BY TailFitsTheQueue
  <2> QED BY <2>1, <1>2, <1>3 DEF TailHeld
<1>9. SpillInOrder'
  <2>1. Len(capture'.held) <= TailBytes
    <3>1. n <= n /\ TailBytes \in Nat BY TailFitsTheQueue
    <3>2. Len(LastOf(Bytes(n), TailBytes)) = IF n <= TailBytes THEN n ELSE TailBytes
      BY <3>1, TailAfterMore
    <3> QED BY <3>1, <3>2, <1>2
  <2> HIDE DEF f
  <2>2. Len(file') = f BY DEF f
  <2> QED BY <2>1, <2>2, <1>1, <1>2, <1>5 DEF SpillInOrder
<1>10. ASSUME ~capture.failed
       PROVE  capture'.spilled = Len(file') + Len(queue') /\ SpillAccounts(capture', taken')
  <2>1. capture'.spilled = Len(file') + Len(queue') BY <1>10, <1>2, <1>5
  <2>2. SpillAccounts(capture', taken') BY <1>10, <1>2, <1>6 DEF SpillAccounts
  <2> QED BY <2>1, <2>2
<1>11. SpillHolds' BY <1>3, <1>10 DEF SpillHolds
<1>12. TodoHolds'
  <2>1. Len(capture'.todo) <= n BY <1>2, <1>6
  <2> QED BY <2>1, <1>2, <1>3, <1>6, <1>10 DEF TodoHolds
<1>13. capture.failed => capture'.todo = <<>> BY <1>2, <1>6
<1> QED BY <1>3, <1>7, <1>8, <1>9, <1>11, <1>12, <1>13

\* The steps of the call that read or write output keep the rest.
LEMMA CallReadsOn ==
    ASSUME CommandInv, CommandTypes', SpillInOrder', SpillHolds', TailHeld', TodoHolds',
           toolCall \in {"reading", "pushing"},
           toolCall' = IF capture'.todo = <<>> THEN "reading" ELSE "pushing",
           capture'.todo # <<>> => capture'.over,
           capture'.failed <=> capture.failed, spilling' \in {spilling, "open"},
           UNCHANGED <<command, interrupted, expired, stored, ending>>
    PROVE  CommandInv'
<1>1. CallStands /\ ExitStands BY DEF CommandInv
<1>2. CallStands' /\ ExitStands' BY <1>1 DEF CallStands, ExitStands, ending
<1>3. Reported' /\ TextIsTheTail' /\ StatusIsTrue' /\ SlotCoversTheCommand'
  BY <1>1 DEF Reported, TextIsTheTail, StatusIsTrue, SlotCoversTheCommand, CallStands, ending
<1> QED BY <1>2, <1>3 DEF CommandInv

\* A push goes on where it waited.
LEMMA PushKeeps ==
    ASSUME CommandInv, PushGoesOn PROVE CommandInv'
<1> DEFINE f == Len(file)
           g == f + Len(queue)
           left == taken - Len(capture.todo)
           w == write(capture, queue)
<1>0. toolCall = "pushing" /\ Live BY DEF PushGoesOn, Live
<1>1. /\ CommandTypes /\ TailHeld /\ TodoHolds /\ SpillInOrder /\ SpillHolds /\ CallStands
  BY <1>0 DEF CommandInv
<1>2. /\ toolCall = "pushing" /\ capture' = w.capture /\ queue' = w.queue
      /\ toolCall' = IF w.capture.todo = <<>> THEN "reading" ELSE "pushing"
      /\ UNCHANGED <<command, emitted, interrupted, expired, taken, spilling, file, stored, ending>>
  BY DEF PushGoesOn, shell, clocks
<1>3. capture.over /\ capture.todo # <<>> /\ capture \in Captures /\ spilling # "none"
  BY <1>1, <1>2 DEF CallStands, CommandTypes, SpillHolds
<1>4. /\ f \in Nat /\ Len(queue) \in Nat /\ Len(capture.todo) \in Nat /\ taken \in Nat
      /\ Len(capture.todo) <= taken /\ Len(queue) <= SpillQueue
      /\ TailBytes \in Nat /\ SpillQueue \in Nat
  BY <1>1, <1>3, LenProperties, TailFitsTheQueue DEF CommandTypes, Captures, SpillInOrder, TodoHolds
<1>5. /\ g \in Nat /\ f <= g /\ g - f <= SpillQueue /\ left \in Nat /\ left <= taken
      /\ taken <= taken /\ ~(taken < taken) /\ taken - left = Len(capture.todo)
  BY <1>4
<1>6. WriteReady(capture, queue, taken, f, g, left, taken)
  <2>1. /\ capture.todo = Stretch(left, taken) /\ queue = Stretch(f, g)
        /\ capture.chunk = Stretch(taken, taken) /\ capture.held = LastOf(Bytes(taken), TailBytes)
    <3>1. Stretch(taken, taken) = <<>> BY <1>4, StretchIs
    <3> QED BY <3>1, <1>1 DEF SpillInOrder, TailHeld, TodoHolds
  <2>2. ASSUME ~capture.failed
        PROVE  /\ capture.spilled = g /\ g <= SpillMax /\ g = left
               /\ capture.partial => g + (taken - left) > SpillMax
    <3>1. /\ capture.spilled = g /\ capture.spilled <= SpillMax
          /\ capture.spilled + Len(capture.todo) = taken
      BY <2>2, <1>1, <1>3 DEF SpillHolds, TodoHolds, SpillAccounts
    <3>2. capture.partial => taken > SpillMax
      BY <2>2, <1>1, <1>3 DEF SpillHolds, TodoHolds, SpillAccounts
    <3>3. g <= SpillMax /\ g = left /\ g + (taken - left) = taken
      <4>1. g + Len(capture.todo) = taken /\ g \in Nat BY <3>1, <1>5
      <4> HIDE DEF g
      <4> QED BY <4>1, <3>1, <1>4
    <3> HIDE DEF g, left
    <3> QED BY <3>1, <3>2, <3>3
  <2> HIDE DEF f, g, left
  <2> QED BY <2>1, <2>2, <1>3, <1>5 DEF WriteReady
<1>7. \E g2 \in Nat, rest \in Nat : WrittenUpTo(capture, w, taken, f, g2, rest)
  <2> HIDE DEF f, g, left
  <2>1. CASE capture.failed BY <2>1, <1>3, <1>4, <1>5, <1>6, WriteWhenFailed
  <2>2. CASE ~capture.failed BY <2>2, <1>3, <1>4, <1>5, <1>6, WriteWhenWhole
  <2> QED BY <2>1, <2>2
<1>8. PICK g2 \in Nat, rest \in Nat : WrittenUpTo(capture, w, taken, f, g2, rest) BY <1>7
<1>9. TailBytes < taken /\ emitted \in Nat /\ taken <= emitted
  BY <1>1, <1>3, <1>4 DEF TailHeld, CommandTypes
<1> HIDE DEF w
<1>10. /\ CommandTypes' /\ TailHeld' /\ TodoHolds' /\ SpillInOrder' /\ SpillHolds'
       /\ capture'.over /\ (capture'.failed <=> capture.failed)
  BY <1>2, <1>3, <1>4, <1>8, <1>9, AfterWrite
<1> QED BY <1>2, <1>10, CallReadsOn

\* The chunk that is read next, and the held prefix before a first overflow.
LEMMA ChunkIs ==
    ASSUME CommandInv, toolCall = "reading", NEW m \in ChunkSizes, taken + m <= emitted
    PROVE  /\ NextChunk(m) = Stretch(taken, taken + m) /\ NextChunk(m) \in Seq(Nat)
           /\ Len(NextChunk(m)) = m
           /\ capture.held = LastOf(Bytes(taken), TailBytes) /\ capture.held \in Seq(Nat)
           /\ Len(capture.held) = IF taken <= TailBytes THEN taken ELSE TailBytes
           /\ taken <= TailBytes => capture.held \o NextChunk(m) = Stretch(0, taken + m)
<1> DEFINE n == taken + m
           chunk == NextChunk(m)
<1>1. CommandTypes /\ TailHeld BY DEF CommandInv, Live
<1>4. /\ m \in Nat /\ taken \in Nat /\ emitted \in Nat /\ n \in Nat /\ taken <= n /\ n <= emitted
      /\ TailBytes \in Nat /\ taken - 0 + 1 = taken + 1 /\ n - 0 = n /\ 0 <= taken /\ 0 \in Nat
      /\ n - taken = m
  BY <1>1, TailFitsTheQueue DEF CommandTypes
<1>5. chunk = Stretch(taken, n) /\ chunk \in Seq(Nat) /\ Len(chunk) = m
  <2>1. Bytes(emitted) = Stretch(0, emitted) BY <1>4, BytesAreStretch
  <2> DEFINE lo == 0
  <2>4. chunk = SubSeq(Stretch(lo, emitted), taken - lo + 1, n - lo) BY <2>1, <1>4 DEF NextChunk
  <2>5. /\ lo \in Nat /\ emitted \in Nat /\ taken \in Nat /\ n \in Nat
        /\ lo <= taken /\ taken <= n /\ n <= emitted
    BY <1>4
  <2> HIDE DEF n, chunk, lo
  <2>2. SubSeq(Stretch(lo, emitted), taken - lo + 1, n - lo) = Stretch(taken, n)
    BY <2>5, StretchPiece, SMTT(30)
  <2>3. Stretch(taken, n) \in Seq(Nat) /\ Len(Stretch(taken, n)) = n - taken BY <1>4, StretchIs
  <2> QED BY <2>2, <2>3, <2>4, <1>4
<1>8. /\ capture.held = LastOf(Bytes(taken), TailBytes) /\ capture.held \in Seq(Nat)
      /\ Len(capture.held) = IF taken <= TailBytes THEN taken ELSE TailBytes
  <2>1. taken <= taken BY <1>4
  <2>2. /\ LastOf(Bytes(taken), TailBytes) \in Seq(Nat)
        /\ Len(LastOf(Bytes(taken), TailBytes)) = IF taken <= TailBytes THEN taken ELSE TailBytes
    BY <2>1, <1>4, TailAfterMore
  <2> QED BY <2>2, <1>1 DEF TailHeld
<1> HIDE DEF chunk
<1>9. taken <= TailBytes => capture.held \o chunk = Stretch(0, n)
  <2> SUFFICES ASSUME taken <= TailBytes PROVE capture.held \o chunk = Stretch(0, n) OBVIOUS
  <2>1. Bytes(taken) = Stretch(0, taken) /\ taken - 0 = taken BY <1>4, BytesAreStretch
  <2>2. LastOf(Stretch(0, taken), TailBytes) = Stretch(0, taken) BY <2>1, <1>4, LastOfStretch
  <2> HIDE DEF n
  <2>3. Stretch(0, taken) \o Stretch(taken, n) = Stretch(0, n) BY <1>4, StretchJoin
  <2> QED BY <2>1, <2>2, <2>3, <1>5, <1>8
<1> QED BY <1>5, <1>8, <1>9 DEF chunk

\* A chunk that does not fit is written after all that was held, if it is the
\* first, and after what was written before otherwise.
LEMMA OverflowReady ==
    ASSUME CommandInv, toolCall = "reading", NEW m \in ChunkSizes, taken + m <= emitted,
           ~Fits(NextChunk(m)) PROVE LET c == overflowing(NextChunk(m))
               f == Len(file)
               g == f + Len(queue)
               n == taken + m
           IN /\ c \in Captures /\ (c.failed <=> capture.failed) /\ TailBytes < n
              /\ \E left \in Nat : /\ left <= taken /\ (taken > TailBytes => left = taken)
                                   /\ WriteReady(c, queue, n, f, g, left, taken)
<1> DEFINE f == Len(file)
           g == f + Len(queue)
           n == taken + m
           chunk == NextChunk(m)
           todo == IF capture.over THEN chunk ELSE capture.held \o chunk
           left == IF capture.over THEN taken ELSE 0
           begun == overflowing(chunk)
<1>1. CommandTypes /\ TailHeld /\ TodoHolds /\ SpillInOrder /\ SpillHolds /\ CallStands
  BY DEF CommandInv, Live
<1>2. /\ chunk = Stretch(taken, n) /\ chunk \in Seq(Nat) /\ Len(chunk) = m
      /\ capture.held = LastOf(Bytes(taken), TailBytes) /\ capture.held \in Seq(Nat)
      /\ Len(capture.held) = IF taken <= TailBytes THEN taken ELSE TailBytes
      /\ taken <= TailBytes => capture.held \o chunk = Stretch(0, n)
  BY ChunkIs
<1>4. /\ m \in Nat /\ taken \in Nat /\ emitted \in Nat /\ n \in Nat /\ taken <= n /\ n <= emitted
      /\ TailBytes \in Nat /\ SpillQueue \in Nat /\ SpillMax \in Nat /\ TailBytes <= SpillQueue
      /\ 0 <= taken /\ 0 \in Nat /\ 0 <= n /\ n - taken = m
  BY <1>1, TailFitsTheQueue DEF CommandTypes
<1>6. /\ f \in Nat /\ Len(queue) \in Nat /\ g \in Nat /\ f <= g /\ g - f = Len(queue)
      /\ g - f <= SpillQueue /\ queue = Stretch(f, g)
  <2>1. f \in Nat /\ Len(queue) \in Nat BY <1>1, LenProperties DEF CommandTypes
  <2> QED BY <2>1, <1>1, <1>4 DEF SpillInOrder
<1>7. capture \in Captures /\ capture.todo = <<>> /\ (capture.over <=> taken > TailBytes)
  BY <1>1 DEF CommandTypes, CallStands, TailHeld
<1>8. ~(~capture.over /\ Len(capture.held) + Len(chunk) <= TailBytes) BY DEF Fits
<1>9. begun = [capture EXCEPT !.over = TRUE, !.chunk = chunk, !.todo = todo] BY DEF overflowing
<1> HIDE DEF chunk, begun
<1>10. TailBytes < n BY <1>2, <1>4, <1>7, <1>8 DEF n
<1> HIDE DEF n
<1>11. todo = Stretch(left, n) /\ left \in Nat /\ left <= taken /\ left <= n
  <2>1. CASE capture.over BY <2>1, <1>2, <1>4
  <2>2. CASE ~capture.over BY <2>2, <1>2, <1>4, <1>7
  <2> QED BY <2>1, <2>2
<1>12. taken > TailBytes => left = taken BY <1>7
<1>13. todo \in Seq(Nat)
  <2> HIDE DEF todo, left
  <2> QED BY <1>4, <1>11, StretchIs
<1> HIDE DEF todo
<1>14. /\ begun \in Captures /\ begun.chunk = chunk /\ begun.todo = todo
       /\ begun.held = capture.held /\ begun.spilled = capture.spilled
  BY <1>2, <1>7, <1>9, <1>13 DEF Captures
<1>15. begun.over /\ begun.failed = capture.failed /\ begun.partial = capture.partial
  BY <1>7, <1>9, Zenon DEF Captures
<1>16. taken - left <= SpillQueue - (g - f)
  <2>1. CASE capture.over
    <3>1. left = taken BY <2>1
    <3> QED BY <3>1, <1>4, <1>6
  <2>2. CASE ~capture.over
    <3>1. left = 0 /\ Len(queue) = 0 /\ taken <= TailBytes
      BY <2>2, <1>1, <1>4, <1>7, EmptySeq DEF SpillHolds
    <3> HIDE DEF f, g, left
    <3> QED BY <3>1, <1>4, <1>6
  <2> QED BY <2>1, <2>2
<1>17. ASSUME ~begun.failed
       PROVE  /\ begun.spilled = g /\ g <= SpillMax
              /\ g = left \/ (begun.partial /\ g = SpillMax)
              /\ begun.partial => g = SpillMax
  <2>1. ~capture.failed BY <1>15, <1>17, Zenon
  <2>2. capture.spilled = g BY <2>1, <1>1 DEF SpillHolds
  <2>3. CASE capture.over
    <3>1. capture.spilled <= SpillMax /\ capture.spilled = IF capture.partial THEN SpillMax ELSE taken
      BY <2>1, <2>3, <1>1, <1>7 DEF TodoHolds, SpillAccounts
    <3>2. left = taken BY <2>3
    <3> HIDE DEF g, left
    <3> QED BY <3>1, <3>2, <2>2, <1>14, <1>15
  <2>4. CASE ~capture.over
    <3>1. capture.spilled = 0 /\ ~capture.partial /\ left = 0 BY <2>4, <1>1 DEF SpillHolds
    <3>2. ~begun.partial BY <3>1, <1>15, Zenon
    <3>3. 0 <= SpillMax BY <1>4
    <3> HIDE DEF g, left
    <3> QED BY <3>1, <3>2, <3>3, <2>2, <1>14
  <2> QED BY <2>3, <2>4
<1>18. WriteReady(begun, queue, n, f, g, left, taken)
  <2> HIDE DEF f, g, left
  <2> QED BY <1>2, <1>4, <1>6, <1>11, <1>14, <1>15, <1>16, <1>17 DEF WriteReady
<1>19. \E x \in Nat : x <= taken /\ (taken > TailBytes => x = taken) /\ WriteReady(begun, queue, n, f, g, x, taken)
  <2> HIDE DEF f, g, left
  <2> QED BY <1>11, <1>12, <1>18
<1>20. begun.failed <=> capture.failed BY <1>15
<1> HIDE DEF f, g
<1> QED BY <1>10, <1>14, <1>19, <1>20 DEF f, g, n, begun, chunk

\* A read chunk joins a tail it still fits in; the first chunk that does not
\* fit opens the spill with all that was held, and later ones follow it.
LEMMA ReadKeeps ==
    ASSUME CommandInv, ReadOutput PROVE CommandInv'
<1>1. CommandTypes /\ TailHeld /\ TodoHolds /\ SpillInOrder /\ SpillHolds /\ CallStands
  BY DEF CommandInv, Live, ReadOutput, Reading
<1>2. PICK m \in ChunkSizes : Reading(m) /\ pushChunk(NextChunk(m)) BY DEF ReadOutput
<1>3. /\ toolCall = "reading" /\ taken + m <= emitted /\ taken' = taken + m
      /\ UNCHANGED <<command, emitted, interrupted, expired, file, stored, ending>>
  BY <1>2 DEF Reading, ReadOutput, shell
<1> DEFINE n == taken + m
           chunk == NextChunk(m)
<1>4. /\ m \in Nat /\ taken \in Nat /\ emitted \in Nat /\ n \in Nat /\ taken <= n /\ n <= emitted
      /\ TailBytes \in Nat /\ 0 \in Nat /\ 0 <= n /\ n - 0 = n
  BY <1>1, <1>3, TailFitsTheQueue DEF CommandTypes
<1>5. /\ chunk = Stretch(taken, n) /\ chunk \in Seq(Nat) /\ Len(chunk) = m
      /\ capture.held = LastOf(Bytes(taken), TailBytes) /\ capture.held \in Seq(Nat)
      /\ Len(capture.held) = IF taken <= TailBytes THEN taken ELSE TailBytes
      /\ taken <= TailBytes => capture.held \o chunk = Stretch(0, n)
  BY <1>3, ChunkIs
<1>7. /\ capture \in Captures /\ capture.todo = <<>> /\ capture.chunk = <<>>
      /\ capture.over <=> taken > TailBytes
  BY <1>1, <1>3 DEF CommandTypes, CallStands, TailHeld
<1>8. pushChunk(chunk) /\ taken' = n BY <1>2, <1>3
<1>12. CASE Fits(chunk)
  <2>0. ~capture.over /\ Len(capture.held) + Len(chunk) <= TailBytes BY <1>12 DEF Fits
  <2>1. /\ capture' = [capture EXCEPT !.held = capture.held \o chunk]
        /\ toolCall' = "reading" /\ queue' = queue /\ spilling' = spilling
    BY <1>8, <1>12 DEF pushChunk
  <2> HIDE DEF chunk
  <2>2. taken <= TailBytes /\ n <= TailBytes BY <2>0, <1>4, <1>5, <1>7 DEF n
  <2> HIDE DEF n
  <2>3. capture.held \o chunk = LastOf(Bytes(n), TailBytes) /\ Len(capture.held \o chunk) <= TailBytes
    <3>1. Bytes(n) = Stretch(0, n) BY <1>4, BytesAreStretch
    <3>2. LastOf(Stretch(0, n), TailBytes) = Stretch(0, n) BY <2>2, <1>4, LastOfStretch
    <3>3. Len(Stretch(0, n)) = n BY <1>4, StretchIs
    <3> QED BY <3>1, <3>2, <3>3, <2>2, <1>5
  <2>4. capture.held \o chunk \in Seq(Nat) BY <1>5, ConcatProperties
  <2>5. /\ capture' \in Captures /\ capture'.held = capture.held \o chunk /\ capture'.todo = <<>>
        /\ capture'.chunk = <<>> /\ capture'.spilled = capture.spilled
    BY <2>1, <2>4, <1>7 DEF Captures
  <2>6. capture'.over = capture.over /\ capture'.failed = capture.failed /\ capture'.partial = capture.partial
    BY <2>1, <1>7, Zenon DEF Captures
  <2>7. CommandTypes' BY <2>1, <2>5, <1>1, <1>3, <1>4, <1>8 DEF CommandTypes
  <2>8. TailHeld'
    <3>1. ~(n > TailBytes) BY <2>2, <1>4
    <3> QED BY <3>1, <2>0, <2>3, <2>5, <2>6, <1>8 DEF TailHeld
  <2>9. SpillInOrder' BY <2>1, <2>3, <2>5, <1>1, <1>3 DEF SpillInOrder
  <2>10. SpillHolds' BY <2>0, <2>1, <2>5, <2>6, <1>1, <1>3, <1>7 DEF SpillHolds
  <2>11. TodoHolds'
    <3>1. Stretch(n, n) = <<>> /\ Len(<<>>) = 0 BY <1>4, StretchIs, EmptySeq
    <3>2. ~capture'.over BY <2>0, <2>6
    <3> QED BY <3>1, <3>2, <2>5, <1>4, <1>8 DEF TodoHolds
  <2> QED BY <2>1, <2>5, <2>6, <2>7, <2>8, <2>9, <2>10, <2>11, <1>3, CallReadsOn
<1>13. CASE ~Fits(chunk)
  <2> DEFINE f == Len(file)
             g == f + Len(queue)
             begun == overflowing(chunk)
             w == write(begun, queue)
  <2>1. /\ capture' = w.capture /\ queue' = w.queue
        /\ toolCall' = IF w.capture.todo = <<>> THEN "reading" ELSE "pushing"
        /\ spilling' = startSpill
    BY <1>8, <1>13 DEF pushChunk
  <2>2. /\ begun \in Captures /\ (begun.failed <=> capture.failed) /\ TailBytes < n
        /\ \E x \in Nat : x <= taken /\ WriteReady(begun, queue, n, f, g, x, taken)
    BY <1>3, <1>13, OverflowReady
  <2>3. PICK left \in Nat : left <= taken /\ WriteReady(begun, queue, n, f, g, left, taken) BY <2>2
  <2>4. f \in Nat /\ g \in Nat BY <1>1, LenProperties DEF CommandTypes
  <2> HIDE DEF begun, n, g
  <2>5. \E g2 \in Nat, rest \in Nat : WrittenUpTo(begun, w, n, f, g2, rest)
    <3> HIDE DEF f
    <3>1. CASE begun.failed BY <3>1, <2>2, <2>3, <2>4, <1>4, WriteWhenFailed
    <3>2. CASE ~begun.failed BY <3>2, <2>2, <2>3, <2>4, <1>4, WriteWhenWhole
    <3> QED BY <3>1, <3>2
  <2>6. PICK g2 \in Nat, rest \in Nat : WrittenUpTo(begun, w, n, f, g2, rest) BY <2>5
  <2>7. spilling' # "none" /\ spilling' \in {spilling, "open"} BY <2>1 DEF startSpill
  <2> HIDE DEF w
  <2>8. emitted' \in Nat /\ n <= emitted' /\ UNCHANGED <<file, stored>> BY <1>3, <1>4
  <2>9. /\ CommandTypes' /\ TailHeld' /\ TodoHolds' /\ SpillInOrder' /\ SpillHolds'
        /\ capture'.over /\ (capture'.failed <=> capture.failed)
    BY <2>1, <2>2, <2>6, <2>7, <2>8, <1>4, <1>8, AfterWrite
  <2> QED BY <2>1, <2>7, <2>9, <1>3, CallReadsOn
<1> QED BY <1>12, <1>13

\* What a push that is not waited for may have queued, and what it leaves.
Sendable(c, q) == 0..(IF c.failed THEN 0 ELSE Room(c, q))
LeftBehind(c, k, cut) == [TakesTail(c, sends(c, k)) EXCEPT !.partial = @ \/ cut]
WrittenLate(c, d, q, n, f, g, left, from, k) ==
    /\ d \in Captures /\ d.over /\ (d.failed <=> c.failed) /\ f <= g + k
    /\ q \o SubSeq(c.todo, 1, k) = Stretch(f, g + k) /\ (g + k) - f <= SpillQueue
    /\ ~d.failed => d.spilled = g + k
    /\ \/ d.chunk = <<>> /\ d.held = LastOf(Bytes(n), TailBytes)
       \/ left < from /\ d.chunk = Stretch(from, n) /\ d.held = LastOf(Bytes(from), TailBytes)

\* A push that is not waited for has queued some of the output in order; its
\* chunk is in the tail unless held bytes before it were still to be queued.
LEMMA LatePush ==
    ASSUME NEW c \in Captures, NEW q, NEW n \in Nat, NEW f \in Nat, NEW g \in Nat, NEW left \in Nat,
           NEW from \in Nat, left <= from, WriteReady(c, q, n, f, g, left, from),
           NEW k \in Sendable(c, q), NEW cut \in BOOLEAN
    PROVE  WrittenLate(c, LeftBehind(c, k, cut), q, n, f, g, left, from, k)
<1> DEFINE d == LeftBehind(c, k, cut)
           sent == sends(c, k)
           t == TakesTail(c, sent)
           mid == left + k
<1>1. /\ c.over /\ left <= n /\ from <= n /\ f <= g /\ g - f <= SpillQueue
      /\ c.todo = Stretch(left, n) /\ c.chunk = Stretch(from, n) /\ q = Stretch(f, g)
      /\ c.held = LastOf(Bytes(from), TailBytes)
      /\ ~c.failed => /\ c.spilled = g /\ g <= SpillMax
                      /\ g = left \/ (c.partial /\ g = SpillMax)
  BY DEF WriteReady
<1>2. /\ c.todo \in Seq(Nat) /\ Len(c.todo) = n - left /\ Len(c.chunk) = n - from
      /\ q \in Seq(Nat) /\ Len(q) = g - f /\ (c.chunk = <<>> <=> from = n)
  <2>1. Stretch(left, n) \in Seq(Nat) /\ Len(Stretch(left, n)) = n - left BY <1>1, StretchIs
  <2>2. Stretch(f, g) \in Seq(Nat) /\ Len(Stretch(f, g)) = g - f BY <1>1, StretchIs
  <2>3. Len(Stretch(from, n)) = n - from /\ (Stretch(from, n) = <<>> <=> from = n)
    BY <1>1, StretchIs
  <2> QED BY <1>1, <2>1, <2>2, <2>3
<1>3. /\ TailBytes \in Nat /\ SpillMax \in Nat /\ SpillQueue \in Nat
      /\ k \in Nat /\ (c.failed => k = 0)
      /\ k <= SpillQueue - (g - f) /\ k <= n - left /\ (~c.failed => k <= SpillMax - g)
  <2>1. TailBytes \in Nat /\ SpillMax \in Nat /\ SpillQueue \in Nat BY TailFitsTheQueue
  <2>2. CASE c.failed BY <2>1, <2>2, <1>1 DEF Sendable
  <2>3. CASE ~c.failed
    <3>1. Len(q) <= SpillQueue /\ c.spilled <= SpillMax BY <2>3, <1>1, <1>2
    <3>2. /\ Room(c, q) \in Nat /\ Room(c, q) <= SpillQueue - Len(q)
          /\ Room(c, q) <= SpillMax - c.spilled /\ Room(c, q) <= Len(c.todo)
      BY <3>1, <1>2, RoomIs
    <3>3. k \in 0..Room(c, q) BY <2>3 DEF Sendable
    <3>4. c.spilled = g /\ Len(q) = g - f /\ Len(c.todo) = n - left BY <2>3, <1>1, <1>2
    <3>5. k \in Nat /\ k <= Room(c, q) BY <3>2, <3>3
    <3> DEFINE r == Room(c, q)
    <3>6. k <= SpillQueue - (g - f) /\ k <= n - left /\ k <= SpillMax - g
      <4>1. r \in Nat /\ r <= SpillQueue - (g - f) /\ r <= SpillMax - g /\ r <= n - left /\ k <= r
        BY <3>2, <3>4, <3>5
      <4> HIDE DEF r
      <4> QED BY <4>1, <3>5, <2>1
    <3> QED BY <3>5, <3>6, <2>1, <2>3
  <2> QED BY <2>2, <2>3
<1>4. mid \in Nat /\ left <= mid /\ mid <= n /\ g + k \in Nat /\ f <= g + k /\ (g + k) - f <= SpillQueue
  BY <1>1, <1>3
<1>5. SubSeq(c.todo, k + 1, Len(c.todo)) = Stretch(mid, n)
  <2>1. mid - left + 1 = k + 1 /\ Len(c.todo) = n - left BY <1>2, <1>3
  <2> HIDE DEF mid
  <2>2. SubSeq(Stretch(left, n), mid - left + 1, n - left) = Stretch(mid, n)
    BY <1>1, <1>4, StretchEnd
  <2> QED BY <2>1, <2>2, <1>1
<1>6. q \o SubSeq(c.todo, 1, k) = Stretch(f, g + k)
  <2>1. CASE k = 0
    <3>1. SubSeq(c.todo, 1, k) = <<>> BY <2>1, SubSeqEmpty
    <3>2. q \o <<>> = q BY <1>2, ConcatEmptySeq
    <3>3. g + k = g BY <2>1
    <3> QED BY <3>1, <3>2, <3>3, <1>1
  <2>2. CASE k # 0
    <3>1. g = left /\ g + k = mid BY <2>2, <1>1, <1>3
    <3> DEFINE lo == left
    <3>2. lo - left + 1 = 1 /\ mid - left = k BY <1>3
    <3>3. lo \in Nat /\ mid \in Nat /\ left <= lo /\ lo <= mid /\ mid <= n BY <1>4
    <3> HIDE DEF mid, lo
    <3>4. SubSeq(Stretch(left, n), lo - left + 1, mid - left) = Stretch(lo, mid)
      BY <3>3, StretchPiece, SMTT(90)
    <3> USE DEF lo
    <3>5. /\ f \in Nat /\ left \in Nat /\ mid \in Nat /\ f <= left /\ left <= mid
      BY <3>1, <1>1, <1>4
    <3>6. Stretch(f, left) \o Stretch(left, mid) = Stretch(f, mid) BY <3>5, StretchJoin, ZenonT(60)
    <3> QED BY <3>1, <3>2, <3>4, <3>6, <1>1
  <2> QED BY <2>1, <2>2
<1>7. Stretch(mid, n) \in Seq(Nat) /\ Len(Stretch(mid, n)) = n - mid
  <2> HIDE DEF mid
  <2> QED BY <1>4, StretchIs
<1>8. sent = [c EXCEPT !.todo = SubSeq(c.todo, k + 1, Len(c.todo)), !.spilled = c.spilled + k]
  BY DEF sends
<1> HIDE DEF mid, sent
<1>9. sent = [c EXCEPT !.todo = Stretch(mid, n), !.spilled = c.spilled + k] BY <1>5, <1>8
<1>10. /\ sent \in Captures /\ sent.todo = Stretch(mid, n) /\ sent.spilled = c.spilled + k
       /\ sent.held = c.held /\ sent.chunk = c.chunk
  <2>1. c.spilled + k \in Nat BY <1>3 DEF Captures
  <2> QED BY <2>1, <1>7, <1>9 DEF Captures
<1>11. sent.over = c.over /\ sent.failed = c.failed BY <1>9, Zenon DEF Captures
<1>12. /\ t \in Captures /\ t.spilled = sent.spilled
       /\ \/ t.chunk = <<>> /\ t.held = LastOf(Bytes(n), TailBytes)
          \/ left < from /\ t.chunk = Stretch(from, n) /\ t.held = LastOf(Bytes(from), TailBytes)
  <2>1. CASE c.chunk # <<>> => Len(sent.todo) <= Len(c.chunk)
    <3>1. t \in Captures /\ t.chunk = <<>> /\ t.held = LastOf(Bytes(n), TailBytes) /\ t.spilled = sent.spilled
      BY <2>1, <1>1, <1>10, TailTaken
    <3> QED BY <3>1
  <2>2. CASE c.chunk # <<>> /\ ~(Len(sent.todo) <= Len(c.chunk))
    <3>1. t = sent BY <2>2 DEF TakesTail
    <3>2. left < from
      <4> DEFINE a == Len(sent.todo)
                 b == Len(c.chunk)
      <4>1. a = n - mid /\ b = n - from /\ ~(a <= b) BY <2>2, <1>2, <1>7, <1>10
      <4>2. left <= mid /\ mid \in Nat BY <1>4
      <4> HIDE DEF a, b
      <4> QED BY <4>1, <4>2
    <3> HIDE DEF t
    <3> QED BY <3>1, <3>2, <1>1, <1>10
  <2> QED BY <2>1, <2>2
<1>13. t.over = sent.over /\ t.failed = sent.failed
  <2>1. t = sent \/ t = [sent EXCEPT !.held = trimTail(sent.held \o sent.chunk), !.chunk = <<>>]
    BY DEF TakesTail, Took
  <2> HIDE DEF t
  <2> QED BY <2>1, <1>10, Zenon DEF Captures
<1>14. d = [t EXCEPT !.partial = t.partial \/ cut] BY DEF t, sent, LeftBehind
<1> HIDE DEF t, d
<1>15. /\ d \in Captures /\ d.held = t.held /\ d.chunk = t.chunk /\ d.spilled = t.spilled
  <2>1. (t.partial \/ cut) \in BOOLEAN BY <1>12 DEF Captures
  <2> QED BY <2>1, <1>12, <1>14 DEF Captures
<1>16. d.over /\ (d.failed <=> c.failed)
  <2>1. d.over = t.over /\ d.failed = t.failed BY <1>12, <1>14, Zenon DEF Captures
  <2> QED BY <2>1, <1>1, <1>11, <1>13, Zenon
<1>17. ~d.failed => d.spilled = g + k BY <1>1, <1>10, <1>12, <1>15, <1>16
<1>18. \/ d.chunk = <<>> /\ d.held = LastOf(Bytes(n), TailBytes)
       \/ left < from /\ d.chunk = Stretch(from, n) /\ d.held = LastOf(Bytes(from), TailBytes)
  BY <1>12, <1>15
<1>19. WrittenLate(c, d, q, n, f, g, left, from, k)
  BY <1>4, <1>6, <1>15, <1>16, <1>17, <1>18, Zenon DEF WrittenLate
<1> QED BY <1>19 DEF d

\* A call that had given up before it read a chunk too large for the tail.
LEMMA LateKeeps ==
    ASSUME CommandInv, ReadTooLate PROVE CommandInv'
<1>1. /\ CommandTypes /\ TailHeld /\ SpillInOrder /\ SpillHolds /\ CallStands /\ ExitStands
  BY DEF CommandInv, Live, ReadTooLate, Reading
<1>2. PICK m \in ChunkSizes :
        LET c == overflowing(NextChunk(m)) IN
        /\ m > 0 /\ Reading(m) /\ ~Fits(NextChunk(m))
        /\ \E k \in 0..(IF c.failed THEN 0 ELSE Room(c, queue)) :
             LET left == TakesTail(c, sends(c, k)) IN
             /\ queue' = queue \o SubSeq(c.todo, 1, k)
             /\ capture' = [left EXCEPT !.partial = @ \/ (left.chunk = <<>> /\ cutOff(c))]
  BY DEF ReadTooLate
<1> DEFINE c == overflowing(NextChunk(m))
           f == Len(file)
           g == f + Len(queue)
           n == taken + m
<1>3. PICK k \in 0..(IF c.failed THEN 0 ELSE Room(c, queue)) :
        /\ queue' = queue \o SubSeq(c.todo, 1, k)
        /\ capture' = [TakesTail(c, sends(c, k)) EXCEPT
                          !.partial = @ \/ (TakesTail(c, sends(c, k)).chunk = <<>> /\ cutOff(c))]
  BY <1>2
<1>4. /\ toolCall = "reading" /\ taken + m <= emitted /\ taken' = taken + m /\ ~Fits(NextChunk(m))
      /\ spilling' = closesSpill(startSpill) /\ leavesCommand(capture', taken')
  BY <1>2 DEF Reading, ReadTooLate
<1>5. /\ toolCall' = "returned" /\ interrupted' = TRUE /\ lingering' = "deadline"
      /\ result' = [finishCapture(capture', taken', TRUE) EXCEPT !.detached = TRUE]
      /\ UNCHANGED <<answersLate, command, emitted, expired, file, stored, exit>>
  BY <1>4 DEF leavesCommand, shell
<1>6. /\ c \in Captures /\ (c.failed <=> capture.failed) /\ TailBytes < n
      /\ \E x \in Nat : /\ x <= taken /\ (taken > TailBytes => x = taken)
                        /\ WriteReady(c, queue, n, f, g, x, taken)
  BY <1>4, OverflowReady
<1>7. PICK left \in Nat : /\ left <= taken /\ (taken > TailBytes => left = taken)
                          /\ WriteReady(c, queue, n, f, g, left, taken)
  BY <1>6
<1>8. /\ f \in Nat /\ g \in Nat /\ taken \in Nat /\ n \in Nat /\ m \in Nat /\ taken <= n /\ n - taken = m
      /\ TailBytes \in Nat /\ SpillQueue \in Nat /\ emitted \in Nat /\ n <= emitted /\ n - n = 0 /\ n <= n
  BY <1>1, <1>4, LenProperties, TailFitsTheQueue DEF CommandTypes
<1>9. taken' = n BY <1>4
<1> HIDE DEF c, g, n
<1>10. /\ capture' \in Captures /\ capture'.over /\ (capture'.failed <=> c.failed) /\ f <= g + k
       /\ queue' = Stretch(f, g + k) /\ (g + k) - f <= SpillQueue
       /\ ~capture'.failed => capture'.spilled = g + k
       /\ \/ capture'.chunk = <<>> /\ capture'.held = LastOf(Bytes(n), TailBytes)
          \/ /\ left < taken /\ capture'.chunk = Stretch(taken, n)
             /\ capture'.held = LastOf(Bytes(taken), TailBytes)
  <2> DEFINE cut == TakesTail(c, sends(c, k)).chunk = <<>> /\ cutOff(c)
  <2>1. capture' = [TakesTail(c, sends(c, k)) EXCEPT !.partial = @ \/ cut] /\ cut \in BOOLEAN
    BY <1>3
  <2> DEFINE d == capture'
  <2>2. d = LeftBehind(c, k, cut) /\ k \in Sendable(c, queue) BY <2>1 DEF LeftBehind, Sendable
  <2>3. /\ c \in Captures /\ n \in Nat /\ f \in Nat /\ g \in Nat /\ left \in Nat /\ taken \in Nat
        /\ left <= taken /\ WriteReady(c, queue, n, f, g, left, taken)
    BY <1>6, <1>7, <1>8
  <2> HIDE DEF cut, f, d
  <2>4. WrittenLate(c, LeftBehind(c, k, cut), queue, n, f, g, left, taken, k)
    BY <2>1, <2>2, <2>3, LatePush
  <2>5. WrittenLate(c, d, queue, n, f, g, left, taken, k) BY <2>2, <2>4
  <2> QED BY <2>5, <1>3 DEF d, WrittenLate
<1>11. g + k \in Nat /\ f + ((g + k) - f) = g + k
  <2>1. k \in Int /\ 0 <= k OBVIOUS
  <2> HIDE DEF f
  <2> QED BY <2>1, <1>8, <1>10
<1>12. queue' \in Seq(Nat) /\ Len(queue') = (g + k) - f
  <2>1. Stretch(f, g + k) \in Seq(Nat) /\ Len(Stretch(f, g + k)) = (g + k) - f
    <3> DEFINE x == g + k
    <3>1. x \in Nat /\ f <= x BY <1>10, <1>11
    <3> HIDE DEF x, f
    <3>2. Stretch(f, x) \in Seq(Nat) /\ Len(Stretch(f, x)) = x - f BY <3>1, <1>8, StretchIs
    <3> QED BY <3>2 DEF x
  <2> HIDE DEF f
  <2> QED BY <2>1, <1>10
<1>13. CommandTypes' BY <1>1, <1>5, <1>8, <1>9, <1>10, <1>12 DEF CommandTypes
<1>14. PICK last \in Nat : /\ last <= n /\ (last < n => last <= TailBytes)
                           /\ capture'.held = LastOf(Bytes(last), TailBytes)
                           /\ Len(capture'.chunk) = n - last
  <2>1. CASE capture'.chunk = <<>> /\ capture'.held = LastOf(Bytes(n), TailBytes)
    <3>1. Len(capture'.chunk) = n - n /\ ~(n < n) BY <2>1, <1>8, EmptySeq
    <3> QED BY <3>1, <2>1, <1>8
  <2>2. CASE /\ left < taken /\ capture'.chunk = Stretch(taken, n)
             /\ capture'.held = LastOf(Bytes(taken), TailBytes)
    <3>1. Len(capture'.chunk) = n - taken BY <2>2, <1>8, StretchIs
    <3>2. taken <= TailBytes BY <2>2, <1>7, <1>8
    <3> QED BY <3>1, <3>2, <2>2, <1>8
  <2> QED BY <2>1, <2>2, <1>10
<1>15. SpillInOrder'
  <2>1. Len(capture'.held) <= TailBytes
    <3>1. last <= last BY <1>14
    <3>2. Len(LastOf(Bytes(last), TailBytes)) = IF last <= TailBytes THEN last ELSE TailBytes
      BY <3>1, <1>8, TailAfterMore
    <3> QED BY <3>2, <1>8, <1>14
  <2>2. Len(file') = f BY <1>5
  <2>3. file' = Stretch(0, f) BY <1>1, <1>5 DEF SpillInOrder
  <2> HIDE DEF f
  <2> QED BY <2>1, <2>2, <2>3, <1>10, <1>11, <1>12 DEF SpillInOrder
<1>16. spilling' = "closing" \/ (spilling' = spilling /\ spilling # "none")
  BY <1>4 DEF closesSpill, startSpill
<1>17. SpillHolds'
  <2>1. ~capture'.failed => capture'.spilled = Len(file') + Len(queue') BY <1>5, <1>10, <1>11, <1>12
  <2> QED BY <2>1, <1>10, <1>16 DEF SpillHolds
<1>18. CallStands'
  <2>1. stored => capture.failed BY <1>1, <1>4 DEF CallStands
  <2>2. stored' => capture'.failed BY <2>1, <1>5, <1>6, <1>10
  <2> QED BY <2>2, <1>5 DEF CallStands
<1>19. ExitStands' BY <1>1, <1>5 DEF ExitStands
<1>20. Reported' /\ TextIsTheTail'
  <2> DEFINE d == capture'
             byCaller == TRUE
  <2>1. result' = [finishCapture(d, n, byCaller) EXCEPT !.detached = TRUE] /\ result'.detached
    <3>1. result' = [finishCapture(d, n, byCaller) EXCEPT !.detached = TRUE] BY <1>5, <1>9
    <3> QED BY <3>1 DEF finishCapture, NoResult
  <2>2. d \in Captures /\ d.over /\ (d.failed <=> capture.failed) /\ n > TailBytes
        /\ d.held = LastOf(Bytes(last), TailBytes) /\ Len(d.chunk) = n - last
        /\ UNCHANGED <<file, stored>>
    BY <1>5, <1>6, <1>10, <1>14
  <2> HIDE DEF d, byCaller
  <2> QED BY <2>1, <2>2, <1>4, <1>8, <1>14, AnswerIsTrue
<1>21. StatusIsTrue'
  <2> DEFINE d == capture'
  <2>1. result' = [finishCapture(d, n, TRUE) EXCEPT !.detached = TRUE] BY <1>5, <1>9
  <2> HIDE DEF d
  <2> QED BY <2>1, <1>5, LeftIsTrue
<1>22. SlotCoversTheCommand' /\ ~Live' BY <1>5 DEF SlotCoversTheCommand, Live
<1> QED BY <1>13, <1>15, <1>17, <1>18, <1>19, <1>20, <1>21, <1>22 DEF CommandInv


\* A command that has not been called holds the invariant.
LEMMA CommandStarts == CommandInit => CommandInv
<1> SUFFICES ASSUME CommandInit PROVE CommandInv OBVIOUS
<1>1. TailBytes \in Nat /\ SpillQueue \in Nat /\ 0 \in Nat /\ 0 <= 0 /\ 0 - 0 = 0
  BY TailFitsTheQueue
<1>2. <<>> \in Seq(Nat) /\ Len(<<>>) = 0 /\ Stretch(0, 0) = <<>> BY <1>1, EmptySeq, StretchIs
<1>3. LastOf(Bytes(0), TailBytes) = <<>>
  <2>1. Bytes(0) = Stretch(0, 0) /\ 0 - 0 <= TailBytes BY <1>1, BytesAreStretch
  <2> QED BY <2>1, <1>1, <1>2, LastOfStretch
<1>4. capture = NewCapture /\ capture \in Captures BY <1>2 DEF CommandInit, NewCapture, Captures
<1>5. CommandTypes BY <1>1, <1>2, <1>4 DEF CommandInit, CommandTypes
<1>6. TailHeld
  <2>1. ~(0 > TailBytes) BY <1>1
  <2> QED BY <2>1, <1>3, <1>4 DEF CommandInit, TailHeld, NewCapture
<1>7. SpillInOrder BY <1>1, <1>2, <1>4 DEF CommandInit, SpillInOrder, NewCapture
<1>8. SpillHolds BY <1>2, <1>4 DEF CommandInit, SpillHolds, NewCapture
<1>9. TodoHolds BY <1>1, <1>2, <1>4 DEF CommandInit, TodoHolds, NewCapture
<1>10. CallStands /\ Reported /\ TextIsTheTail /\ StatusIsTrue /\ SlotCoversTheCommand
  BY <1>4 DEF CommandInit, CallStands, Reported, TextIsTheTail, StatusIsTrue, SlotCoversTheCommand, NewCapture
<1>11. ExitStands BY DEF CommandInit, ExitStands, NoExit
<1> QED BY <1>5, <1>6, <1>7, <1>8, <1>9, <1>10, <1>11 DEF CommandInv

\* No step breaks the invariant of a command.
LEMMA CommandSteps == CommandInv /\ [CommandNext]_commandVars => CommandInv'
<1> SUFFICES ASSUME CommandInv, [CommandNext]_commandVars PROVE CommandInv' OBVIOUS
<1>1. CASE Emit \/ Ends \/ abort \/ graceExpired \/ deadlinePasses \/ stopAtDeadline
           \/ mkdir \/ exec \/ Refused \/ ExecFails \/ Answered \/ ReadFails \/ StopsWaiting \/ Released
  BY <1>1, AroundTheCall
<1>2. CASE ReadExit \/ ReadEnd BY <1>2, StreamEnds
<1>3. CASE Detaches \/ Returns BY <1>3, CallAnswers
<1>4. CASE Store BY <1>4, StoreKeeps
<1>5. CASE StoreFails \/ StoreEnds \/ PushLeftBehind BY <1>5, StorageSettles
<1>6. CASE ReadOutput BY <1>6, ReadKeeps
<1>7. CASE PushGoesOn BY <1>7, PushKeeps
<1>8. CASE ReadTooLate BY <1>8, LateKeeps
<1>9. CASE UNCHANGED commandVars
  <2>1. UNCHANGED <<answersLate, command, emitted, toolCall, aborted, interrupted, grace, deadlineTimer,
                    expired, taken, capture, spilling, queue, file, stored, exit, result, lingering>>
    BY <1>9 DEF commandVars, shell, clocks, output, ending
  <2>2. CommandTypes' /\ SpillInOrder' /\ SpillHolds' /\ (Live' => TailHeld' /\ TodoHolds')
    BY <2>1 DEF CommandInv, CommandTypes, SpillInOrder, SpillHolds, Live, TailHeld, TodoHolds, SpillAccounts
  <2>3. CallStands' /\ ExitStands' /\ Reported' /\ TextIsTheTail' /\ SlotCoversTheCommand'
    BY <2>1 DEF CommandInv, CallStands, ExitStands, Reported, TextIsTheTail, SlotCoversTheCommand
  <2>4. StatusIsTrue' BY <2>1 DEF CommandInv, StatusIsTrue
  <2> QED BY <2>2, <2>3, <2>4 DEF CommandInv
<1> QED BY <1>1, <1>2, <1>3, <1>4, <1>5, <1>6, <1>7, <1>8, <1>9 DEF CommandNext

\* The inductive invariant of a command and the capture of its output
\* (workspace.ts, edge-shell-output.ts).
THEOREM CommandInvariant == CommandSpec => []CommandInv
BY CommandStarts, CommandSteps, PTL DEF CommandSpec

\* For every bound of the tail, the queue and the spill under which a held tail
\* fits into the queue, and every output in characters of at most four bytes: a
\* result is the whole characters of the last bytes that were read, names a
\* spill that holds what it says, is completed only when the command ended so
\* and was read to its end, memory is bounded, and a slot is handed on only
\* after the command or its timeout.
THEOREM CommandCorrect == CommandSpec => []CommandIsExact
<1>1. CommandInv => CommandIsExact
  <2> SUFFICES ASSUME CommandInv PROVE CommandIsExact OBVIOUS
  <2>1. CommandTypes /\ SpillInOrder /\ Reported BY DEF CommandInv
  <2>2. file = Bytes(Len(file))
    <3>1. Len(file) \in Nat BY <2>1, LenProperties DEF CommandTypes
    <3> QED BY <3>1, <2>1, BytesAreStretch DEF SpillInOrder
  <2>3. SpillIsAsReported BY <2>1, <2>2 DEF SpillIsAsReported, Reported
  <2>4. CaptureIsBounded BY <2>1 DEF CaptureIsBounded, SpillInOrder
  <2> QED BY <2>3, <2>4 DEF CommandInv, CommandIsExact
<1> QED BY <1>1, CommandInvariant, PTL

----------------------------------------
(* The sweep of the storage.  A staged write is seen within its grace, and *)
(* staged pulls are there only while a container runs, beside which no     *)
(* blob is reclaimed: so nothing reclaimable is staged.                    *)

SweepInv ==
    /\ staging \in [Hashes -> {"no", "write", "pull"}]
    /\ \A h \in Hashes : /\ staging[h] = "write" => blob[h] = "seen"
                         /\ staging[h] = "pull" => container
    /\ DOMAIN blob = Hashes
    /\ NothingNeededIsLost

LEMMA SweepInvInit == SweepInit => SweepInv
  BY DEF SweepInit, SweepInv, NothingNeededIsLost

\* Reclaiming takes stale blobs that no file references, and runs beside no
\* container.
LEMMA ReclaimKeeps ==
    ASSUME SweepInv, Reclaim PROVE SweepInv'
<1>1. ~container /\ reclaimUnreferencedBlobs /\ UNCHANGED <<linked, staging, container>>
  BY DEF Reclaim, MayReclaim
<1>2. PICK gone \in SUBSET Hashes :
        /\ \A h \in gone : h \notin linked /\ blob[h] = "stale"
        /\ blob' = [h \in Hashes |-> IF h \in gone THEN "none" ELSE blob[h]]
        /\ lost' = lost \cup {h \in gone : h \in linked \/ staging[h] # "no"}
  <2> DEFINE all == Sorted({h \in Hashes : blob[h] # "none" /\ h > swept.blobCursor})
             rows == SubSeq(all, 1, IF Len(all) < ScanLimit THEN Len(all) ELSE ScanLimit)
             before(i) == Cardinality({j \in 1..(i - 1) : Reclaimable(rows[j])})
             within == {i \in DOMAIN rows : Reclaimable(rows[i]) => before(i) < ReclaimLimit}
             read == Cardinality({i \in DOMAIN rows : \A j \in 1..i : j \in within})
             away == {h \in Hashes : Reclaimable(h) /\ \E i \in 1..read : rows[i] = h}
  <2>1. /\ blob' = [h \in Hashes |-> IF h \in away THEN "none" ELSE blob[h]]
        /\ lost' = lost \cup {h \in away : h \in linked \/ staging[h] # "no"}
    BY <1>1, Zenon DEF reclaimUnreferencedBlobs
  <2>2. away \in SUBSET Hashes /\ \A h \in away : h \notin linked /\ blob[h] = "stale"
    BY Zenon DEF Reclaimable
  <2> HIDE DEF away
  <2> QED BY <2>1, <2>2
<1>3. \A h \in gone : staging[h] = "no" BY <1>1, <1>2 DEF SweepInv
<1>4. lost' = {} BY <1>2, <1>3 DEF SweepInv, NothingNeededIsLost
<1> QED BY <1>1, <1>2, <1>3, <1>4 DEF SweepInv, NothingNeededIsLost

LEMMA SweepInvStep == SweepInv /\ [SweepNext]_sweepVars => SweepInv'
<1> SUFFICES ASSUME SweepInv, [SweepNext]_sweepVars PROVE SweepInv' OBVIOUS
<1> USE DEF SweepInv, NothingNeededIsLost
<1>1. CASE UNCHANGED sweepVars BY <1>1 DEF sweepVars
<1>2. ASSUME NEW n \in Names, saveText(n) \/ SpillAges(n) PROVE SweepInv'
  BY <1>2 DEF saveText, SpillAges
<1>3. ASSUME NEW h \in Hashes, NEW by \in {"write", "pull"}, Stage(h, by) PROVE SweepInv'
  BY <1>3 DEF Stage
<1>4. ASSUME NEW h \in Hashes, Link(h) \/ DeleteFile(h) \/ GraceEnds(h) PROVE SweepInv'
  BY <1>4 DEF Link, DeleteFile, GraceEnds
<1>5. CASE ContainerChanges BY <1>5 DEF ContainerChanges
<1>6. CASE readdir BY <1>6 DEF readdir
<1>7. ASSUME NEW fails \in BOOLEAN, sweepEntry(fails) PROVE SweepInv' BY <1>7 DEF sweepEntry
<1>8. CASE sweepEnds BY <1>8 DEF sweepEnds
<1>9. CASE Reclaim
  <2> USE DEF SweepInv
  <2> QED BY <1>9, ReclaimKeeps
<1>10. CASE SkipBlobs \/ SweepCutOff BY <1>10 DEF SkipBlobs, SweepCutOff
<1> QED
  BY <1>1, <1>2, <1>3, <1>4, <1>5, <1>6, <1>7, <1>8, <1>9, <1>10, Zenon DEF SweepNext, SweepStep

THEOREM SweepCorrect == SweepSpec => []NothingNeededIsLost
<1>1. SweepInv => NothingNeededIsLost BY DEF SweepInv
<1> QED BY SweepInvInit, SweepInvStep, <1>1, PTL DEF SweepSpec

----------------------------------------
(* The download of a session's log.  The producer visits the lineage in    *)
(* preorder: `Visited` are the logs the archive has, the line of todo are  *)
(* the subagents found and not visited.  The lineage a subagent is read    *)
(* from is grounded: whatever part of it leaves the root out has a member  *)
(* whose parent is outside, so a part that is closed under children and    *)
(* has the root is all of it.                                              *)

ArchiveEvents == Named \cup {Plain}
Grounded(S) ==
    \A part \in SUBSET (S \ {Head0}) : part # {} => \E t \in part : ParentOf[t] \in S \ part
Extends(t, s) == Len(s) <= Len(t) /\ \A k \in 1..Len(s) : t[k] = s[k]

CorpusInv ==
    /\ born \subseteq Family /\ Head0 \in born /\ Grounded(born)
    /\ held \in [Family -> Seq(ArchiveEvents)] /\ saved \in [Family -> Nat]
    /\ \A s \in Family : saved[s] <= Len(held[s]) /\ (held[s] # <<>> => s \in born)

Phases == {"header", "firstPage", "page", "lineage", "child", "attachment"}
Phase == IF producer.at = "gate" THEN producer.then ELSE producer.at
InLog == Phase \in {"header", "firstPage", "page"}
ArchiveEntry ==
    [kind : {"log", "attachment"}, id : Family \cup ArchiveEvents, events : Seq(ArchiveEvents)]
ProducerTypes ==
    /\ producer \in [at : Phases \cup {"none", "gate", "done"}, then : Phases \cup {"none"},
                     todo : Seq(Family), tree : SUBSET Family, log : Family, upto : Nat,
                     refs : Seq(ArchiveEvents), left : Seq(ArchiveEvents)]
    /\ parked \in BOOLEAN /\ stopped \in BOOLEAN
    /\ stream \in {"none", "open", "closed", "errored", "cancelled"}
    /\ queued \in Nat
    /\ out \in Seq(ArchiveEntry)
    /\ stream = "none" <=> producer.at = "none"
    /\ producer.at = "gate" => producer.then \in Phases \ {"header"}
    /\ asked \in [Family -> Seq(ArchiveEvents)]

\* The queue is below the mark whenever something may be pushed.
GateInv ==
    /\ queued <= HighWater
    /\ stream = "none" => queued = 0 /\ ~parked /\ ~stopped
    /\ parked => producer.at = "gate" /\ queued >= HighWater
    /\ ~stopped /\ producer.at \in Phases => queued < HighWater
    /\ ~stopped /\ producer.at = "gate" /\ ~parked => queued < HighWater

AskedInv ==
    stream # "none" => \A s \in Family : Extends(held[s], asked[s])

Visited == {out[i].id : i \in Logs}
LogsOnce == \A i, j \in Logs : out[i].id = out[j].id => i = j
TreeInv ==
    Phase \in Phases =>
      /\ Visited \subseteq Family /\ Head0 \in Visited /\ LogsOnce
      /\ IsInjective(producer.todo) /\ ToSet(producer.todo) \cap Visited = {}
      /\ \A t \in Visited \cup ToSet(producer.todo) : t # Head0 => ParentOf[t] \in Visited
      /\ producer.tree = {} =>
            /\ producer.todo = <<>> /\ producer.log = Head0 /\ Visited = {Head0}
            /\ Phase \notin {"child", "attachment"}
      /\ producer.tree # {} =>
            /\ Phase # "lineage" /\ Head0 \in producer.tree /\ Grounded(producer.tree)
            /\ \A s \in Family : asked[s] # <<>> => s \in producer.tree
            /\ \A t \in producer.tree \ {Head0} :
                  ParentOf[t] \in Visited => t \in Visited \cup ToSet(producer.todo)
      /\ Phase = "attachment" => producer.todo = <<>>

\* A log is pinned no shorter than it was when the download was asked for.
LogInv ==
    Phase \in Phases =>
      /\ \A i \in Logs : /\ Extends(held[out[i].id], out[i].events)
                         /\ Len(asked[out[i].id]) <= saved[out[i].id]
                         /\ ~(InLog /\ i = Len(out)) => Len(asked[out[i].id]) <= Len(out[i].events)
      /\ InLog => /\ out # <<>> /\ Last(out).kind = "log" /\ Last(out).id = producer.log
                  /\ Phase # "page" => Last(out).events = <<>>
                  /\ Phase = "page" => /\ Len(asked[producer.log]) <= producer.upto
                                       /\ producer.upto <= Len(held[producer.log])
                                       /\ Len(Written) <= producer.upto

RefsInv ==
    Phase \in Phases =>
      /\ \A i \in Logs : \A k \in DOMAIN out[i].events :
            out[i].events[k] # Plain => out[i].events[k] \in ToSet(producer.refs)
      /\ \A i \in Logs, j \in DOMAIN out \ Logs : i < j
      /\ Phase # "attachment" => Logs = DOMAIN out
      /\ Phase = "attachment" =>
            \A x \in ToSet(producer.refs) :
               x \in ToSet(producer.left) \/ \E j \in DOMAIN out \ Logs : out[j].id = x

ArchiveEnded == stream = "closed" => producer.at = "done"

ArchiveInv ==
    /\ CorpusInv /\ ProducerTypes /\ GateInv /\ AskedInv
    /\ TreeInv /\ LogInv /\ RefsInv /\ ArchiveEnded /\ ClosedIsWhole


\* A finite set of ids has its members in order, each once.
LEMMA OrderedIds ==
    ASSUME NEW S \in SUBSET Nat, IsFiniteSet(S)
    PROVE  InOrder(S) \in Seq(S) /\ IsInjective(InOrder(S)) /\ ToSet(InOrder(S)) = S
<1> DEFINE n == Cardinality(S)
           less == {e \in S \X S : e[1] < e[2]}
           InLine(q) == \A i, j \in 1..n : i < j => <<q[i], q[j]>> \in less
<1>1. n \in Nat BY FS_CardinalityType
<1>2. Orders(less, S) BY DEF Orders
<1>3. /\ \E q \in [1..n -> S] : InLine(q)
      /\ \A q \in [1..n -> S] : InLine(q) => q \in Seq(S) /\ IsInjective(q) /\ ToSet(q) = S
  <2> HIDE DEF less
  <2> QED BY <1>2, LineUp
<1>4. ASSUME NEW q \in [1..n -> S] PROVE InLine(q) <=> \A i, j \in 1..n : i < j => q[i] < q[j]
  BY <1>1
<1>5. InOrder(S) \in [1..n -> S] /\ InLine(InOrder(S))
  <2>1. \E q \in [1..n -> S] : \A i, j \in 1..n : i < j => q[i] < q[j]
    <3> HIDE DEF n, InLine
    <3> QED BY <1>3, <1>4
  <2>2. InOrder(S) \in [1..n -> S] /\ \A i, j \in 1..n : i < j => InOrder(S)[i] < InOrder(S)[j]
    BY <2>1, Zenon DEF InOrder
  <2> HIDE DEF n, InLine
  <2> QED BY <2>2, <1>4
<1> HIDE DEF n, InLine
<1> QED BY <1>3, <1>5

\* A part of a grounded lineage that has the root and is closed under children
\* is all of it.
LEMMA AllReached ==
    ASSUME NEW S, Grounded(S), NEW V, Head0 \in V,
           \A t \in S \ {Head0} : ParentOf[t] \in V => t \in V PROVE S \subseteq V
<1> DEFINE part == S \ V
<1> SUFFICES ASSUME part # {} PROVE FALSE BY Zenon
<1>1. part \in SUBSET (S \ {Head0}) BY Zenon
<1>2. PICK t \in part : ParentOf[t] \in S \ part
  <2> HIDE DEF part
  <2> QED BY <1>1, Zenon DEF Grounded
<1> QED BY <1>2

\* A new subagent has its parent in the lineage.
LEMMA GroundedGrows ==
    ASSUME NEW S, Grounded(S), NEW s, s \notin S, ParentOf[s] \in S PROVE Grounded(S \cup {s})
<1> SUFFICES ASSUME NEW part \in SUBSET ((S \cup {s}) \ {Head0}), part # {}
             PROVE  \E t \in part : ParentOf[t] \in (S \cup {s}) \ part
  BY DEF Grounded
<1> DEFINE rest == part \ {s}
<1>1. CASE rest = {}
  <2>1. part = {s} BY <1>1
  <2> QED BY <2>1, Zenon
<1>2. CASE rest # {}
  <2>1. rest \in SUBSET (S \ {Head0}) OBVIOUS
  <2>2. PICK t \in rest : ParentOf[t] \in S \ rest BY <2>1, <1>2, Zenon DEF Grounded
  <2> QED BY <2>2
<1> QED BY <1>1, <1>2

LEMMA ExtendsOn ==
    ASSUME NEW S, NEW s \in Seq(S), NEW t \in Seq(S)
    PROVE  /\ Extends(s, s)
           /\ Extends(s, <<>>)
           /\ \A u \in Seq(S) : Extends(t, s) /\ Extends(u, t) => Extends(u, s)
           /\ \A e \in S : Extends(t, s) => Extends(Append(t, e), s)
           /\ Extends(t, s) => IsPrefix(s, t)
<1>1. Len(s) \in Nat /\ Len(t) \in Nat /\ Len(<<>>) = 0 BY LenProperties, EmptySeq
<1>2. Extends(s, s) /\ Extends(s, <<>>) BY <1>1 DEF Extends
<1>3. ASSUME NEW u \in Seq(S), Extends(t, s), Extends(u, t) PROVE Extends(u, s)
  <2>1. Len(u) \in Nat BY LenProperties
  <2> QED BY <2>1, <1>1, <1>3 DEF Extends
<1>4. ASSUME NEW e \in S, Extends(t, s) PROVE Extends(Append(t, e), s)
  <2>1. Len(Append(t, e)) = Len(t) + 1 /\ \A i \in 1..Len(t) : Append(t, e)[i] = t[i]
    BY AppendProperties
  <2> QED BY <2>1, <1>1, <1>4 DEF Extends
<1>5. ASSUME Extends(t, s) PROVE IsPrefix(s, t)
  <2>1. Len(s) <= Len(t) /\ \A k \in 1..Len(s) : t[k] = s[k] /\ s[k] \in S
    BY <1>5, ElementOfSeq DEF Extends
  <2>2. SubSeq(s, 1, Len(s)) = s BY SubSeqFull
  <2> DEFINE u == SubSeq(t, 1, Len(s))
  <2>3. u \in Seq(S) /\ Len(u) = Len(s) /\ \A i \in 1..Len(s) : u[i] = t[i]
    <3>1. \A i \in 1..Len(s) : t[i] \in S BY <2>1
    <3>2. /\ u \in Seq(S) /\ Len(u) = (IF 1 <= Len(s) THEN Len(s) - 1 + 1 ELSE 0)
          /\ \A i \in 1..Len(s) - 1 + 1 : u[i] = t[1 + i - 1]
      BY <1>1, <3>1, SubSeqProperties
    <3> HIDE DEF u
    <3> QED BY <3>2, <1>1
  <2> HIDE DEF u
  <2>4. u = s BY <2>1, <2>3, SeqEqual
  <2> QED BY <2>1, <2>2, <2>4 DEF IsPrefix, u
<1> QED BY <1>2, <1>3, <1>4, <1>5


\* The logs, the visited and the phase depend on the archive and the producer.
LEMMA SameArchive ==
    ASSUME out' = out PROVE Logs' = Logs /\ Visited' = Visited /\ LogsOnce' = LogsOnce
  BY DEF Logs, Visited, LogsOnce

\* The sessions go on beside the download.
LEMMA CorpusMoves ==
    ASSUME ArchiveInv, UNCHANGED download, CorpusInv',
           \A s \in Family : Extends(held'[s], held[s]) /\ saved[s] <= saved'[s]
    PROVE  ArchiveInv'
<1>1. UNCHANGED <<asked, producer, parked, stream, stopped, queued, out>> BY DEF download
<1>2. ProducerTypes' /\ GateInv' /\ ArchiveEnded' /\ ClosedIsWhole'
  BY <1>1 DEF ArchiveInv, ProducerTypes, GateInv, ArchiveEnded, ClosedIsWhole, Logs
<1>3. Logs' = Logs /\ Visited' = Visited /\ LogsOnce' = LogsOnce /\ Phase' = Phase /\ InLog' = InLog
      /\ Written' = Written /\ Last(out)' = Last(out)
  BY <1>1, SameArchive DEF Phase, InLog, Written
<1>4. /\ held \in [Family -> Seq(ArchiveEvents)] /\ held' \in [Family -> Seq(ArchiveEvents)]
      /\ saved \in [Family -> Nat] /\ saved' \in [Family -> Nat]
      /\ asked \in [Family -> Seq(ArchiveEvents)]
      /\ out \in Seq(ArchiveEntry)
  BY DEF ArchiveInv, CorpusInv, ProducerTypes
<1>5. \A s \in Family : \A q \in Seq(ArchiveEvents) : Extends(held[s], q) => Extends(held'[s], q)
  <2> SUFFICES ASSUME NEW s \in Family, NEW q \in Seq(ArchiveEvents), Extends(held[s], q)
               PROVE  Extends(held'[s], q)
    OBVIOUS
  <2>1. held[s] \in Seq(ArchiveEvents) /\ held'[s] \in Seq(ArchiveEvents) BY <1>4
  <2> QED BY <2>1, ExtendsOn
<1>6. AskedInv' BY <1>1, <1>4, <1>5 DEF ArchiveInv, AskedInv
<1>7. TreeInv' BY <1>1, <1>3 DEF ArchiveInv, TreeInv
<1>8. RefsInv' BY <1>1, <1>3 DEF ArchiveInv, RefsInv
<1>9. LogInv'
  <2> SUFFICES ASSUME Phase \in Phases PROVE LogInv' BY <1>3 DEF LogInv, Phases
  <2>1. \A i \in Logs : out[i].id \in Family /\ out[i].events \in Seq(ArchiveEvents)
    <3> SUFFICES ASSUME NEW i \in Logs PROVE out[i].id \in Family /\ out[i].events \in Seq(ArchiveEvents)
      OBVIOUS
    <3>1. out[i].id \in Visited BY DEF Visited
    <3>2. i \in 1..Len(out) BY <1>4, LenProperties DEF Logs
    <3>3. out[i] \in ArchiveEntry BY <1>4, <3>2, ElementOfSeq
    <3> QED BY <3>1, <3>3 DEF ArchiveInv, TreeInv, ArchiveEntry
  <2>2. ASSUME NEW i \in Logs
        PROVE  /\ Extends(held'[out[i].id], out[i].events)
               /\ Len(asked[out[i].id]) <= saved'[out[i].id]
               /\ ~(InLog /\ i = Len(out)) => Len(asked[out[i].id]) <= Len(out[i].events)
    <3>1. /\ Extends(held[out[i].id], out[i].events)
          /\ Len(asked[out[i].id]) <= saved[out[i].id]
          /\ ~(InLog /\ i = Len(out)) => Len(asked[out[i].id]) <= Len(out[i].events)
      BY DEF ArchiveInv, LogInv
    <3>2. out[i].id \in Family /\ out[i].events \in Seq(ArchiveEvents) BY <2>1
    <3>3. saved[out[i].id] <= saved'[out[i].id] /\ saved[out[i].id] \in Nat /\ saved'[out[i].id] \in Nat
          /\ asked[out[i].id] \in Seq(ArchiveEvents)
      BY <3>2, <1>4
    <3>4. Len(asked[out[i].id]) \in Nat BY <3>3, LenProperties
    <3> QED BY <3>1, <3>2, <3>3, <3>4, <1>5
  <2>3. InLog => /\ out # <<>> /\ Last(out).kind = "log" /\ Last(out).id = producer.log
                 /\ Phase # "page" => Last(out).events = <<>>
                 /\ Phase = "page" => /\ Len(asked[producer.log]) <= producer.upto
                                      /\ producer.upto <= Len(held'[producer.log])
                                      /\ Len(Written) <= producer.upto
    <3>1. producer.log \in Family /\ producer.upto \in Nat BY DEF ArchiveInv, ProducerTypes
    <3>2. Len(held[producer.log]) \in Nat /\ Len(held'[producer.log]) \in Nat
      BY <3>1, <1>4, LenProperties
    <3>3. Len(held[producer.log]) <= Len(held'[producer.log]) BY <3>1 DEF Extends
    <3>4. producer.upto <= Len(held[producer.log]) => producer.upto <= Len(held'[producer.log])
      BY <3>1, <3>2, <3>3
    <3> QED BY <3>4, Zenon DEF ArchiveInv, LogInv
  <2>4. \A i \in Logs :
           /\ Extends(held'[out[i].id], out[i].events)
           /\ Len(asked[out[i].id]) <= saved'[out[i].id]
           /\ ~(InLog /\ i = Len(out)) => Len(asked[out[i].id]) <= Len(out[i].events)
    BY <2>2
  <2> QED BY <1>1, <1>3, <2>3, <2>4, Zenon DEF LogInv
<1> QED BY <1>2, <1>6, <1>7, <1>8, <1>9 DEF ArchiveInv

LEMMA SpawnKeeps ==
    ASSUME ArchiveInv, NEW s \in Family, Spawn(s) PROVE ArchiveInv'
<1>1. UNCHANGED <<held, saved, download>> /\ born' = born \cup {s} /\ s \notin born /\ ParentOf[s] \in born
  BY DEF Spawn
<1>2. Grounded(born') BY <1>1, GroundedGrows DEF ArchiveInv, CorpusInv
<1>3. CorpusInv' BY <1>1, <1>2 DEF ArchiveInv, CorpusInv
<1>4. ASSUME NEW t \in Family PROVE Extends(held'[t], held[t]) /\ saved[t] <= saved'[t]
  <2>1. held[t] \in Seq(ArchiveEvents) /\ saved[t] \in Nat BY DEF ArchiveInv, CorpusInv
  <2>2. saved[t] <= saved[t] BY <2>1
  <2> QED BY <2>1, <2>2, <1>1, ExtendsOn
<1> QED BY <1>1, <1>3, <1>4, CorpusMoves

LEMMA RecordKeeps ==
    ASSUME ArchiveInv, NEW s \in Family, NEW e \in ArchiveEvents, Record(s, e)
    PROVE  ArchiveInv'
<1>1. UNCHANGED <<born, saved, download>> /\ held' = [held EXCEPT ![s] = Append(@, e)] /\ s \in born
  BY DEF Record
<1>2. held \in [Family -> Seq(ArchiveEvents)] /\ saved \in [Family -> Nat]
  BY DEF ArchiveInv, CorpusInv
<1>3. \A t \in Family : held'[t] = IF t = s THEN Append(held[s], e) ELSE held[t] BY <1>1, <1>2
<1>4. ASSUME NEW t \in Family
      PROVE  /\ held'[t] \in Seq(ArchiveEvents) /\ Extends(held'[t], held[t])
             /\ saved[t] <= saved'[t] /\ saved'[t] <= Len(held'[t])
             /\ held'[t] # <<>> => t \in born'
  <2>1. held[t] \in Seq(ArchiveEvents) /\ saved[t] \in Nat /\ saved[t] <= Len(held[t])
        /\ (held[t] # <<>> => t \in born)
    BY DEF ArchiveInv, CorpusInv
  <2>2. Append(held[t], e) \in Seq(ArchiveEvents) /\ Len(Append(held[t], e)) = Len(held[t]) + 1
        /\ Len(held[t]) \in Nat
    BY <2>1, AppendProperties, LenProperties
  <2>3. Extends(held[t], held[t]) /\ Extends(Append(held[t], e), held[t]) BY <2>1, ExtendsOn
  <2>4. CASE t = s BY <2>1, <2>2, <2>3, <2>4, <1>1, <1>3
  <2>5. CASE t # s
    <3>1. held'[t] = held[t] /\ saved'[t] = saved[t] /\ saved[t] <= saved[t]
      BY <2>1, <2>5, <1>1, <1>3
    <3> QED BY <2>1, <2>3, <3>1, <1>1
  <2> QED BY <2>4, <2>5
<1>5. held' \in [Family -> Seq(ArchiveEvents)]
  <2>1. held' = [t \in Family |-> held'[t]] BY <1>1, <1>2
  <2> QED BY <2>1, <1>4
<1>6. CorpusInv' BY <1>1, <1>4, <1>5 DEF ArchiveInv, CorpusInv
<1> QED BY <1>1, <1>4, <1>6, CorpusMoves

LEMMA FlushedKeeps ==
    ASSUME ArchiveInv, NEW s \in Family, flushed(s), held' = held, born' = born
    PROVE  CorpusInv' /\ saved' \in [Family -> Nat] /\ saved'[s] = Len(held[s])
           /\ \A t \in Family : saved[t] <= saved'[t] /\ Extends(held'[t], held[t])
<1>1. held \in [Family -> Seq(ArchiveEvents)] /\ saved \in [Family -> Nat]
  BY DEF ArchiveInv, CorpusInv
<1>2. \A t \in Family : saved'[t] = IF t = s THEN Len(held[s]) ELSE saved[t] BY <1>1 DEF flushed
<1>3. ASSUME NEW t \in Family
      PROVE  /\ saved[t] <= saved'[t] /\ saved'[t] \in Nat /\ saved'[t] <= Len(held[t])
             /\ Extends(held'[t], held[t])
  <2>1. held[t] \in Seq(ArchiveEvents) /\ saved[t] \in Nat /\ saved[t] <= Len(held[t])
    BY DEF ArchiveInv, CorpusInv
  <2>2. Len(held[t]) \in Nat BY <2>1, LenProperties
  <2>3. Extends(held[t], held[t]) BY <2>1, ExtendsOn
  <2> QED BY <2>1, <2>2, <2>3, <1>2
<1>4. saved' \in [Family -> Nat]
  <2>1. saved' = [t \in Family |-> saved'[t]] BY <1>1 DEF flushed
  <2> QED BY <2>1, <1>3
<1>5. CorpusInv' BY <1>1, <1>3, <1>4 DEF ArchiveInv, CorpusInv
<1> QED BY <1>2, <1>3, <1>4, <1>5

LEMMA SaveLogKeeps ==
    ASSUME ArchiveInv, NEW s \in Family, SaveLog(s) PROVE ArchiveInv'
<1>1. UNCHANGED <<born, held, download>> /\ flushed(s) BY DEF SaveLog, flushed
<1> QED BY <1>1, FlushedKeeps, CorpusMoves


\* Steps of the producer that neither read a session nor write an entry: they
\* go on to the next phase when theirs is over.
LEMMA PhaseMoves ==
    ASSUME ArchiveInv, ProducerTypes', GateInv', ArchiveEnded',
           UNCHANGED <<corpus, asked, out>>, stream # "none", stream' = "closed" => ClosedIsWhole',
           producer'.todo = producer.todo, producer'.tree = producer.tree,
           producer'.log = producer.log, producer'.refs = producer.refs,
           Phase' \in Phases => Phase \in Phases,
           Phase' \in {"child", "attachment"} => producer.tree # {},
           Phase' = "lineage" => producer.tree = {},
           Phase' = "attachment" => /\ producer.todo = <<>>
                                    /\ \/ producer'.left = producer.refs
                                       \/ producer'.left = producer.left /\ Phase = "attachment",
           Phase' \in Phases /\ Phase = "attachment" => Phase' = "attachment",
           InLog' => InLog,
           InLog /\ ~InLog' /\ Phase' \in Phases => Phase = "page" /\ Len(Written) = producer.upto,
           Phase' = "page" => \/ Phase = "page" /\ producer'.upto = producer.upto
                              \/ Phase # "page" /\ producer'.upto = saved[producer.log],
           Phase' \in {"header", "firstPage"} => Phase # "page"
    PROVE  ArchiveInv'
<1>1. /\ Logs' = Logs /\ Visited' = Visited /\ LogsOnce' = LogsOnce /\ Written' = Written
      /\ Last(out)' = Last(out) /\ out' = out /\ asked' = asked
      /\ held' = held /\ saved' = saved /\ born' = born
  BY SameArchive DEF Written, corpus
<1>2. CorpusInv' /\ AskedInv' /\ ClosedIsWhole'
  BY <1>1 DEF ArchiveInv, CorpusInv, AskedInv, ClosedIsWhole
<1>3. TreeInv' BY <1>1 DEF ArchiveInv, TreeInv
<1>4. RefsInv' BY <1>1 DEF ArchiveInv, RefsInv
<1>5. LogInv'
  <2> SUFFICES ASSUME Phase' \in Phases PROVE LogInv' BY DEF LogInv
  <2>1. Phase \in Phases OBVIOUS
  <2>2. /\ \A i \in Logs : /\ Extends(held[out[i].id], out[i].events)
                           /\ Len(asked[out[i].id]) <= saved[out[i].id]
                           /\ ~(InLog /\ i = Len(out)) => Len(asked[out[i].id]) <= Len(out[i].events)
        /\ InLog => /\ out # <<>> /\ Last(out).kind = "log" /\ Last(out).id = producer.log
                    /\ Phase # "page" => Last(out).events = <<>>
                    /\ Phase = "page" => /\ Len(asked[producer.log]) <= producer.upto
                                         /\ producer.upto <= Len(held[producer.log])
                                         /\ Len(Written) <= producer.upto
    BY <2>1 DEF ArchiveInv, LogInv
  <2>3. ASSUME InLog
        PROVE  Len(out) \in Logs /\ Last(out) = out[Len(out)] /\ Written = out[Len(out)].events
    <3>1. out # <<>> /\ out[Len(out)].kind = "log" BY <2>2, <2>3 DEF Last
    <3>2. Len(out) \in DOMAIN out BY <3>1, LenProperties, EmptySeq DEF ArchiveInv, ProducerTypes
    <3> QED BY <3>1, <3>2 DEF Logs, Last, Written
  <2>4. ASSUME NEW i \in Logs, ~(InLog' /\ i = Len(out))
        PROVE  Len(asked[out[i].id]) <= Len(out[i].events)
    <3>1. CASE ~(InLog /\ i = Len(out)) BY <2>2, <3>1
    <3>2. CASE InLog /\ i = Len(out)
      <4>1. Phase = "page" /\ Len(Written) = producer.upto BY <3>2, <2>4
      <4>2. Len(asked[producer.log]) <= producer.upto /\ Last(out).id = producer.log
        BY <2>2, <3>2, <4>1, Zenon
      <4>3. out[i].id = producer.log /\ out[i].events = Written BY <2>3, <3>2, <4>2
      <4> QED BY <4>1, <4>2, <4>3
    <3> QED BY <3>1, <3>2
  <2>5. ASSUME Phase' = "page"
        PROVE  /\ Len(asked[producer.log]) <= producer'.upto
               /\ producer'.upto <= Len(held[producer.log])
               /\ Len(Written) <= producer'.upto
    <3>0. InLog
      <4>1. InLog' BY <2>5 DEF InLog
      <4> QED BY <4>1
    <3>1. CASE Phase = "page" /\ producer'.upto = producer.upto BY <2>2, <3>0, <3>1, Zenon
    <3>2. CASE Phase # "page" /\ producer'.upto = saved[producer.log]
      <4>1. Last(out).events = <<>> /\ Last(out).id = producer.log BY <2>2, <3>0, <3>2, Zenon
      <4>2. Len(Written) = 0 BY <4>1, EmptySeq DEF Written
      <4>3. Len(asked[producer.log]) <= saved[producer.log] BY <2>2, <2>3, <3>0, <4>1
      <4>4. producer.log \in Family BY DEF ArchiveInv, ProducerTypes
      <4>5. saved[producer.log] \in Nat /\ saved[producer.log] <= Len(held[producer.log])
        BY <4>4 DEF ArchiveInv, CorpusInv
      <4> QED BY <3>2, <4>2, <4>3, <4>5
    <3> QED BY <3>1, <3>2, <2>5
  <2>6. ASSUME InLog', Phase' # "page" PROVE Last(out).events = <<>>
    <3>1. Phase' \in {"header", "firstPage"} BY <2>6 DEF InLog
    <3>2. InLog /\ Phase # "page" BY <3>1, <2>6
    <3> QED BY <2>2, <3>2, Zenon
  <2>7. /\ \A i \in Logs : /\ Extends(held[out[i].id], out[i].events)
                           /\ Len(asked[out[i].id]) <= saved[out[i].id]
                           /\ ~(InLog' /\ i = Len(out)) => Len(asked[out[i].id]) <= Len(out[i].events)
    BY <2>2, <2>4, Zenon
  <2>8. InLog' => /\ out # <<>> /\ Last(out).kind = "log" /\ Last(out).id = producer.log
                  /\ Phase' # "page" => Last(out).events = <<>>
                  /\ Phase' = "page" => /\ Len(asked[producer.log]) <= producer'.upto
                                        /\ producer'.upto <= Len(held[producer.log])
                                        /\ Len(Written) <= producer'.upto
    BY <2>2, <2>5, <2>6, Zenon
  <2>9. /\ \A i \in Logs' : /\ Extends(held'[out'[i].id], out'[i].events)
                            /\ Len(asked'[out'[i].id]) <= saved'[out'[i].id]
                            /\ ~(InLog' /\ i = Len(out')) => Len(asked'[out'[i].id]) <= Len(out'[i].events)
    BY <2>7, <1>1
  <2>10. InLog' => /\ out' # <<>> /\ Last(out)'.kind = "log" /\ Last(out)'.id = producer'.log
                   /\ Phase' # "page" => Last(out)'.events = <<>>
                   /\ Phase' = "page" => /\ Len(asked'[producer'.log]) <= producer'.upto
                                         /\ producer'.upto <= Len(held'[producer'.log])
                                         /\ Len(Written') <= producer'.upto
    BY <2>8, <1>1
  <2> QED BY <2>9, <2>10, Zenon DEF LogInv
<1> QED BY <1>2, <1>3, <1>4, <1>5 DEF ArchiveInv

LEMMA PassesKeeps ==
    ASSUME ArchiveInv, Passes PROVE ArchiveInv'
<1> DEFINE p == producer'
<1>1. /\ producer.at = "gate" /\ ~parked /\ ~stopped /\ stream # "none"
      /\ UNCHANGED <<corpus, asked, parked, stream, stopped, queued, out>>
      /\ producer' = [producer EXCEPT !.at = producer.then, !.then = "none"]
  BY DEF Passes, Working
<1>2. /\ p.at = producer.then /\ p.then = "none" /\ p.todo = producer.todo /\ p.tree = producer.tree
      /\ p.log = producer.log /\ p.upto = producer.upto /\ p.refs = producer.refs /\ p.left = producer.left
      /\ producer.then \in Phases \ {"header"}
  BY <1>1 DEF ArchiveInv, ProducerTypes
<1>3. ProducerTypes' BY <1>1, <1>2 DEF ArchiveInv, ProducerTypes, Phases
<1>4. GateInv' /\ ArchiveEnded' BY <1>1, <1>2 DEF ArchiveInv, GateInv, ArchiveEnded, Phases
<1>5. Phase' = Phase /\ InLog' = InLog /\ Phase \in Phases BY <1>1, <1>2 DEF Phase, InLog, Phases
<1>6. stream # "closed" BY <1>1 DEF ArchiveInv, ArchiveEnded
<1> HIDE DEF p
<1>7. /\ Phase \in {"child", "attachment"} => producer.tree # {}
      /\ Phase = "lineage" => producer.tree = {}
      /\ Phase = "attachment" => producer.todo = <<>>
  BY <1>5 DEF ArchiveInv, TreeInv
<1> QED BY <1>1, <1>2, <1>3, <1>4, <1>5, <1>6, <1>7, PhaseMoves DEF p


\* A push goes to the gate, and waits there when the queue is full.
LEMMA PushesToGate ==
    ASSUME ArchiveInv, producer.at \in Phases, ~stopped, stream # "none", UNCHANGED <<stopped, stream>>,
           queued' = queued + 1, parked' = waitUnlessFull, producer'.at = "gate"
    PROVE  GateInv' /\ ArchiveEnded' /\ queued' \in Nat /\ parked' \in BOOLEAN /\ stream # "closed"
<1>1. queued \in Nat /\ queued < HighWater /\ HighWater \in Nat /\ HighWater # 0
  BY ArchiveSetting DEF ArchiveInv, GateInv, ProducerTypes
<1>2. parked' = (queued' >= HighWater) /\ parked' \in BOOLEAN BY DEF waitUnlessFull
<1>3. queued' <= HighWater /\ queued' \in Nat BY <1>1
<1>4. ~parked' => queued' < HighWater
  <2>1. ~(queued' >= HighWater) => queued' < HighWater BY <1>1, <1>3
  <2>2. ~parked' => ~(queued' >= HighWater) BY <1>2, Zenon
  <2> QED BY <2>1, <2>2
<1>5. stream # "closed" /\ "gate" \notin Phases BY DEF ArchiveInv, ArchiveEnded, Phases
<1> QED BY <1>2, <1>3, <1>4, <1>5 DEF GateInv, ArchiveEnded

LEMMA HeaderLineKeeps ==
    ASSUME ArchiveInv, HeaderLine PROVE ArchiveInv'
<1> DEFINE p == producer'
<1>1. /\ producer.at = "header" /\ ~stopped /\ stream # "none"
      /\ UNCHANGED <<corpus, asked, stream, stopped, out>>
      /\ queued' = queued + 1 /\ parked' = waitUnlessFull
      /\ producer' = [producer EXCEPT !.at = "gate", !.then = "firstPage"]
  BY DEF HeaderLine, Working, push
<1>2. /\ p.at = "gate" /\ p.then = "firstPage" /\ p.todo = producer.todo /\ p.tree = producer.tree
      /\ p.log = producer.log /\ p.upto = producer.upto /\ p.refs = producer.refs /\ p.left = producer.left
  BY <1>1 DEF ArchiveInv, ProducerTypes
<1>3. /\ GateInv' /\ ArchiveEnded' /\ queued' \in Nat /\ parked' \in BOOLEAN /\ stream # "closed"
  BY <1>1, <1>2, PushesToGate DEF Phases
<1>4. ProducerTypes' BY <1>1, <1>2, <1>3 DEF ArchiveInv, ProducerTypes, Phases
<1>5. Phase = "header" /\ Phase' = "firstPage" /\ InLog /\ InLog' BY <1>1, <1>2 DEF Phase, InLog
<1> HIDE DEF p
<1> QED BY <1>1, <1>2, <1>3, <1>4, <1>5, PhaseMoves DEF p, Phases

LEMMA PinLogKeeps ==
    ASSUME ArchiveInv, PinLog PROVE ArchiveInv'
<1> DEFINE p == producer'
<1>1. /\ producer.at = "firstPage" /\ ~stopped /\ stream # "none"
      /\ UNCHANGED <<corpus, asked, parked, stream, stopped, queued, out>>
      /\ producer' = [producer EXCEPT !.at = "page", !.upto = saved[producer.log]]
  BY DEF PinLog, Working
<1>2. /\ p.at = "page" /\ p.then = producer.then /\ p.todo = producer.todo /\ p.tree = producer.tree
      /\ p.log = producer.log /\ p.upto = saved[producer.log] /\ p.refs = producer.refs
      /\ p.left = producer.left
  BY <1>1 DEF ArchiveInv, ProducerTypes
<1>3. saved[producer.log] \in Nat BY DEF ArchiveInv, ProducerTypes, CorpusInv
<1>4. ProducerTypes' BY <1>1, <1>2, <1>3 DEF ArchiveInv, ProducerTypes, Phases
<1>5. GateInv' /\ ArchiveEnded' /\ stream # "closed"
  BY <1>1, <1>2 DEF ArchiveInv, GateInv, ArchiveEnded, Phases
<1>6. Phase = "firstPage" /\ Phase' = "page" /\ InLog /\ InLog' BY <1>1, <1>2 DEF Phase, InLog
<1> HIDE DEF p
<1> QED BY <1>1, <1>2, <1>4, <1>5, <1>6, PhaseMoves DEF p, Phases

LEMMA LogEndsKeeps ==
    ASSUME ArchiveInv, LogEnds PROVE ArchiveInv'
<1> DEFINE p == producer'
           next == IF producer.log = Head0 /\ producer.tree = {} THEN "lineage" ELSE "child"
<1>1. /\ producer.at = "page" /\ ~stopped /\ stream # "none" /\ Len(Written) = producer.upto
      /\ UNCHANGED <<corpus, asked, stream, stopped, out>>
      /\ queued' = queued + 1 /\ parked' = waitUnlessFull
      /\ producer' = [producer EXCEPT !.at = "gate", !.then = next]
  BY DEF LogEnds, Working, push
<1>2. /\ p.at = "gate" /\ p.then = next /\ p.todo = producer.todo /\ p.tree = producer.tree
      /\ p.log = producer.log /\ p.upto = producer.upto /\ p.refs = producer.refs /\ p.left = producer.left
  BY <1>1 DEF ArchiveInv, ProducerTypes
<1>3. /\ GateInv' /\ ArchiveEnded' /\ queued' \in Nat /\ parked' \in BOOLEAN /\ stream # "closed"
  BY <1>1, <1>2, PushesToGate DEF Phases
<1>4. ProducerTypes' BY <1>1, <1>2, <1>3 DEF ArchiveInv, ProducerTypes, Phases
<1>5. Phase = "page" /\ Phase' = next /\ InLog /\ ~InLog' BY <1>1, <1>2 DEF Phase, InLog
<1>6. producer.tree = {} => producer.log = Head0 BY <1>5 DEF ArchiveInv, TreeInv, Phases
<1>7. /\ next = "child" => producer.tree # {}
      /\ next = "lineage" => producer.tree = {}
  BY <1>6
<1> HIDE DEF p
<1> QED BY <1>1, <1>2, <1>3, <1>4, <1>5, <1>7, PhaseMoves DEF p, Phases

LEMMA AttachedKeeps ==
    ASSUME ArchiveInv, Attached PROVE ArchiveInv'
<1> DEFINE p == producer'
<1>1. /\ producer.at = "child" /\ ~stopped /\ stream # "none" /\ producer.todo = <<>>
      /\ UNCHANGED <<corpus, asked, parked, stream, stopped, queued, out>>
      /\ producer' = [producer EXCEPT !.at = "attachment", !.left = producer.refs]
  BY DEF Attached, Working
<1>2. /\ p.at = "attachment" /\ p.then = producer.then /\ p.todo = producer.todo /\ p.tree = producer.tree
      /\ p.log = producer.log /\ p.upto = producer.upto /\ p.refs = producer.refs
      /\ p.left = producer.refs
  BY <1>1 DEF ArchiveInv, ProducerTypes
<1>3. ProducerTypes' BY <1>1, <1>2 DEF ArchiveInv, ProducerTypes, Phases
<1>4. GateInv' /\ ArchiveEnded' /\ stream # "closed"
  BY <1>1, <1>2 DEF ArchiveInv, GateInv, ArchiveEnded, Phases
<1>5. Phase = "child" /\ Phase' = "attachment" /\ ~InLog /\ ~InLog' BY <1>1, <1>2 DEF Phase, InLog
<1>6. producer.tree # {} BY <1>5 DEF ArchiveInv, TreeInv, Phases
<1> HIDE DEF p
<1> QED BY <1>1, <1>2, <1>3, <1>4, <1>5, <1>6, PhaseMoves DEF p, Phases

\* A download that fails says so, and no archive looks complete.
LEMMA ProductionFailsKeeps ==
    ASSUME ArchiveInv, ProductionFails PROVE ArchiveInv'
<1> DEFINE p == producer'
<1>1. /\ producer.at \in Phases \cup {"gate"}
      /\ UNCHANGED <<corpus, asked, parked, stopped, queued, out>>
      /\ producer' = [producer EXCEPT !.at = "done"]
      /\ stream' = IF stream = "open" THEN "errored" ELSE stream
      /\ producer.at = "gate" => ~parked
  BY DEF ProductionFails, terminateZip, Phases
<1>2. /\ p.at = "done" /\ p.then = producer.then /\ p.todo = producer.todo /\ p.tree = producer.tree
      /\ p.log = producer.log /\ p.upto = producer.upto /\ p.refs = producer.refs
      /\ p.left = producer.left
  BY <1>1 DEF ArchiveInv, ProducerTypes
<1>3. stream # "none" /\ stream # "closed"
  BY <1>1 DEF ArchiveInv, ArchiveEnded, ProducerTypes, Phases
<1>4. ProducerTypes' BY <1>1, <1>2, <1>3 DEF ArchiveInv, ProducerTypes, Phases
<1>5. GateInv' /\ ArchiveEnded' /\ stream' # "closed"
  BY <1>1, <1>2, <1>3 DEF ArchiveInv, GateInv, ArchiveEnded, Phases
<1>6. Phase' = "done" /\ ~InLog' BY <1>2 DEF Phase, InLog
<1> HIDE DEF p
<1> QED BY <1>1, <1>2, <1>3, <1>4, <1>5, <1>6, PhaseMoves DEF p, Phases

\* The archive ends when every log and every attachment it names is in it.
LEMMA ArchiveEndKeeps ==
    ASSUME ArchiveInv, archiveEnd PROVE ArchiveInv'
<1> DEFINE p == producer'
<1>1. /\ producer.at = "attachment" /\ ~stopped /\ stream # "none" /\ producer.left = <<>>
      /\ UNCHANGED <<corpus, asked, parked, stopped, queued, out>>
      /\ producer' = [producer EXCEPT !.at = "done"]
      /\ stream' = IF stream = "open" THEN "closed" ELSE stream
  BY DEF archiveEnd, Working
<1>2. /\ p.at = "done" /\ p.then = producer.then /\ p.todo = producer.todo /\ p.tree = producer.tree
      /\ p.log = producer.log /\ p.upto = producer.upto /\ p.refs = producer.refs
      /\ p.left = producer.left
  BY <1>1 DEF ArchiveInv, ProducerTypes
<1>3. ProducerTypes' BY <1>1, <1>2 DEF ArchiveInv, ProducerTypes, Phases
<1>4. GateInv' /\ ArchiveEnded' BY <1>1, <1>2 DEF ArchiveInv, GateInv, ArchiveEnded, Phases
<1>5. Phase' = "done" /\ ~InLog' /\ Phase = "attachment" /\ ~InLog BY <1>1, <1>2 DEF Phase, InLog
<1> HIDE DEF p
<1>6. ClosedIsWhole'
  <2>1. /\ Visited \subseteq Family /\ Head0 \in Visited /\ LogsOnce /\ producer.tree # {}
        /\ Grounded(producer.tree) /\ \A s \in Family : asked[s] # <<>> => s \in producer.tree
        /\ \A t \in producer.tree \ {Head0} :
              ParentOf[t] \in Visited => t \in Visited \cup ToSet(producer.todo)
        /\ producer.todo = <<>>
    BY <1>5, Zenon DEF ArchiveInv, TreeInv, Phases
  <2>2. ToSet(producer.todo) = {} /\ ToSet(producer.left) = {} BY <2>1, <1>1 DEF ToSet
  <2>3. producer.tree \subseteq Visited BY <2>1, <2>2, AllReached
  <2>4. \A s \in Family : asked[s] # <<>> => \E i \in Logs : out[i].id = s BY <2>1, <2>3 DEF Visited
  <2>5. \A i, j \in Logs : out[i].id = out[j].id => i = j BY <2>1 DEF LogsOnce
  <2>6. ASSUME NEW i \in Logs PROVE IsPrefix(asked[out[i].id], out[i].events)
    <3>1. /\ Extends(held[out[i].id], out[i].events) /\ Len(asked[out[i].id]) <= Len(out[i].events)
      BY <1>5 DEF ArchiveInv, LogInv, Phases
    <3>2. out[i].id \in Family BY <2>1 DEF Visited
    <3>3. asked[out[i].id] \in Seq(ArchiveEvents) /\ Extends(held[out[i].id], asked[out[i].id])
      BY <1>1, <3>2 DEF ArchiveInv, AskedInv, ProducerTypes
    <3>4. i \in 1..Len(out) BY LenProperties DEF ArchiveInv, ProducerTypes, Logs
    <3>5. out[i].events \in Seq(ArchiveEvents)
      <4>1. out[i] \in ArchiveEntry BY <3>4, ElementOfSeq DEF ArchiveInv, ProducerTypes
      <4> QED BY <4>1 DEF ArchiveEntry
    <3>6. Len(asked[out[i].id]) \in Nat /\ Len(out[i].events) \in Nat BY <3>3, <3>5, LenProperties
    <3>7. Extends(out[i].events, asked[out[i].id]) BY <3>1, <3>3, <3>6 DEF Extends
    <3> QED BY <3>3, <3>5, <3>7, ExtendsOn
  <2>7. ASSUME NEW i \in Logs, NEW k \in DOMAIN out[i].events, out[i].events[k] # Plain
        PROVE  \E j \in DOMAIN out : j > i /\ out[j].kind = "attachment" /\ out[j].id = out[i].events[k]
    <3>1. out[i].events[k] \in ToSet(producer.refs) BY <1>5, <2>7 DEF ArchiveInv, RefsInv, Phases
    <3>2. PICK j \in DOMAIN out \ Logs : out[j].id = out[i].events[k]
      BY <3>1, <2>2, <1>5 DEF ArchiveInv, RefsInv, Phases
    <3>3. i < j BY <1>5 DEF ArchiveInv, RefsInv, Phases
    <3>4. DOMAIN out = 1..Len(out) /\ Len(out) \in Nat
      BY LenProperties DEF ArchiveInv, ProducerTypes
    <3>5. i \in Int /\ j \in Int BY <3>4 DEF Logs
    <3>6. out[j] \in ArchiveEntry BY <3>4, ElementOfSeq DEF ArchiveInv, ProducerTypes
    <3>7. out[j].kind = "attachment" BY <3>6 DEF Logs, ArchiveEntry
    <3> QED BY <3>2, <3>3, <3>5, <3>7
  <2>8. UNCHANGED <<asked, out>> /\ Logs' = Logs BY <1>1 DEF Logs
  <2> QED BY <2>4, <2>5, <2>6, <2>7, <2>8 DEF ClosedIsWhole
<1> QED BY <1>1, <1>2, <1>3, <1>4, <1>5, <1>6, PhaseMoves DEF p, Phases

\* The client reads, or leaves.
LEMMA ClientKeeps ==
    ASSUME ArchiveInv, Reads \/ ClientLeaves
    PROVE  ArchiveInv'
<1>1. UNCHANGED <<corpus, asked, producer, out>> /\ stream # "none" BY DEF Reads, ClientLeaves
<1>2. queued \in Nat /\ HighWater \in Nat /\ queued <= HighWater /\ HighWater # 0
  BY ArchiveSetting DEF ArchiveInv, ProducerTypes, GateInv
<1>3. /\ queued' \in Nat /\ queued' <= queued /\ parked' \in BOOLEAN /\ stopped' \in BOOLEAN
      /\ stream' \in {"open", "closed", "cancelled"}
      /\ stream' = "closed" => stream = "closed"
      /\ parked' => parked /\ queued' >= HighWater
      /\ ~stopped' => /\ ~stopped
                      /\ ~parked' => (~parked \/ queued' < HighWater)
  <2>1. CASE Reads
    <3>1. parked' \in BOOLEAN /\ (parked' => parked /\ queued' >= HighWater)
          /\ (~parked' => ~parked \/ ~(queued' >= HighWater))
      BY <2>1 DEF Reads, pulled
    <3>2. queued' \in Nat /\ queued' <= queued /\ (~(queued' >= HighWater) => queued' < HighWater)
      BY <2>1, <1>2 DEF Reads
    <3>3. UNCHANGED <<stream, stopped>> /\ stream \in {"open", "closed"} BY <2>1 DEF Reads
    <3> QED BY <3>1, <3>2, <3>3 DEF ArchiveInv, ProducerTypes
  <2>2. CASE ClientLeaves
    <3>1. /\ parked' = FALSE /\ stopped' = TRUE /\ stream' \in {"open", "cancelled"}
          /\ queued' = IF stream' = "open" THEN queued ELSE 0
      BY <2>2 DEF ClientLeaves, released
    <3>2. queued' \in Nat /\ queued' <= queued BY <3>1, <1>2
    <3> QED BY <3>1, <3>2
  <2> QED BY <2>1, <2>2
<1>4. ProducerTypes' BY <1>1, <1>3 DEF ArchiveInv, ProducerTypes
<1>5. GateInv'
  <2>1. queued' <= HighWater /\ (queued < HighWater => queued' < HighWater) BY <1>2, <1>3
  <2> QED BY <2>1, <1>1, <1>3, Zenon DEF ArchiveInv, GateInv
<1>6. ArchiveEnded' BY <1>1, <1>3 DEF ArchiveInv, ArchiveEnded
<1>7. /\ Logs' = Logs /\ Visited' = Visited /\ LogsOnce' = LogsOnce /\ Written' = Written
      /\ Last(out)' = Last(out) /\ Phase' = Phase /\ InLog' = InLog
      /\ held' = held /\ saved' = saved /\ born' = born
  BY <1>1, SameArchive DEF Written, corpus, Phase, InLog
<1>8. CorpusInv' /\ AskedInv' /\ ClosedIsWhole'
  BY <1>1, <1>3, <1>7 DEF ArchiveInv, CorpusInv, AskedInv, ClosedIsWhole
<1>9. TreeInv' BY <1>1, <1>7 DEF ArchiveInv, TreeInv
<1>10. RefsInv' BY <1>1, <1>7 DEF ArchiveInv, RefsInv
<1>11. LogInv' BY <1>1, <1>7 DEF ArchiveInv, LogInv
<1> QED BY <1>4, <1>5, <1>6, <1>8, <1>9, <1>10, <1>11 DEF ArchiveInv


\* The first entry is the log of the session that was asked for.
LEMMA ExportStarts ==
    ASSUME ArchiveInv, sessionLogExportResponse PROVE ArchiveInv'
<1> DEFINE p == producer'
           first == [kind |-> "log", id |-> Head0, events |-> <<>>]
<1>1. /\ stream = "none" /\ stream' = "open" /\ asked' = held /\ flushed(Head0)
      /\ producer' = [Idle EXCEPT !.at = "header"] /\ out' = <<first>>
      /\ UNCHANGED <<born, held, parked, stopped, queued>>
  BY DEF sessionLogExportResponse
<1>2. /\ p.at = "header" /\ p.then = "none" /\ p.todo = <<>> /\ p.tree = {}
      /\ p.log = Head0 /\ p.upto = 0 /\ p.refs = <<>> /\ p.left = <<>>
      /\ p = [at |-> "header", then |-> "none", todo |-> <<>>, tree |-> {},
              log |-> Head0, upto |-> 0, refs |-> <<>>, left |-> <<>>]
  BY <1>1 DEF Idle
<1>3. Head0 \in Family /\ HighWater \in Nat /\ HighWater # 0 BY ArchiveSetting
<1>4. /\ CorpusInv' /\ saved' \in [Family -> Nat] /\ saved'[Head0] = Len(held[Head0])
      /\ \A t \in Family : saved[t] <= saved'[t] /\ Extends(held'[t], held[t])
  BY <1>1, <1>3, FlushedKeeps
<1>5. first \in ArchiveEntry /\ first.kind = "log" /\ first.id = Head0 /\ first.events = <<>>
  <2>1. <<>> \in Seq(ArchiveEvents) BY EmptySeq
  <2> QED BY <2>1, <1>3 DEF ArchiveEntry
<1> HIDE DEF first
<1>6. out' \in Seq(ArchiveEntry) /\ Len(out') = 1 /\ out'[1] = first /\ DOMAIN out' = 1..1 /\ out' # <<>>
  BY <1>1, <1>5
<1>7. ProducerTypes'
  <2>1. <<>> \in Seq(Family) /\ <<>> \in Seq(ArchiveEvents) BY EmptySeq
  <2>2. p \in [at : Phases \cup {"none", "gate", "done"}, then : Phases \cup {"none"},
               todo : Seq(Family), tree : SUBSET Family, log : Family, upto : Nat,
               refs : Seq(ArchiveEvents), left : Seq(ArchiveEvents)]
    BY <1>2, <1>3, <2>1 DEF Phases
  <2>3. asked' \in [Family -> Seq(ArchiveEvents)] BY <1>1 DEF ArchiveInv, CorpusInv
  <2>4. p.at # "none" /\ p.at # "gate" BY <1>2
  <2>5. parked' \in BOOLEAN /\ stopped' \in BOOLEAN /\ queued' \in Nat
    BY <1>1 DEF ArchiveInv, ProducerTypes
  <2> QED BY <1>1, <1>6, <2>2, <2>3, <2>4, <2>5 DEF ProducerTypes
<1>8. GateInv' /\ ArchiveEnded' /\ ClosedIsWhole'
  BY <1>1, <1>2, <1>3 DEF ArchiveInv, GateInv, ArchiveEnded, ClosedIsWhole
<1>9. AskedInv' BY <1>1, <1>4 DEF AskedInv
<1>10. Phase' = "header" /\ InLog' BY <1>2 DEF Phase, InLog
<1>11. Logs' = {1} /\ Visited' = {Head0} /\ LogsOnce'
  <2>1. Logs' = {1} BY <1>5, <1>6 DEF Logs
  <2> QED BY <2>1, <1>5, <1>6 DEF Visited, LogsOnce
<1>12. TreeInv'
  <2>1. ToSet(<<>>) = {} /\ IsInjective(<<>>) BY DEF ToSet, IsInjective
  <2> HIDE DEF p
  <2> QED BY <1>2, <1>3, <1>10, <1>11, <2>1 DEF TreeInv, p
<1>13. LogInv'
  <2>1. Extends(held[Head0], <<>>)
    <3>1. held[Head0] \in Seq(ArchiveEvents) BY <1>3 DEF ArchiveInv, CorpusInv
    <3> QED BY <3>1, ExtendsOn
  <2>2. Len(asked'[Head0]) <= saved'[Head0]
    <3>1. Len(held[Head0]) \in Nat BY <1>3, LenProperties DEF ArchiveInv, CorpusInv
    <3> QED BY <3>1, <1>1, <1>4
  <2>3. Last(out)' = first BY <1>6 DEF Last
  <2>4. \A i \in Logs' : i = Len(out') /\ out'[i] = first BY <1>6, <1>11
  <2> HIDE DEF p
  <2> QED BY <1>1, <1>2, <1>5, <1>6, <1>10, <2>1, <2>2, <2>3, <2>4 DEF LogInv, p
<1>14. RefsInv'
  <2>1. \A i \in Logs' : DOMAIN out'[i].events = {} BY <1>5, <1>6, <1>11
  <2>2. Logs' = DOMAIN out' BY <1>6, <1>11
  <2> QED BY <1>10, <2>1, <2>2 DEF RefsInv
<1> QED BY <1>4, <1>7, <1>8, <1>9, <1>12, <1>13, <1>14 DEF ArchiveInv

\* The lineage is read: the root's subagents are next.
LEMMA DescendantsKeeps ==
    ASSUME ArchiveInv, descendants PROVE ArchiveInv'
<1> DEFINE p == producer'
           children == {t \in born \ {Head0} : ParentOf[t] = Head0}
<1>1. /\ producer.at = "lineage" /\ ~stopped /\ stream # "none"
      /\ UNCHANGED <<corpus, asked, parked, stream, stopped, queued, out>>
      /\ producer' = [producer EXCEPT !.at = "child", !.tree = born, !.todo = ChildrenOf(Head0, born)]
  BY DEF descendants, Working
<1>2. /\ p.at = "child" /\ p.then = producer.then /\ p.todo = ChildrenOf(Head0, born) /\ p.tree = born
      /\ p.log = producer.log /\ p.upto = producer.upto /\ p.refs = producer.refs /\ p.left = producer.left
  BY <1>1 DEF ArchiveInv, ProducerTypes
<1>3. born \subseteq Family /\ Head0 \in born /\ Grounded(born) /\ Family \subseteq Nat /\ IsFiniteSet(Family)
  BY ArchiveSetting DEF ArchiveInv, CorpusInv
<1>4. /\ p.todo \in Seq(children) /\ IsInjective(p.todo) /\ ToSet(p.todo) = children
      /\ children \subseteq Family
  <2>1. children \in SUBSET Nat /\ IsFiniteSet(children) /\ children \subseteq Family
    BY <1>3, FS_Subset
  <2> HIDE DEF children
  <2>2. InOrder(children) \in Seq(children) /\ IsInjective(InOrder(children))
        /\ ToSet(InOrder(children)) = children
    BY <2>1, OrderedIds
  <2>3. p.todo = InOrder(children) BY <1>2 DEF ChildrenOf, children
  <2> QED BY <2>1, <2>2, <2>3
<1>5. p.todo \in Seq(Family)
  <2> HIDE DEF children, p
  <2> QED BY <1>4, SeqMonotonic
<1>6. ProducerTypes' BY <1>1, <1>2, <1>3, <1>5 DEF ArchiveInv, ProducerTypes, Phases
<1>7. GateInv' /\ ArchiveEnded' /\ stream # "closed"
  BY <1>1, <1>2 DEF ArchiveInv, GateInv, ArchiveEnded, Phases
<1>8. /\ Logs' = Logs /\ Visited' = Visited /\ LogsOnce' = LogsOnce /\ Written' = Written
      /\ Last(out)' = Last(out) /\ out' = out /\ asked' = asked
      /\ held' = held /\ saved' = saved /\ born' = born
  BY <1>1, SameArchive DEF Written, corpus
<1>9. CorpusInv' /\ AskedInv' /\ ClosedIsWhole'
  BY <1>1, <1>7, <1>8 DEF ArchiveInv, CorpusInv, AskedInv, ClosedIsWhole
<1>10. Phase = "lineage" /\ Phase' = "child" /\ ~InLog /\ ~InLog' /\ Phase \in Phases
  BY <1>1, <1>2 DEF Phase, InLog, Phases
<1> HIDE DEF p
<1>11. LogInv' BY <1>8, <1>10 DEF ArchiveInv, LogInv
<1>12. RefsInv' BY <1>2, <1>8, <1>10 DEF ArchiveInv, RefsInv, p
<1>13. TreeInv'
  <2>1. Visited = {Head0} /\ LogsOnce BY <1>10 DEF ArchiveInv, TreeInv
  <2>2. \A s \in Family : asked[s] # <<>> => s \in born
    <3> SUFFICES ASSUME NEW s \in Family, s \notin born PROVE asked[s] = <<>> BY Zenon
    <3>1. held[s] = <<>> /\ asked[s] \in Seq(ArchiveEvents)
      BY DEF ArchiveInv, CorpusInv, ProducerTypes
    <3>2. Extends(held[s], asked[s]) BY <1>1 DEF ArchiveInv, AskedInv
    <3>3. Len(asked[s]) <= 0 BY <3>1, <3>2, EmptySeq DEF Extends
    <3> QED BY <3>1, <3>3, EmptySeq, LenProperties
  <2>3. /\ Visited' \subseteq Family /\ Head0 \in Visited' /\ LogsOnce'
        /\ IsInjective(p.todo) /\ ToSet(p.todo) \cap Visited' = {}
        /\ \A t \in Visited' \cup ToSet(p.todo) : t # Head0 => ParentOf[t] \in Visited'
        /\ p.tree # {} /\ Head0 \in p.tree /\ Grounded(p.tree)
        /\ \A s \in Family : asked'[s] # <<>> => s \in p.tree
        /\ \A t \in p.tree \ {Head0} : ParentOf[t] \in Visited' => t \in Visited' \cup ToSet(p.todo)
    BY <1>2, <1>3, <1>4, <1>8, <2>1, <2>2
  <2> QED BY <1>10, <2>3 DEF TreeInv, p
<1> QED BY <1>6, <1>7, <1>9, <1>11, <1>12, <1>13 DEF ArchiveInv


\* One more entry.
LEMMA EntryAdded ==
    ASSUME ArchiveInv, NEW x \in ArchiveEntry, out' = Append(out, x)
    PROVE  /\ out' \in Seq(ArchiveEntry) /\ out' # <<>> /\ Len(out') = Len(out) + 1 /\ Len(out) \in Nat
           /\ DOMAIN out = 1..Len(out) /\ DOMAIN out' = 1..(Len(out) + 1)
           /\ out'[Len(out) + 1] = x /\ Last(out)' = x /\ \A i \in DOMAIN out : out'[i] = out[i]
           /\ Logs' = Logs \cup (IF x.kind = "log" THEN {Len(out) + 1} ELSE {})
           /\ Visited' = Visited \cup (IF x.kind = "log" THEN {x.id} ELSE {})
           /\ Len(out) + 1 \notin Logs /\ \A i \in Logs : i \in DOMAIN out /\ i # Len(out) + 1
<1>1. out \in Seq(ArchiveEntry) BY DEF ArchiveInv, ProducerTypes
<1>2. /\ out' \in Seq(ArchiveEntry) /\ out' # <<>> /\ Len(out') = Len(out) + 1 /\ Len(out) \in Nat
      /\ DOMAIN out = 1..Len(out) /\ out'[Len(out) + 1] = x /\ \A i \in 1..Len(out) : out'[i] = out[i]
  BY <1>1, AppendProperties, LenProperties
<1>3. DOMAIN out' = 1..(Len(out) + 1) BY <1>2, LenProperties
<1>4. Last(out)' = x BY <1>2 DEF Last
<1>5. \A i \in DOMAIN out' : i \in DOMAIN out \/ i = Len(out) + 1 BY <1>2, <1>3
<1>6. Len(out) + 1 \notin DOMAIN out /\ DOMAIN out \subseteq DOMAIN out' /\ Len(out) + 1 \in DOMAIN out'
  BY <1>2, <1>3
<1>7. Logs' = Logs \cup (IF x.kind = "log" THEN {Len(out) + 1} ELSE {}) BY <1>2, <1>5, <1>6 DEF Logs
<1>8. \A i \in Logs : i \in DOMAIN out /\ i # Len(out) + 1 BY <1>6 DEF Logs
<1>9. Visited' = Visited \cup (IF x.kind = "log" THEN {x.id} ELSE {})
  BY <1>2, <1>7, <1>8 DEF Visited
<1> QED BY <1>2, <1>3, <1>4, <1>7, <1>8, <1>9

\* An attachment follows the logs.
LEMMA ReadAttachmentKeeps ==
    ASSUME ArchiveInv, readAttachment PROVE ArchiveInv'
<1> DEFINE p == producer'
           x == [kind |-> "attachment", id |-> Head(producer.left), events |-> <<>>]
<1>1. /\ producer.at = "attachment" /\ ~stopped /\ stream # "none" /\ producer.left # <<>>
      /\ UNCHANGED <<corpus, asked, stream, stopped>> /\ out' = Append(out, x)
      /\ queued' = queued + 1 /\ parked' = waitUnlessFull
      /\ producer' = [producer EXCEPT !.at = "gate", !.then = "attachment", !.left = Tail(@)]
  BY DEF readAttachment, Working
<1>2. /\ p.at = "gate" /\ p.then = "attachment" /\ p.todo = producer.todo /\ p.tree = producer.tree
      /\ p.log = producer.log /\ p.upto = producer.upto /\ p.refs = producer.refs
      /\ p.left = Tail(producer.left)
  BY <1>1 DEF ArchiveInv, ProducerTypes
<1>3. producer.left \in Seq(ArchiveEvents) BY DEF ArchiveInv, ProducerTypes
<1>4. /\ Head(producer.left) \in ArchiveEvents /\ Tail(producer.left) \in Seq(ArchiveEvents)
      /\ ToSet(producer.left) \subseteq ToSet(Tail(producer.left)) \cup {Head(producer.left)}
  <2> DEFINE l == producer.left
             t == Tail(l)
  <2>1. /\ Head(l) \in ArchiveEvents /\ t \in Seq(ArchiveEvents) /\ Len(t) = Len(l) - 1 /\ Head(l) = l[1]
        /\ \A i \in 1..Len(t) : t[i] = l[i + 1]
    BY <1>1, <1>3, HeadTailProperties
  <2>2. DOMAIN l = 1..Len(l) /\ DOMAIN t = 1..Len(t) /\ Len(l) \in Nat BY <1>3, <2>1, LenProperties
  <2> HIDE DEF l, t
  <2>3. ASSUME NEW e \in ToSet(l), e # l[1] PROVE e \in ToSet(t)
    <3>1. PICK i \in 1..Len(l) : l[i] = e BY <2>2 DEF ToSet
    <3>2. i - 1 \in 1..Len(t) /\ (i - 1) + 1 = i BY <3>1, <2>1, <2>2, <2>3
    <3>3. t[i - 1] = e BY <3>1, <3>2, <2>1
    <3> QED BY <3>2, <3>3, <2>2 DEF ToSet
  <2> QED BY <2>1, <2>3 DEF l, t
<1>5. x \in ArchiveEntry /\ x.kind = "attachment" /\ x.id = Head(producer.left)
  <2>1. <<>> \in Seq(ArchiveEvents) BY EmptySeq
  <2> QED BY <2>1, <1>4 DEF ArchiveEntry
<1> HIDE DEF x
<1>6. /\ out' \in Seq(ArchiveEntry) /\ Len(out) \in Nat /\ Len(out') = Len(out) + 1
      /\ DOMAIN out = 1..Len(out) /\ DOMAIN out' = 1..(Len(out) + 1)
      /\ out'[Len(out) + 1] = x /\ \A i \in DOMAIN out : out'[i] = out[i]
      /\ Logs' = Logs /\ Visited' = Visited /\ \A i \in Logs : i \in DOMAIN out
  BY <1>1, <1>5, EntryAdded
<1>7. /\ GateInv' /\ ArchiveEnded' /\ queued' \in Nat /\ parked' \in BOOLEAN /\ stream # "closed"
  BY <1>1, <1>2, PushesToGate DEF Phases
<1>8. ProducerTypes' BY <1>1, <1>2, <1>4, <1>6, <1>7 DEF ArchiveInv, ProducerTypes, Phases
<1>9. held' = held /\ saved' = saved /\ born' = born /\ asked' = asked /\ stream' = stream
  BY <1>1 DEF corpus
<1>10. CorpusInv' /\ AskedInv' /\ ClosedIsWhole'
  BY <1>7, <1>9 DEF ArchiveInv, CorpusInv, AskedInv, ClosedIsWhole
<1>11. Phase = "attachment" /\ Phase' = "attachment" /\ ~InLog /\ ~InLog' /\ Phase \in Phases
  BY <1>1, <1>2 DEF Phase, InLog, Phases
<1> HIDE DEF p
<1>12. LogsOnce' = LogsOnce BY <1>6 DEF LogsOnce
<1>13. TreeInv' BY <1>2, <1>6, <1>9, <1>11, <1>12 DEF ArchiveInv, TreeInv, p
<1>14. LogInv' BY <1>6, <1>9, <1>11 DEF ArchiveInv, LogInv
<1>15. RefsInv'
  <2>1. /\ \A i \in Logs : \A k \in DOMAIN out[i].events :
              out[i].events[k] # Plain => out[i].events[k] \in ToSet(producer.refs)
        /\ \A i \in Logs, j \in DOMAIN out \ Logs : i < j
        /\ \A r \in ToSet(producer.refs) :
              r \in ToSet(producer.left) \/ \E j \in DOMAIN out \ Logs : out[j].id = r
    BY <1>11 DEF ArchiveInv, RefsInv
  <2>2. \A i \in Logs' : \A k \in DOMAIN out'[i].events :
           out'[i].events[k] # Plain => out'[i].events[k] \in ToSet(p.refs)
    BY <1>2, <1>6, <2>1
  <2>3. ASSUME NEW i \in Logs', NEW j \in DOMAIN out' \ Logs' PROVE i < j
    <3>1. i \in Logs /\ i \in 1..Len(out) /\ j \notin Logs BY <1>6
    <3>2. CASE j \in DOMAIN out BY <3>1, <3>2, <2>1
    <3>3. CASE j \notin DOMAIN out
      <4>1. j = Len(out) + 1 BY <1>6, <3>3
      <4> QED BY <4>1, <3>1, <1>6
    <3> QED BY <3>2, <3>3
  <2>4. ASSUME NEW r \in ToSet(p.refs)
        PROVE  r \in ToSet(p.left) \/ \E j \in DOMAIN out' \ Logs' : out'[j].id = r
    <3>1. CASE r \in ToSet(producer.left)
      <4>1. CASE r = Head(producer.left)
        <5>1. Len(out) + 1 \in DOMAIN out' \ Logs' /\ out'[Len(out) + 1].id = r BY <1>5, <1>6, <4>1
        <5> QED BY <5>1
      <4> QED BY <4>1, <3>1, <1>2, <1>4
    <3>2. CASE r \notin ToSet(producer.left)
      <4>1. PICK j \in DOMAIN out \ Logs : out[j].id = r BY <2>1, <2>4, <3>2, <1>2
      <4>2. j \in DOMAIN out' \ Logs' /\ out'[j].id = r BY <4>1, <1>6
      <4> QED BY <4>2
    <3> QED BY <3>1, <3>2
  <2> QED BY <1>11, <2>2, <2>3, <2>4 DEF RefsInv, p
<1> QED BY <1>7, <1>8, <1>10, <1>13, <1>14, <1>15 DEF ArchiveInv


\* A line whose first member leaves and whose newcomers stand in front.
LEMMA FrontReplaced ==
    ASSUME NEW S, NEW s \in Seq(S), s # <<>>, IsInjective(s),
           NEW q \in Seq(S), IsInjective(q), ToSet(q) \cap ToSet(s) = {}
    PROVE  /\ q \o Tail(s) \in Seq(S) /\ IsInjective(q \o Tail(s))
           /\ ToSet(q \o Tail(s)) = ToSet(q) \cup (ToSet(s) \ {Head(s)})
           /\ Head(s) \in S /\ Head(s) \in ToSet(s)
<1> DEFINE t == Tail(s)
           u == q \o t
<1>1. /\ t \in Seq(S) /\ IsInjective(t) /\ ToSet(t) = ToSet(s) \ {Head(s)}
      /\ Head(s) \in S /\ Head(s) \in ToSet(s)
  BY LeaveFront
<1> HIDE DEF t
<1>2. /\ u \in Seq(S) /\ Len(u) = Len(q) + Len(t)
      /\ \A i \in 1..Len(q) + Len(t) : u[i] = IF i <= Len(q) THEN q[i] ELSE t[i - Len(q)]
  BY <1>1, ConcatProperties
<1> HIDE DEF u
<1>3. /\ DOMAIN u = 1..Len(u) /\ DOMAIN q = 1..Len(q) /\ DOMAIN t = 1..Len(t)
      /\ Len(q) \in Nat /\ Len(t) \in Nat
  BY <1>1, <1>2, LenProperties
<1>4. ASSUME NEW i \in DOMAIN u
      PROVE  \/ i \in DOMAIN q /\ u[i] = q[i]
             \/ i - Len(q) \in DOMAIN t /\ u[i] = t[i - Len(q)] /\ ~(i <= Len(q))
  BY <1>2, <1>3
<1>5. /\ \A i \in DOMAIN q : i \in DOMAIN u /\ u[i] = q[i]
      /\ \A i \in DOMAIN t : i + Len(q) \in DOMAIN u /\ u[i + Len(q)] = t[i]
  <2>1. ASSUME NEW i \in DOMAIN q PROVE i \in DOMAIN u /\ u[i] = q[i] BY <1>2, <1>3
  <2>2. ASSUME NEW i \in DOMAIN t PROVE i + Len(q) \in DOMAIN u /\ u[i + Len(q)] = t[i]
    <3>1. i + Len(q) \in 1..Len(q) + Len(t) /\ ~(i + Len(q) <= Len(q)) /\ (i + Len(q)) - Len(q) = i
      BY <1>3
    <3> QED BY <3>1, <1>2, <1>3
  <2> QED BY <2>1, <2>2
<1>6. ToSet(u) = ToSet(q) \cup ToSet(t)
  <2>1. ToSet(u) \subseteq ToSet(q) \cup ToSet(t) BY <1>4 DEF ToSet
  <2>2. ToSet(q) \cup ToSet(t) \subseteq ToSet(u) BY <1>5, Zenon DEF ToSet
  <2> QED BY <2>1, <2>2
<1>7. \A i \in DOMAIN q, j \in DOMAIN t : q[i] # t[j] BY <1>1 DEF ToSet
<1>8. IsInjective(u)
  <2> SUFFICES ASSUME NEW i \in DOMAIN u, NEW j \in DOMAIN u, u[i] = u[j] PROVE i = j
    BY DEF IsInjective
  <2>1. i \in Int /\ j \in Int BY <1>2, <1>3
  <2>2. CASE i \in DOMAIN q /\ u[i] = q[i] /\ j \in DOMAIN q /\ u[j] = q[j] BY <2>2 DEF IsInjective
  <2>3. CASE /\ i - Len(q) \in DOMAIN t /\ u[i] = t[i - Len(q)]
             /\ j - Len(q) \in DOMAIN t /\ u[j] = t[j - Len(q)]
    <3>1. i - Len(q) = j - Len(q) BY <2>3, <1>1, Zenon DEF IsInjective
    <3> QED BY <3>1, <2>1, <1>3
  <2> QED BY <1>4, <1>7, <2>2, <2>3
<1> QED BY <1>1, <1>2, <1>6, <1>8 DEF u, t

\* The next subagent's log begins; its own subagents are next.
LEMMA CollectKeeps ==
    ASSUME ArchiveInv, collect PROVE ArchiveInv'
<1> DEFINE p == producer'
           s == Head(producer.todo)
           x == [kind |-> "log", id |-> s, events |-> <<>>]
           children == {t \in producer.tree \ {Head0} : ParentOf[t] = s}
<1>1. /\ producer.at = "child" /\ ~stopped /\ stream # "none" /\ producer.todo # <<>>
      /\ flushed(s) /\ out' = Append(out, x)
      /\ producer' = [producer EXCEPT !.at = "header", !.log = s,
                                      !.todo = ChildrenOf(s, producer.tree) \o Tail(@)]
      /\ UNCHANGED <<born, held, asked, parked, stream, stopped, queued>>
  BY DEF collect, Working
<1>2. /\ p.at = "header" /\ p.then = producer.then /\ p.tree = producer.tree
      /\ p.todo = ChildrenOf(s, producer.tree) \o Tail(producer.todo)
      /\ p.log = s /\ p.upto = producer.upto /\ p.refs = producer.refs /\ p.left = producer.left
  BY <1>1 DEF ArchiveInv, ProducerTypes
<1>3. Phase = "child" /\ Phase' = "header" /\ ~InLog /\ InLog' /\ Phase \in Phases /\ Phase' \in Phases
  BY <1>1, <1>2 DEF Phase, InLog, Phases
<1>4. /\ producer.todo \in Seq(Family) /\ producer.tree \in SUBSET Family
      /\ Family \subseteq Nat /\ IsFiniteSet(Family)
  BY ArchiveSetting DEF ArchiveInv, ProducerTypes
<1>5. /\ Visited \subseteq Family /\ Head0 \in Visited /\ LogsOnce
      /\ IsInjective(producer.todo) /\ ToSet(producer.todo) \cap Visited = {}
      /\ \A t \in Visited \cup ToSet(producer.todo) : t # Head0 => ParentOf[t] \in Visited
      /\ producer.tree # {} /\ Head0 \in producer.tree /\ Grounded(producer.tree)
      /\ \A t \in Family : asked[t] # <<>> => t \in producer.tree
      /\ \A t \in producer.tree \ {Head0} :
            ParentOf[t] \in Visited => t \in Visited \cup ToSet(producer.todo)
  BY <1>3, Zenon DEF ArchiveInv, TreeInv
<1> DEFINE q == ChildrenOf(s, producer.tree)
<1>6. q \in Seq(children) /\ IsInjective(q) /\ ToSet(q) = children /\ children \subseteq Family
  <2>1. children \in SUBSET Nat /\ IsFiniteSet(children) /\ children \subseteq Family
    <3> HIDE DEF s
    <3> QED BY <1>4, FS_Subset
  <2> HIDE DEF children
  <2>2. InOrder(children) \in Seq(children) /\ IsInjective(InOrder(children))
        /\ ToSet(InOrder(children)) = children
    BY <2>1, OrderedIds
  <2>3. q = InOrder(children) BY DEF ChildrenOf, children
  <2> QED BY <2>1, <2>2, <2>3
<1>7. s \in ToSet(producer.todo) /\ s \in Family /\ s \notin Visited /\ s # Head0
  <2>1. s \in ToSet(producer.todo) /\ s \in Family BY <1>1, <1>4, <1>5, LeaveFront
  <2> QED BY <2>1, <1>5
<1>8. ToSet(q) \cap ToSet(producer.todo) = {} /\ ToSet(q) \cap (Visited \cup {s}) = {}
  <2> SUFFICES ASSUME NEW t \in children PROVE t \notin ToSet(producer.todo) /\ t \notin Visited /\ t # s
    BY <1>6
  <2>1. ParentOf[t] = s /\ t # Head0 OBVIOUS
  <2>2. t \notin Visited \cup ToSet(producer.todo) BY <2>1, <1>5, <1>7
  <2> QED BY <2>2, <1>7
<1>9. q \in Seq(Family)
  <2> HIDE DEF children, q
  <2> QED BY <1>6, SeqMonotonic
<1> HIDE DEF q
<1>10. /\ p.todo \in Seq(Family) /\ IsInjective(p.todo)
       /\ ToSet(p.todo) = children \cup (ToSet(producer.todo) \ {s})
  <2>1. p.todo = q \o Tail(producer.todo) BY <1>2 DEF q
  <2> DEFINE l == producer.todo
             u == q \o Tail(l)
  <2>2. l \in Seq(Family) /\ l # <<>> /\ IsInjective(l) BY <1>1, <1>4, <1>5
  <2>3. q \in Seq(Family) /\ IsInjective(q) /\ ToSet(q) \cap ToSet(l) = {} BY <1>6, <1>8, <1>9
  <2> HIDE DEF l
  <2>4. u \in Seq(Family) /\ IsInjective(u) /\ ToSet(u) = ToSet(q) \cup (ToSet(l) \ {Head(l)})
    BY ONLY <2>2, <2>3, FrontReplaced
  <2> HIDE DEF p, children, u
  <2> QED BY <2>1, <2>4, <1>6 DEF l, u
<1>11. x \in ArchiveEntry /\ x.kind = "log" /\ x.id = s /\ x.events = <<>>
  <2>1. <<>> \in Seq(ArchiveEvents) BY EmptySeq
  <2> QED BY <2>1, <1>7 DEF ArchiveEntry
<1> HIDE DEF x, s
<1>12. /\ out' \in Seq(ArchiveEntry) /\ Len(out) \in Nat /\ Len(out') = Len(out) + 1 /\ out' # <<>>
       /\ DOMAIN out = 1..Len(out) /\ DOMAIN out' = 1..(Len(out) + 1)
       /\ out'[Len(out) + 1] = x /\ Last(out)' = x /\ \A i \in DOMAIN out : out'[i] = out[i]
       /\ Logs' = Logs \cup {Len(out) + 1} /\ Visited' = Visited \cup {s}
       /\ Len(out) + 1 \notin Logs /\ \A i \in Logs : i \in DOMAIN out /\ i # Len(out) + 1
  <2>1. out' = Append(out, x) BY <1>1 DEF x, s
  <2> QED BY <2>1, <1>11, EntryAdded
<1>13. /\ CorpusInv' /\ saved' \in [Family -> Nat] /\ saved'[s] = Len(held[s])
       /\ \A t \in Family : saved[t] <= saved'[t] /\ Extends(held'[t], held[t])
  <2>1. flushed(s) BY <1>1 DEF s
  <2> QED BY <2>1, <1>1, <1>7, FlushedKeeps
<1>14. ProducerTypes' BY <1>1, <1>2, <1>7, <1>10, <1>12 DEF ArchiveInv, ProducerTypes, Phases
<1>15. GateInv' /\ ArchiveEnded' /\ stream # "closed"
  BY <1>1, <1>2 DEF ArchiveInv, GateInv, ArchiveEnded, Phases
<1>16. AskedInv' /\ ClosedIsWhole' BY <1>1, <1>15 DEF ArchiveInv, AskedInv, ClosedIsWhole
<1>17. LogsOnce'
  <2>1. \A i \in Logs : out[i].id # s BY <1>7 DEF Visited
  <2> QED BY <2>1, <1>5, <1>11, <1>12 DEF LogsOnce
<1>18. TreeInv'
  <2>1. /\ Visited' \subseteq Family /\ Head0 \in Visited'
        /\ ToSet(p.todo) \cap Visited' = {}
    BY <1>5, <1>6, <1>7, <1>8, <1>10, <1>12
  <2>2. \A t \in Visited' \cup ToSet(p.todo) : t # Head0 => ParentOf[t] \in Visited'
    <3> SUFFICES ASSUME NEW t \in Visited' \cup ToSet(p.todo), t # Head0 PROVE ParentOf[t] \in Visited'
      OBVIOUS
    <3>1. CASE t \in children BY <3>1, <1>12
    <3>2. CASE t \in Visited \cup ToSet(producer.todo) BY <3>2, <1>5, <1>12
    <3>3. t \in children \/ t \in Visited \cup ToSet(producer.todo) BY <1>7, <1>10, <1>12
    <3> QED BY <3>1, <3>2, <3>3
  <2>3. \A t \in p.tree \ {Head0} : ParentOf[t] \in Visited' => t \in Visited' \cup ToSet(p.todo)
    <3> SUFFICES ASSUME NEW t \in producer.tree \ {Head0}, ParentOf[t] \in Visited \cup {s}
                 PROVE  t \in Visited' \cup ToSet(p.todo)
      BY <1>2, <1>12
    <3>1. CASE ParentOf[t] = s BY <3>1, <1>10
    <3>2. CASE ParentOf[t] \in Visited BY <3>2, <1>5, <1>10, <1>12
    <3> QED BY <3>1, <3>2
  <2>4. p.tree # {} /\ Head0 \in p.tree /\ Grounded(p.tree) /\ \A t \in Family : asked'[t] # <<>> => t \in p.tree
    BY <1>1, <1>2, <1>5
  <2> HIDE DEF p
  <2> QED BY <1>3, <1>10, <1>17, <2>1, <2>2, <2>3, <2>4 DEF TreeInv, p
<1>19. LogInv'
  <2>1. \A i \in Logs : out[i].id \in Family BY <1>5 DEF Visited
  <2>2. Len(asked[s]) <= Len(held[s]) BY <1>1, <1>7 DEF ArchiveInv, AskedInv, Extends
  <2>3. Extends(held[s], <<>>)
    <3>1. held[s] \in Seq(ArchiveEvents) BY <1>7 DEF ArchiveInv, CorpusInv
    <3> QED BY <3>1, ExtendsOn
  <2>4. ASSUME NEW i \in Logs'
        PROVE  /\ Extends(held[out'[i].id], out'[i].events)
               /\ Len(asked[out'[i].id]) <= saved'[out'[i].id]
               /\ i # Len(out') => Len(asked[out'[i].id]) <= Len(out'[i].events)
    <3>1. CASE i = Len(out) + 1 BY <3>1, <1>11, <1>12, <1>13, <2>2, <2>3
    <3>2. CASE i \in Logs
      <4>1. out'[i] = out[i] /\ out[i].id \in Family BY <3>2, <1>12, <2>1
      <4>2. /\ Extends(held[out[i].id], out[i].events)
            /\ Len(asked[out[i].id]) <= saved[out[i].id]
            /\ Len(asked[out[i].id]) <= Len(out[i].events)
        BY <3>2, <1>3 DEF ArchiveInv, LogInv
      <4>3. /\ saved[out[i].id] <= saved'[out[i].id] /\ saved[out[i].id] \in Nat
            /\ saved'[out[i].id] \in Nat /\ Len(asked[out[i].id]) \in Nat
        BY <4>1, <1>13, LenProperties DEF ArchiveInv, CorpusInv, ProducerTypes
      <4> QED BY <4>1, <4>2, <4>3
    <3> QED BY <3>1, <3>2, <1>12
  <2>5. held' = held /\ asked' = asked /\ Last(out)'.kind = "log" /\ Last(out)'.id = p.log
        /\ Last(out)'.events = <<>>
    BY <1>1, <1>2, <1>11, <1>12 DEF s
  <2>6. out' # <<>> /\ Phase' # "page" BY <1>12, <1>3
  <2>7. \A i \in Logs' : /\ Extends(held'[out'[i].id], out'[i].events)
                         /\ Len(asked'[out'[i].id]) <= saved'[out'[i].id]
                         /\ ~(InLog' /\ i = Len(out')) => Len(asked'[out'[i].id]) <= Len(out'[i].events)
    BY <2>4, <2>5, <1>3
  <2> HIDE DEF p
  <2> QED BY <2>5, <2>6, <2>7, Zenon DEF LogInv, p
<1>20. RefsInv'
  <2>1. Logs = DOMAIN out /\ \A i \in Logs : \A k \in DOMAIN out[i].events :
           out[i].events[k] # Plain => out[i].events[k] \in ToSet(producer.refs)
    BY <1>3 DEF ArchiveInv, RefsInv
  <2>2. Logs' = DOMAIN out'
    <3>1. DOMAIN out' = DOMAIN out \cup {Len(out) + 1} BY <1>12
    <3> QED BY <3>1, <2>1, <1>12
  <2>3. DOMAIN x.events = {} BY <1>11
  <2>4. \A i \in Logs' : \A k \in DOMAIN out'[i].events :
           out'[i].events[k] # Plain => out'[i].events[k] \in ToSet(p.refs)
    BY <1>2, <1>12, <2>1, <2>3
  <2> HIDE DEF p
  <2> QED BY <1>3, <2>2, <2>4 DEF RefsInv, p
<1> QED BY <1>13, <1>14, <1>15, <1>16, <1>18, <1>19, <1>20 DEF ArchiveInv


\* The next event of the log, and the attachment it names.
LEMMA WritePageKeeps ==
    ASSUME ArchiveInv, WritePage PROVE ArchiveInv'
<1> DEFINE p == producer'
           n == Len(out)
           log == producer.log
           e == held[log][Len(Written) + 1]
           x == [out[n] EXCEPT !.events = Append(Written, e)]
<1>1. /\ producer.at = "page" /\ ~stopped /\ stream # "none" /\ Len(Written) < producer.upto
      /\ out' = [out EXCEPT ![n].events = Append(@, e)]
      /\ queued' = queued + 1 /\ parked' = waitUnlessFull
      /\ producer' = [producer EXCEPT !.at = "gate", !.then = "page",
                                      !.refs = collectEventAttachmentRefs(e, @)]
      /\ UNCHANGED <<corpus, asked, stream, stopped>>
  BY DEF WritePage, Working
<1>2. /\ p.at = "gate" /\ p.then = "page" /\ p.todo = producer.todo /\ p.tree = producer.tree
      /\ p.log = producer.log /\ p.upto = producer.upto /\ p.left = producer.left
      /\ p.refs = collectEventAttachmentRefs(e, producer.refs)
  BY <1>1 DEF ArchiveInv, ProducerTypes
<1>3. /\ Phase = "page" /\ Phase' = "page" /\ InLog /\ InLog' /\ Phase \in Phases
  BY <1>1, <1>2 DEF Phase, InLog, Phases
<1>4. /\ out # <<>> /\ Last(out).kind = "log" /\ Last(out).id = log
      /\ Len(asked[log]) <= producer.upto /\ producer.upto <= Len(held[log]) /\ Len(Written) <= producer.upto
  BY <1>3, Zenon DEF ArchiveInv, LogInv
<1>5. /\ out \in Seq(ArchiveEntry) /\ n \in Nat /\ n # 0 /\ DOMAIN out = 1..n /\ n \in DOMAIN out
      /\ out[n] \in ArchiveEntry /\ Last(out) = out[n] /\ Written = out[n].events
  <2>1. out \in Seq(ArchiveEntry) BY DEF ArchiveInv, ProducerTypes
  <2>2. n \in Nat /\ n # 0 /\ DOMAIN out = 1..n BY <2>1, <1>4, EmptySeq, LenProperties
  <2>3. n \in 1..n BY <2>2
  <2> QED BY <2>1, <2>2, <2>3, ElementOfSeq DEF Last, Written
<1>6. /\ log \in Family /\ held[log] \in Seq(ArchiveEvents) /\ Written \in Seq(ArchiveEvents)
      /\ producer.upto \in Nat /\ n \in Logs /\ out[n].kind = "log" /\ out[n].id = log
  BY <1>4, <1>5 DEF ArchiveInv, ProducerTypes, CorpusInv, ArchiveEntry, Logs
<1>7. /\ Len(held[log]) \in Nat /\ Len(Written) \in Nat /\ Len(Written) + 1 \in 1..Len(held[log])
      /\ Len(Written) + 1 <= producer.upto
  <2>1. Len(held[log]) \in Nat /\ Len(Written) \in Nat BY <1>6, LenProperties
  <2> QED BY <2>1, <1>1, <1>4, <1>6
<1>8. e \in ArchiveEvents BY <1>6, <1>7, ElementOfSeq
<1> HIDE DEF e
<1>9. /\ Append(Written, e) \in Seq(ArchiveEvents) /\ Len(Append(Written, e)) = Len(Written) + 1
      /\ Append(Written, e)[Len(Written) + 1] = e
      /\ \A i \in 1..Len(Written) : Append(Written, e)[i] = Written[i]
      /\ DOMAIN Written = 1..Len(Written) /\ DOMAIN Append(Written, e) = 1..(Len(Written) + 1)
  <2>1. /\ Append(Written, e) \in Seq(ArchiveEvents) /\ Len(Append(Written, e)) = Len(Written) + 1
        /\ Append(Written, e)[Len(Written) + 1] = e
        /\ \A i \in 1..Len(Written) : Append(Written, e)[i] = Written[i]
    BY <1>6, <1>8, AppendProperties
  <2> QED BY <2>1, <1>6, LenProperties
<1>10. x \in ArchiveEntry /\ x.kind = "log" /\ x.id = log /\ x.events = Append(Written, e)
  BY <1>5, <1>6, <1>9 DEF ArchiveEntry
<1>11. /\ out' \in Seq(ArchiveEntry) /\ Len(out') = n /\ DOMAIN out' = DOMAIN out
       /\ out'[n] = x /\ \A i \in DOMAIN out : i # n => out'[i] = out[i]
  <2>1. out' = [out EXCEPT ![n] = x] BY <1>1, <1>5
  <2> HIDE DEF x
  <2>2. n \in 1..Len(out) BY <1>5
  <2>3. /\ [out EXCEPT ![n] = x] \in Seq(ArchiveEntry) /\ Len([out EXCEPT ![n] = x]) = Len(out)
        /\ \A j \in 1..Len(out) : [out EXCEPT ![n] = x][j] = IF j = n THEN x ELSE out[j]
    BY <2>2, <1>5, <1>10, ExceptSeq
  <2>4. out' \in Seq(ArchiveEntry) /\ Len(out') = n /\ \A j \in 1..n : out'[j] = IF j = n THEN x ELSE out[j]
    BY <2>1, <2>3
  <2>5. DOMAIN out' = 1..n BY <2>4, LenProperties
  <2> QED BY <2>4, <2>5, <1>5
<1> HIDE DEF x
<1>12. /\ Logs' = Logs /\ Visited' = Visited /\ LogsOnce' = LogsOnce
       /\ \A i \in Logs : i \in DOMAIN out /\ out'[i].id = out[i].id
  <2>1. \A i \in DOMAIN out : out'[i].kind = out[i].kind /\ out'[i].id = out[i].id
    BY <1>6, <1>10, <1>11
  <2>2. Logs' = Logs BY <2>1, <1>11 DEF Logs
  <2>3. \A i \in Logs : i \in DOMAIN out /\ out'[i].id = out[i].id BY <2>1 DEF Logs
  <2>4. Visited' = Visited BY <2>2, <2>3 DEF Visited
  <2>5. LogsOnce' = LogsOnce BY <2>2, <2>3 DEF LogsOnce
  <2> QED BY <2>2, <2>3, <2>4, <2>5
<1>13. Last(out)' = x /\ Written' = Append(Written, e) BY <1>10, <1>11 DEF Last, Written
<1>14. /\ GateInv' /\ ArchiveEnded' /\ queued' \in Nat /\ parked' \in BOOLEAN /\ stream # "closed"
  BY <1>1, <1>2, PushesToGate DEF Phases
<1>15. /\ p.refs \in Seq(ArchiveEvents) /\ ToSet(producer.refs) \subseteq ToSet(p.refs)
       /\ e # Plain => e \in ToSet(p.refs)
  <2> DEFINE r == producer.refs
  <2>1. r \in Seq(ArchiveEvents) BY DEF ArchiveInv, ProducerTypes
  <2>2. /\ Append(r, e) \in Seq(ArchiveEvents) /\ Len(Append(r, e)) = Len(r) + 1
        /\ Append(r, e)[Len(r) + 1] = e /\ \A i \in 1..Len(r) : Append(r, e)[i] = r[i]
        /\ DOMAIN r = 1..Len(r) /\ Len(r) \in Nat
    BY <2>1, <1>8, AppendProperties, LenProperties
  <2>3. DOMAIN Append(r, e) = 1..(Len(r) + 1) BY <2>2, LenProperties
  <2>4. ToSet(Append(r, e)) = ToSet(r) \cup {e}
    <3> DEFINE a == Append(r, e)
    <3> HIDE DEF a
    <3>1. /\ DOMAIN a = 1..(Len(r) + 1) /\ a[Len(r) + 1] = e /\ \A i \in 1..Len(r) : a[i] = r[i]
      BY <2>2, <2>3 DEF a
    <3>2. ToSet(a) = ToSet(r) \cup {e} BY <3>1, <2>2 DEF ToSet
    <3> QED BY <3>2 DEF a
  <2>5. Contains(r, e) => e \in ToSet(r) BY <2>2 DEF Contains, ToSet
  <2>6. p.refs = IF e = Plain \/ Contains(r, e) THEN r ELSE Append(r, e)
    BY <1>2 DEF collectEventAttachmentRefs
  <2> HIDE DEF p, r
  <2> QED BY <2>1, <2>2, <2>4, <2>5, <2>6 DEF r
<1>16. ProducerTypes' BY <1>1, <1>2, <1>11, <1>14, <1>15 DEF ArchiveInv, ProducerTypes, Phases
<1>17. held' = held /\ saved' = saved /\ born' = born /\ asked' = asked /\ stream' = stream
  BY <1>1 DEF corpus
<1>18. CorpusInv' /\ AskedInv' /\ ClosedIsWhole'
  BY <1>14, <1>17 DEF ArchiveInv, CorpusInv, AskedInv, ClosedIsWhole
<1> HIDE DEF p
<1>19. TreeInv' BY <1>2, <1>3, <1>12, <1>17 DEF ArchiveInv, TreeInv, p
<1>20. LogInv'
  <2>1. Extends(held[log], Append(Written, e))
    <3>1. Extends(held[log], Written) BY <1>3, <1>5, <1>6 DEF ArchiveInv, LogInv
    <3>2. ASSUME NEW k \in 1..(Len(Written) + 1) PROVE held[log][k] = Append(Written, e)[k]
      <4>1. CASE k = Len(Written) + 1 BY <4>1, <1>9 DEF e
      <4>2. CASE k # Len(Written) + 1
        <5>1. k \in 1..Len(Written) BY <4>2, <1>7
        <5> QED BY <5>1, <1>9, <3>1 DEF Extends
      <4> QED BY <4>1, <4>2
    <3>3. Len(Written) + 1 <= Len(held[log]) BY <1>7
    <3> QED BY <3>2, <3>3, <1>9 DEF Extends
  <2>2. ASSUME NEW i \in Logs
        PROVE  /\ Extends(held[out'[i].id], out'[i].events)
               /\ Len(asked[out'[i].id]) <= saved[out'[i].id]
               /\ i # n => Len(asked[out'[i].id]) <= Len(out'[i].events)
    <3>1. /\ Extends(held[out[i].id], out[i].events)
          /\ Len(asked[out[i].id]) <= saved[out[i].id]
          /\ i # n => Len(asked[out[i].id]) <= Len(out[i].events)
      BY <1>3 DEF ArchiveInv, LogInv
    <3>2. CASE i = n BY <3>1, <3>2, <2>1, <1>6, <1>10, <1>11
    <3>3. CASE i # n
      <4>1. out'[i] = out[i] BY <3>3, <1>11, <1>12
      <4> QED BY <4>1, <3>1
    <3> QED BY <3>2, <3>3
  <2>3. Len(Written') <= producer.upto BY <1>7, <1>9, <1>13
  <2>4. Last(out)'.kind = "log" /\ Last(out)'.id = p.log /\ p.log = log /\ p.upto = producer.upto
    BY <1>2, <1>10, <1>13
  <2>5. out' # <<>> BY <1>11, <1>5, EmptySeq
  <2>6. \A i \in Logs' : /\ Extends(held'[out'[i].id], out'[i].events)
                         /\ Len(asked'[out'[i].id]) <= saved'[out'[i].id]
                         /\ ~(InLog' /\ i = Len(out')) => Len(asked'[out'[i].id]) <= Len(out'[i].events)
    BY <2>2, <1>3, <1>11, <1>12, <1>17
  <2>7. /\ Len(asked'[p.log]) <= p.upto /\ p.upto <= Len(held'[p.log]) /\ Len(Written') <= p.upto
    BY <2>3, <2>4, <1>4, <1>17
  <2> QED BY <2>4, <2>5, <2>6, <2>7, <1>3, Zenon DEF LogInv, p
<1>21. RefsInv'
  <2>1. Logs = DOMAIN out /\ \A i \in Logs : \A k \in DOMAIN out[i].events :
           out[i].events[k] # Plain => out[i].events[k] \in ToSet(producer.refs)
    BY <1>3 DEF ArchiveInv, RefsInv
  <2>2. ASSUME NEW i \in Logs', NEW k \in DOMAIN out'[i].events, out'[i].events[k] # Plain
        PROVE  out'[i].events[k] \in ToSet(p.refs)
    <3>1. CASE i # n
      <4>1. out'[i] = out[i] /\ i \in Logs BY <3>1, <1>11, <1>12
      <4>2. out[i].events[k] \in ToSet(producer.refs) BY <4>1, <2>1, <2>2
      <4> QED BY <4>1, <4>2, <1>15
    <3>2. CASE i = n
      <4>1. out'[i].events = Append(Written, e) /\ k \in 1..(Len(Written) + 1)
        BY <3>2, <1>9, <1>10, <1>11
      <4>2. CASE k = Len(Written) + 1 BY <4>1, <4>2, <1>9, <1>15, <2>2
      <4>3. CASE k # Len(Written) + 1
        <5>1. k \in 1..Len(Written) BY <4>1, <4>3, <1>7
        <5>2. out'[i].events[k] = out[n].events[k] /\ k \in DOMAIN out[n].events
          BY <5>1, <4>1, <1>5, <1>9
        <5>3. out[n].events[k] \in ToSet(producer.refs) BY <5>2, <2>1, <2>2, <1>6
        <5> QED BY <5>2, <5>3, <1>15
      <4> QED BY <4>2, <4>3
    <3> QED BY <3>1, <3>2
  <2>3. Logs' = DOMAIN out' BY <2>1, <1>11, <1>12
  <2> QED BY <1>3, <2>2, <2>3 DEF RefsInv, p
<1> QED BY <1>14, <1>16, <1>18, <1>19, <1>20, <1>21 DEF ArchiveInv


LEMMA ArchiveInvInit == ArchiveInit => ArchiveInv
<1> SUFFICES ASSUME ArchiveInit PROVE ArchiveInv OBVIOUS
<1>1. /\ born = {Head0} /\ held = [s \in Family |-> <<>>] /\ saved = [s \in Family |-> 0]
      /\ asked = held /\ producer = Idle /\ parked = FALSE
      /\ stream = "none" /\ stopped = FALSE /\ queued = 0 /\ out = <<>>
  BY DEF ArchiveInit
<1>2. /\ Head0 \in Family /\ HighWater \in Nat /\ HighWater # 0
      /\ <<>> \in Seq(ArchiveEvents) /\ <<>> \in Seq(Family) /\ Len(<<>>) = 0 /\ <<>> \in Seq(ArchiveEntry)
  BY ArchiveSetting, EmptySeq
<1>3. Grounded({Head0}) BY DEF Grounded
<1>4. CorpusInv BY <1>1, <1>2, <1>3 DEF CorpusInv
<1>5. producer.at = "none" /\ Phase = "none" BY <1>1 DEF Idle, Phase
<1>6. ProducerTypes
  <2>1. producer \in [at : Phases \cup {"none", "gate", "done"}, then : Phases \cup {"none"},
                      todo : Seq(Family), tree : SUBSET Family, log : Family, upto : Nat,
                      refs : Seq(ArchiveEvents), left : Seq(ArchiveEvents)]
    BY <1>1, <1>2 DEF Idle
  <2>2. asked \in [Family -> Seq(ArchiveEvents)] BY <1>1, <1>2
  <2> QED BY <1>1, <1>2, <1>5, <2>1, <2>2 DEF ProducerTypes
<1>7. GateInv /\ AskedInv /\ ArchiveEnded /\ ClosedIsWhole
  BY <1>1, <1>2, <1>5 DEF GateInv, AskedInv, ArchiveEnded, ClosedIsWhole, Phases
<1>8. TreeInv /\ LogInv /\ RefsInv BY <1>5 DEF TreeInv, LogInv, RefsInv, Phases
<1> QED BY <1>4, <1>6, <1>7, <1>8 DEF ArchiveInv

LEMMA ArchiveInvStep == ArchiveInv /\ [ArchiveNext]_archiveVars => ArchiveInv'
<1> SUFFICES ASSUME ArchiveInv, [ArchiveNext]_archiveVars PROVE ArchiveInv' OBVIOUS
<1>1. CASE UNCHANGED archiveVars
  <2>1. UNCHANGED download /\ born' = born /\ held' = held /\ saved' = saved
    BY <1>1 DEF archiveVars, download
  <2>2. CorpusInv' BY <2>1 DEF ArchiveInv, CorpusInv
  <2>3. ASSUME NEW s \in Family PROVE Extends(held'[s], held[s]) /\ saved[s] <= saved'[s]
    <3>1. held[s] \in Seq(ArchiveEvents) /\ saved[s] \in Nat BY DEF ArchiveInv, CorpusInv
    <3>2. saved[s] <= saved[s] BY <3>1
    <3> QED BY <2>1, <3>1, <3>2, ExtendsOn
  <2> QED BY <2>1, <2>2, <2>3, CorpusMoves
<1>2. CASE sessionLogExportResponse BY <1>2, ExportStarts
<1>3. CASE Produces
  BY <1>3, PassesKeeps, HeaderLineKeeps, PinLogKeeps, WritePageKeeps, LogEndsKeeps, DescendantsKeeps,
     CollectKeeps, AttachedKeeps, ReadAttachmentKeeps, ArchiveEndKeeps, ProductionFailsKeeps DEF Produces
<1>4. CASE Reads \/ ClientLeaves BY <1>4, ClientKeeps
<1>5. ASSUME NEW s \in Family, Spawn(s) \/ SaveLog(s) \/ \E e \in Named \cup {Plain} : Record(s, e)
      PROVE  ArchiveInv'
  BY <1>5, SpawnKeeps, SaveLogKeeps, RecordKeeps DEF ArchiveEvents
<1> QED BY <1>1, <1>2, <1>3, <1>4, <1>5, Zenon DEF ArchiveNext

\* The inductive invariant of a download.
THEOREM ArchiveInvariant == ArchiveSpec => []ArchiveInv
  BY ArchiveInvInit, ArchiveInvStep, PTL DEF ArchiveSpec

\* A download that ends as a whole one is whole: for every lineage, whichever
\* order its subagents, events and saves come in while it is produced.  And
\* the queue stays within its mark whatever the client does.
THEOREM ArchiveCorrect == ArchiveSpec => [](ClosedIsWhole /\ QueueIsBounded)
<1>1. ArchiveInv => ClosedIsWhole /\ QueueIsBounded BY DEF ArchiveInv, GateInv, QueueIsBounded
<1> QED BY <1>1, ArchiveInvariant, PTL

----------------------------------------
(* Code programs.  The ledger is the encoded size of the logs the host     *)
(* admitted, and what the isolate logged is what the host admitted and     *)
(* what is still on its way.                                               *)

LogSizes(entries) ==
    CHOOSE g : g = [n \in 0..Len(entries) |->
                      IF n = 0 THEN 2 ELSE g[n - 1] + entries[n] + (IF n = 1 THEN 0 ELSE 1)]
LogStep(g, entries, n) ==
    g[n] = IF n = 0 THEN 2 ELSE g[n - 1] + entries[n] + (IF n = 1 THEN 0 ELSE 1)

\* The recursion over the entries has a solution, in the naturals.
LEMMA LogSizesExist ==
    ASSUME NEW entries \in Seq(Nat), NEW m \in Nat, m <= Len(entries)
    PROVE  \E g \in [0..m -> Nat] : \A n \in 0..m : LogStep(g, entries, n)
<1> DEFINE Has(k) == \E g \in [0..k -> Nat] : \A n \in 0..k : LogStep(g, entries, n)
           Fails == {k \in Nat : k <= Len(entries) /\ ~Has(k)}
<1>1. SUFFICES ASSUME Fails # {} PROVE FALSE BY Zenon
<1>2. PICK k \in Fails : \A i \in Fails : k <= i
  <2> HIDE DEF Fails
  <2>1. Fails \subseteq Nat BY DEF Fails
  <2> QED BY <1>1, <2>1, LeastNumber
<1>3. k \in Nat /\ k <= Len(entries) /\ ~Has(k) /\ Len(entries) \in Nat BY <1>2, LenProperties
<1>4. k # 0
  <2> SUFFICES ASSUME k = 0 PROVE Has(k) BY <1>3
  <2>1. [n \in 0..k |-> 2] \in [0..k -> Nat] /\ \A n \in 0..k : LogStep([i \in 0..k |-> 2], entries, n)
    BY DEF LogStep
  <2> QED BY <2>1
<1>5. k - 1 \in Nat /\ k - 1 <= Len(entries) /\ k - 1 \notin Fails
  <2>1. k - 1 \in Nat /\ k - 1 <= Len(entries) /\ ~(k <= k - 1) BY <1>3, <1>4
  <2> HIDE DEF Fails
  <2> QED BY <2>1, <1>2
<1>6. PICK g \in [0..(k - 1) -> Nat] : \A n \in 0..(k - 1) : LogStep(g, entries, n)
  <2> HIDE DEF Has
  <2>1. Has(k - 1) BY <1>5
  <2> QED BY <2>1 DEF Has
<1> DEFINE last == g[k - 1] + entries[k] + (IF k = 1 THEN 0 ELSE 1)
           h == [n \in 0..k |-> IF n = k THEN last ELSE g[n]]
<1>7. last \in Nat
  <2>1. k - 1 \in 0..(k - 1) /\ k \in 1..Len(entries) BY <1>3, <1>4
  <2>2. g[k - 1] \in Nat /\ entries[k] \in Nat BY <2>1, ElementOfSeq
  <2> QED BY <2>2
<1>8. \A n \in 0..k : n # k => n \in 0..(k - 1) BY <1>3
<1>9. h \in [0..k -> Nat]
  <2> HIDE DEF last
  <2> QED BY <1>7, <1>8
<1>10. ASSUME NEW n \in 0..k PROVE LogStep(h, entries, n)
  <2>1. CASE n = k
    <3>1. h[n] = last /\ h[n - 1] = g[n - 1] BY <2>1, <1>3, <1>4
    <3> QED BY <3>1, <2>1, <1>4 DEF LogStep
  <2>2. CASE n # k
    <3>1. n \in 0..(k - 1) /\ h[n] = g[n] /\ (n # 0 => n - 1 \in 0..k /\ n - 1 # k /\ h[n - 1] = g[n - 1])
      BY <2>2, <1>3, <1>8
    <3>2. LogStep(g, entries, n) BY <3>1, <1>6
    <3> HIDE DEF h
    <3> QED BY <3>1, <3>2 DEF LogStep
  <2> QED BY <2>1, <2>2
<1>11. Has(k)
  <2> HIDE DEF h
  <2> QED BY <1>9, <1>10
<1> QED BY <1>3, <1>11

\* So the operator solves it.
LEMMA LogSizesAre ==
    ASSUME NEW entries \in Seq(Nat)
    PROVE  /\ \A n \in 0..Len(entries) :
                 LogStep(LogSizes(entries), entries, n) /\ LogSizes(entries)[n] \in Nat
           /\ EncodedLogs(entries) = LogSizes(entries)[Len(entries)]
<1> DEFINE G == LogSizes(entries)
<1>1. Len(entries) \in Nat BY LenProperties
<1>2. PICK g \in [0..Len(entries) -> Nat] : \A n \in 0..Len(entries) : LogStep(g, entries, n)
  <2> DEFINE m == Len(entries)
  <2>1. m \in Nat /\ m <= Len(entries) BY <1>1
  <2> HIDE DEF m
  <2>2. \E g \in [0..m -> Nat] : \A n \in 0..m : LogStep(g, entries, n)
    BY ONLY <2>1, entries \in Seq(Nat), LogSizesExist
  <2> QED BY <2>2 DEF m
<1>3. g = [n \in 0..Len(entries) |->
             IF n = 0 THEN 2 ELSE g[n - 1] + entries[n] + (IF n = 1 THEN 0 ELSE 1)]
  BY <1>2 DEF LogStep
<1>4. G = [n \in 0..Len(entries) |->
             IF n = 0 THEN 2 ELSE G[n - 1] + entries[n] + (IF n = 1 THEN 0 ELSE 1)]
  BY <1>3, Zenon DEF LogSizes
<1> HIDE DEF G
<1>5. \A n \in 0..Len(entries) : LogStep(G, entries, n) BY <1>4 DEF LogStep
<1> DEFINE Wrong == {n \in 0..Len(entries) : G[n] \notin Nat}
<1>6. Wrong = {}
  <2> SUFFICES ASSUME Wrong # {} PROVE FALSE OBVIOUS
  <2>1. PICK n \in Wrong : \A i \in Wrong : n <= i
    <3>1. Wrong \subseteq Nat BY <1>1
    <3> HIDE DEF Wrong
    <3> QED BY <3>1, LeastNumber
  <2>2. n \in 0..Len(entries) /\ n \in Nat BY <1>1
  <2>3. CASE n = 0 BY <2>2, <2>3, <1>5 DEF LogStep
  <2>4. CASE n # 0
    <3>1. n - 1 \in 0..Len(entries) /\ n - 1 < n /\ n \in 1..Len(entries) BY <2>2, <2>4, <1>1
    <3>2. n - 1 \notin Wrong BY <2>1, <2>2, <3>1
    <3>3. G[n - 1] \in Nat /\ entries[n] \in Nat BY <3>1, <3>2, ElementOfSeq
    <3>4. G[n] = G[n - 1] + entries[n] + (IF n = 1 THEN 0 ELSE 1) BY <2>2, <2>4, <1>5 DEF LogStep
    <3> QED BY <3>3, <3>4
  <2> QED BY <2>3, <2>4
<1>7. EncodedLogs(entries) = LogSizes(entries)[Len(entries)] BY DEF EncodedLogs, LogSizes
<1> QED BY <1>5, <1>6, <1>7 DEF G

\* No logs are two brackets; an entry more costs its bytes and its comma.
LEMMA EncodedLogsAre ==
    /\ EncodedLogs(<<>>) = 2
    /\ \A entries \in Seq(Nat) : EncodedLogs(entries) \in Nat
    /\ \A entries \in Seq(Nat), text \in Nat :
          EncodedLogs(Append(entries, text)) = EncodedLogs(entries) + EntryBytes(text, entries)
<1>1. EncodedLogs(<<>>) = 2
  <2> DEFINE none == <<>>
  <2>1. none \in Seq(Nat) /\ Len(none) = 0 /\ 0 \in 0..0 BY EmptySeq
  <2> HIDE DEF none
  <2>2. LogStep(LogSizes(none), none, 0) /\ EncodedLogs(none) = LogSizes(none)[0]
    BY <2>1, LogSizesAre
  <2> QED BY <2>2 DEF LogStep, none
<1>2. ASSUME NEW entries \in Seq(Nat) PROVE EncodedLogs(entries) \in Nat
  <2>1. Len(entries) \in 0..Len(entries) BY LenProperties
  <2> QED BY <2>1, LogSizesAre
<1>3. ASSUME NEW entries \in Seq(Nat), NEW text \in Nat
      PROVE  EncodedLogs(Append(entries, text)) = EncodedLogs(entries) + EntryBytes(text, entries)
  <2> DEFINE more == Append(entries, text)
             N == Len(entries)
             G == LogSizes(entries)
             H == LogSizes(more)
  <2>1. /\ more \in Seq(Nat) /\ Len(more) = N + 1 /\ more[N + 1] = text /\ N \in Nat
        /\ \A n \in 1..N : more[n] = entries[n]
    BY AppendProperties, LenProperties
  <2> HIDE DEF more
  <2>2. \A n \in 0..N : LogStep(G, entries, n) /\ G[n] \in Nat BY LogSizesAre
  <2>3. \A n \in 0..(N + 1) : LogStep(H, more, n) /\ H[n] \in Nat BY <2>1, LogSizesAre
  <2>4. EncodedLogs(entries) = G[N] /\ EncodedLogs(more) = H[N + 1] BY <2>1, LogSizesAre
  <2> HIDE DEF G, H
  <2> DEFINE Differ == {n \in 0..N : H[n] # G[n]}
  <2>5. Differ = {}
    <3> SUFFICES ASSUME Differ # {} PROVE FALSE OBVIOUS
    <3>1. PICK n \in Differ : \A i \in Differ : n <= i
      <4>1. Differ \subseteq Nat BY <2>1
      <4> HIDE DEF Differ
      <4> QED BY <4>1, LeastNumber
    <3>2. n \in 0..N /\ n \in 0..(N + 1) /\ n \in Nat BY <2>1
    <3>3. LogStep(H, more, n) /\ LogStep(G, entries, n) BY <3>2, <2>2, <2>3
    <3>4. CASE n = 0 BY <3>3, <3>4 DEF LogStep
    <3>5. CASE n # 0
      <4>1. n - 1 \in 0..N /\ n - 1 < n /\ n \in 1..N BY <3>2, <3>5, <2>1
      <4>2. n - 1 \notin Differ BY <3>1, <3>2, <4>1
      <4>3. H[n - 1] = G[n - 1] /\ more[n] = entries[n] BY <4>1, <4>2, <2>1
      <4> QED BY <3>3, <3>5, <4>3 DEF LogStep
    <3> QED BY <3>4, <3>5
  <2>6. H[N] = G[N]
    <3>1. N \in 0..N BY <2>1
    <3> QED BY <3>1, <2>5
  <2>7. H[N + 1] = H[N] + text + (IF N + 1 = 1 THEN 0 ELSE 1)
    <3>1. N + 1 \in 0..(N + 1) /\ N + 1 # 0 /\ (N + 1) - 1 = N BY <2>1
    <3>2. LogStep(H, more, N + 1) BY <3>1, <2>3
    <3> QED BY <3>1, <3>2, <2>1 DEF LogStep
  <2>8. N + 1 = 1 <=> entries = <<>> BY <2>1, EmptySeq
  <2>9. H[N] \in Nat
    <3>1. N \in 0..(N + 1) BY <2>1
    <3> QED BY <3>1, <2>3
  <2>10. H[N + 1] = G[N] + (text + (IF entries = <<>> THEN 0 ELSE 1)) BY <2>6, <2>7, <2>8, <2>9
  <2> QED BY <2>4, <2>10 DEF EntryBytes, more
<1> QED BY <1>1, <1>2, <1>3


\* The logs kept beside the limit message leave it its place.
LEMMA KeptLogsFit ==
    ASSUME NEW entries \in Seq(TextBytes)
    PROVE  /\ keptLogs(entries) \in Seq(TextBytes)
           /\ EncodedLogs(keptLogs(entries)) + LimitMessageBytes <= MaxOutputBytes
<1> DEFINE L == Len(entries)
           room == MaxOutputBytes - LimitMessageBytes
           fits == {n \in 0..L : n = 0 \/ EncodedLogs(SubSeq(entries, 1, n)) <= room}
           best == CHOOSE n \in fits : \A m \in fits : m <= n
<1>1. L \in Nat /\ TextBytes \subseteq Nat /\ MaxOutputBytes \in Nat /\ LimitMessageBytes \in Nat
      /\ LimitMessageBytes + 2 <= MaxOutputBytes
  BY OutputLimits, LenProperties
<1>2. \E n \in fits : \A m \in fits : m <= n
  <2> DEFINE T == {i \in 0..L : L - i \in fits}
  <2>1. T \subseteq Nat /\ L \in T
    <3>1. L - L = 0 /\ L \in 0..L /\ 0 \in 0..L BY <1>1
    <3>2. 0 \in fits BY <3>1
    <3> HIDE DEF fits
    <3> QED BY <3>1, <3>2, <1>1
  <2>2. PICK i \in T : \A j \in T : i <= j
    <3> HIDE DEF T
    <3> QED BY <2>1, LeastNumber
  <2>3. L - i \in fits /\ i \in 0..L OBVIOUS
  <2>4. ASSUME NEW m \in fits PROVE m <= L - i
    <3>1. m \in 0..L /\ L - m \in 0..L /\ L - (L - m) = m BY <1>1
    <3>2. L - m \in T
      <4> HIDE DEF fits
      <4> QED BY <3>1
    <3>3. i <= L - m
      <4> HIDE DEF T
      <4> QED BY <2>2, <3>2
    <3> QED BY <3>1, <3>3, <2>3, <1>1
  <2> HIDE DEF fits, T
  <2> QED BY <2>3, <2>4
<1>3. best \in fits
  <2> HIDE DEF fits
  <2> QED BY <1>2, Zenon
<1>4. keptLogs(entries) = SubSeq(entries, 1, best) BY DEF keptLogs
<1> HIDE DEF best
<1>5. best \in 0..L /\ best \in Int /\ (best = 0 \/ EncodedLogs(SubSeq(entries, 1, best)) <= room)
  BY <1>3, <1>1
<1>6. SubSeq(entries, 1, best) \in Seq(TextBytes)
  <2>1. \A i \in 1..best : entries[i] \in TextBytes
    <3> SUFFICES ASSUME NEW i \in 1..best PROVE entries[i] \in TextBytes OBVIOUS
    <3>1. i \in 1..Len(entries) BY <1>1, <1>5
    <3> QED BY <3>1, ElementOfSeq
  <2> QED BY <2>1, <1>5, SubSeqProperties
<1>7. SubSeq(entries, 1, best) \in Seq(Nat) BY <1>1, <1>6, SeqMonotonic
<1>8. CASE best = 0
  <2>1. SubSeq(entries, 1, best) = <<>> BY <1>8, SubSeqEmpty
  <2>2. EncodedLogs(SubSeq(entries, 1, best)) = 2 BY <2>1, EncodedLogsAre, Zenon
  <2> QED BY <2>2, <1>1, <1>4, <1>6
<1>9. CASE best # 0
  <2> DEFINE size == EncodedLogs(SubSeq(entries, 1, best))
  <2>1. size \in Nat /\ size <= room BY <1>5, <1>7, <1>9, EncodedLogsAre
  <2> HIDE DEF size
  <2>2. size + LimitMessageBytes <= MaxOutputBytes BY <2>1, <1>1
  <2> QED BY <2>2, <1>4, <1>6 DEF size
<1> QED BY <1>8, <1>9

EndKinds == {"value", "nothing", "invalid-output", "output-limit", "exception", "timeout",
             "worker-exit", "abort"}
CodeAnswers == [kind : EndKinds \cup {"none"}, logs : Seq(TextBytes), bytes : Nat]
CodeOutcomes == [kind : {"value", "nothing", "invalid-output", "output-limit", "exception"}, bytes : TextBytes]
                \cup {NoOutcome}
CodeStateTypes ==
    /\ program \in [Programs -> {"idle", "live", "over"}]
    /\ answer \in [Programs -> CodeAnswers] /\ outcome \in [Programs -> CodeOutcomes]
    /\ logChain \in [Programs -> Seq(TextBytes)] /\ logged \in [Programs -> Seq(TextBytes)]
    /\ logs \in [Programs -> Seq(TextBytes)] /\ ledger \in [Programs -> Nat]
    /\ calls \in [Programs -> Nat] /\ inFlight \in [Programs -> Nat]
    /\ runtimeGone \in BOOLEAN

\* What an end may report of a program.
Reports(p, res) ==
    /\ res \in CodeAnswers /\ res.kind # "none"
    /\ EncodedLogs(res.logs) + res.bytes <= MaxOutputBytes
    /\ res.kind \in {"value", "exception", "invalid-output"} => res.logs = logged[p]
ProgramOK(p) ==
    /\ ledger[p] = EncodedLogs(logs[p]) /\ ledger[p] <= MaxOutputBytes
    /\ inFlight[p] <= calls[p] /\ calls[p] <= MaxBindingCalls
    /\ program[p] = "live" => logged[p] = logs[p] \o logChain[p]
    /\ program[p] = "idle" => logged[p] = <<>> /\ logs[p] = <<>> /\ logChain[p] = <<>>
    /\ program[p] = "over" => Reports(p, answer[p])
    /\ program[p] # "over" => answer[p].kind = "none"
CodeInv ==
    /\ CodeStateTypes
    /\ \A p \in Programs : ProgramOK(p)
    /\ runtimeGone => \A p \in Programs : program[p] # "live"


\* The output limit can be reported of a program at any time.
LEMMA LimitReports ==
    ASSUME CodeInv, NEW p \in Programs, NEW entries \in Seq(TextBytes)
    PROVE  Reports(p, limit(entries))
<1>1. /\ keptLogs(entries) \in Seq(TextBytes)
      /\ EncodedLogs(keptLogs(entries)) + LimitMessageBytes <= MaxOutputBytes
  BY KeptLogsFit
<1>2. LimitMessageBytes \in Nat BY OutputLimits
<1> QED BY <1>1, <1>2 DEF Reports, limit, CodeAnswers, EndKinds

\* Other ends can when their message fits, else they are the limit's.
LEMMA FailureReports ==
    ASSUME CodeInv, NEW p \in Programs, NEW kind \in EndKinds, NEW message \in Nat,
           kind \in {"value", "exception", "invalid-output"} => logs[p] = logged[p]
    PROVE  /\ Reports(p, failure(p, kind, message))
           /\ kind = "value" => Reports(p, success(p, message))
<1>1. /\ logs[p] \in Seq(TextBytes) /\ ledger[p] \in Nat /\ ledger[p] = EncodedLogs(logs[p])
      /\ MaxOutputBytes \in Nat
  BY OutputLimits DEF CodeInv, CodeStateTypes, ProgramOK
<1>2. Reports(p, limit(logs[p])) BY <1>1, LimitReports
<1> DEFINE res == [kind |-> kind, logs |-> logs[p], bytes |-> message]
<1>3. ~(ledger[p] + message > MaxOutputBytes) => Reports(p, res)
  <2> SUFFICES ASSUME ~(ledger[p] + message > MaxOutputBytes) PROVE Reports(p, res) OBVIOUS
  <2>1. ledger[p] + message <= MaxOutputBytes BY <1>1
  <2>2. res \in CodeAnswers /\ res.kind # "none" BY <1>1 DEF CodeAnswers, EndKinds
  <2> QED BY <2>1, <2>2, <1>1 DEF Reports
<1> QED BY <1>2, <1>3, Zenon DEF failure, success

\* The rest of the programs are as they were.
LEMMA OneProgram ==
    ASSUME CodeInv, CodeStateTypes', NEW p \in Programs, ProgramOK(p)',
           \A q \in Programs \ {p} :
              /\ program'[q] = program[q] /\ answer'[q] = answer[q] /\ logChain'[q] = logChain[q]
              /\ logged'[q] = logged[q] /\ logs'[q] = logs[q] /\ ledger'[q] = ledger[q]
              /\ calls'[q] = calls[q] /\ inFlight'[q] = inFlight[q],
           runtimeGone' = runtimeGone, program'[p] = "live" => ~runtimeGone
    PROVE  CodeInv'
<1>1. ASSUME NEW q \in Programs \ {p} PROVE ProgramOK(q)'
  <2>1. ProgramOK(q) BY DEF CodeInv
  <2>2. /\ program'[q] = program[q] /\ answer'[q] = answer[q] /\ logChain'[q] = logChain[q]
        /\ logged'[q] = logged[q] /\ logs'[q] = logs[q] /\ ledger'[q] = ledger[q]
        /\ calls'[q] = calls[q] /\ inFlight'[q] = inFlight[q]
    OBVIOUS
  <2>3. Reports(q, answer[q]) => Reports(q, answer[q])' BY <2>2 DEF Reports
  <2> QED BY <2>1, <2>2, <2>3 DEF ProgramOK
<1>2. \A q \in Programs : ProgramOK(q)' BY <1>1
<1>3. runtimeGone' => \A q \in Programs : program'[q] # "live" BY DEF CodeInv
<1> QED BY <1>2, <1>3 DEF CodeInv


LEMMA RunKeeps ==
    ASSUME CodeInv, NEW p \in Programs, NEW req \in CodeRequests, NEW message \in TextBytes,
           run(p, req, message) PROVE CodeInv'
<1>1. /\ program[p] = "idle" /\ RunRefusal(req) # "reject"
      /\ IF RunRefusal(req) = "accepted"
         THEN program' = [program EXCEPT ![p] = "live"] /\ UNCHANGED answer
         ELSE /\ program' = [program EXCEPT ![p] = "over"]
              /\ answer' = [answer EXCEPT ![p] = failure(p, RunRefusal(req), message)]
      /\ UNCHANGED <<isolateVars, logs, ledger, calls, inFlight, runtimeGone>>
  BY DEF run
<1>2. ~runtimeGone /\ RunRefusal(req) \in {"abort", "exception", "accepted"} BY <1>1 DEF RunRefusal
<1>3. /\ UNCHANGED <<outcome, logChain, logged, logs, ledger, calls, inFlight, runtimeGone>>
      /\ CodeStateTypes /\ ProgramOK(p)
  BY <1>1 DEF isolateVars, CodeInv
<1>4. logged[p] = <<>> /\ logs[p] = <<>> /\ logChain[p] = <<>> /\ message \in Nat
  BY <1>1, <1>3, OutputLimits DEF ProgramOK
<1>5. CASE RunRefusal(req) = "accepted"
  <2>1. /\ program' = [program EXCEPT ![p] = "live"] /\ UNCHANGED answer
        /\ UNCHANGED <<outcome, logChain, logged, logs, ledger, calls, inFlight, runtimeGone>>
    BY <1>1, <1>3, <1>5
  <2>2. CodeStateTypes' BY <2>1, <1>3 DEF CodeStateTypes
  <2>3. program'[p] = "live" /\ \A q \in Programs \ {p} : program'[q] = program[q]
    BY <2>1, <1>3 DEF CodeStateTypes
  <2>4. logged[p] = logs[p] \o logChain[p]
    <3>1. <<>> \o <<>> = <<>> OBVIOUS
    <3> QED BY <1>4, <3>1
  <2>5. ProgramOK(p)' BY <2>1, <2>3, <2>4, <1>1, <1>3 DEF ProgramOK
  <2> QED BY <2>1, <2>2, <2>3, <2>5, <1>2, OneProgram
<1>6. CASE RunRefusal(req) # "accepted"
  <2> DEFINE res == failure(p, RunRefusal(req), message)
  <2>1. /\ program' = [program EXCEPT ![p] = "over"] /\ answer' = [answer EXCEPT ![p] = res]
        /\ UNCHANGED <<outcome, logChain, logged, logs, ledger, calls, inFlight, runtimeGone>>
    BY <1>1, <1>3, <1>6
  <2>2. RunRefusal(req) \in EndKinds /\ logs[p] = logged[p] BY <1>2, <1>4, <1>6 DEF EndKinds
  <2>3. Reports(p, res) BY <2>2, <1>4, FailureReports
  <2> HIDE DEF res
  <2>4. CodeStateTypes' BY <2>1, <2>3, <1>3 DEF CodeStateTypes, Reports
  <2>5. /\ program'[p] = "over" /\ answer'[p] = res
        /\ \A q \in Programs \ {p} : program'[q] = program[q] /\ answer'[q] = answer[q]
    BY <2>1, <1>3 DEF CodeStateTypes
  <2>6. Reports(p, answer[p])' BY <2>1, <2>3, <2>5 DEF Reports
  <2>7. ProgramOK(p)' BY <2>1, <2>5, <2>6, <1>3 DEF ProgramOK
  <2> QED BY <2>1, <2>4, <2>5, <2>7, OneProgram
<1> QED BY <1>5, <1>6

\* An end that may be reported is the program's end.
LEMMA EndKeeps ==
    ASSUME CodeInv, NEW p \in Programs, NEW res, Reports(p, res), ProgramEnds(p, res)
    PROVE  CodeInv'
<1>1. /\ program[p] = "live" /\ program' = [program EXCEPT ![p] = "over"]
      /\ answer' = [answer EXCEPT ![p] = res] /\ logChain' = [logChain EXCEPT ![p] = <<>>]
      /\ UNCHANGED <<outcome, logged, logs, ledger, calls, inFlight, runtimeGone>>
  BY DEF ProgramEnds
<1>2. CodeStateTypes /\ ProgramOK(p) /\ <<>> \in Seq(TextBytes) BY EmptySeq DEF CodeInv
<1>3. CodeStateTypes' BY <1>1, <1>2 DEF CodeStateTypes, Reports
<1>4. /\ program'[p] = "over" /\ answer'[p] = res
      /\ \A q \in Programs \ {p} :
            program'[q] = program[q] /\ answer'[q] = answer[q] /\ logChain'[q] = logChain[q]
  BY <1>1, <1>2 DEF CodeStateTypes
<1>5. Reports(p, answer[p])' BY <1>1, <1>4 DEF Reports
<1>6. ProgramOK(p)' BY <1>1, <1>2, <1>4, <1>5 DEF ProgramOK
<1> QED BY <1>1, <1>3, <1>4, <1>6, OneProgram

LEMMA LogKeeps ==
    ASSUME CodeInv, NEW p \in Programs, NEW text \in TextBytes, Log(p, text) PROVE CodeInv'
<1>1. /\ program[p] = "live" /\ logChain' = [logChain EXCEPT ![p] = Append(@, text)]
      /\ logged' = [logged EXCEPT ![p] = Append(@, text)]
      /\ UNCHANGED <<program, answer, outcome, logs, ledger, calls, inFlight, runtimeGone>>
  BY DEF Log, Running
<1>2. CodeStateTypes /\ ProgramOK(p) /\ (runtimeGone => program[p] # "live") BY DEF CodeInv
<1>3. /\ logChain[p] \in Seq(TextBytes) /\ logged[p] \in Seq(TextBytes) /\ logs[p] \in Seq(TextBytes)
      /\ logged[p] = logs[p] \o logChain[p]
  BY <1>1, <1>2 DEF CodeStateTypes, ProgramOK
<1>4. Append(logChain[p], text) \in Seq(TextBytes) /\ Append(logged[p], text) \in Seq(TextBytes)
  BY <1>3, AppendProperties
<1>5. Append(logged[p], text) = logs[p] \o Append(logChain[p], text)
  <2> DEFINE c == logChain[p]
             a == logs[p]
             one == <<text>>
  <2>1. c \in Seq(TextBytes) /\ a \in Seq(TextBytes) /\ one \in Seq(TextBytes) /\ a \o c \in Seq(TextBytes)
    BY <1>3, ConcatProperties
  <2>2. Append(a \o c, text) = (a \o c) \o one /\ Append(c, text) = c \o one BY <2>1, AppendIsConcat
  <2> HIDE DEF a, c, one
  <2>3. (a \o c) \o one = a \o (c \o one) BY <2>1, ConcatAssociative
  <2>4. Append(a \o c, text) = a \o Append(c, text) BY <2>2, <2>3
  <2> QED BY <2>4, <1>3 DEF a, c
<1>6. CodeStateTypes' BY <1>1, <1>2, <1>4 DEF CodeStateTypes
<1>7. /\ logChain'[p] = Append(logChain[p], text) /\ logged'[p] = Append(logged[p], text)
      /\ \A q \in Programs \ {p} : logChain'[q] = logChain[q] /\ logged'[q] = logged[q]
  BY <1>1, <1>2 DEF CodeStateTypes
<1>8. ProgramOK(p)' BY <1>1, <1>2, <1>5, <1>7 DEF ProgramOK
<1> QED BY <1>1, <1>2, <1>6, <1>7, <1>8, OneProgram

LEMMA ProgramRuns ==
    ASSUME CodeInv, NEW p \in Programs, NEW size \in TextBytes,
           NEW kind \in {"value", "nothing", "invalid-output", "output-limit", "exception"},
           runProgram(p, kind, size)
    PROVE  CodeInv'
<1>1. /\ outcome' = [outcome EXCEPT ![p] = [kind |-> kind, bytes |-> size]]
      /\ UNCHANGED <<program, answer, logChain, logged, logs, ledger, calls, inFlight, runtimeGone>>
  BY DEF runProgram
<1>2. [kind |-> kind, bytes |-> size] \in CodeOutcomes BY DEF CodeOutcomes
<1>3. CodeStateTypes' BY <1>1, <1>2 DEF CodeInv, CodeStateTypes
<1>4. \A q \in Programs : ProgramOK(q)' BY <1>1 DEF CodeInv, ProgramOK, Reports
<1> QED BY <1>1, <1>3, <1>4 DEF CodeInv

\* A completed program's outcome is behind all its logs.
LEMMA CompleteKeeps ==
    ASSUME CodeInv, NEW p \in Programs, complete(p) PROVE CodeInv'
<1> DEFINE o == outcome[p]
           res == IF o.kind = "value" THEN success(p, o.bytes)
                  ELSE IF o.kind = "nothing" THEN success(p, 0)
                  ELSE failure(p, o.kind, o.bytes)
<1>1. o # NoOutcome /\ logChain[p] = <<>> /\ ProgramEnds(p, res) /\ program[p] = "live"
  BY DEF complete, ChainDrained, ProgramEnds
<1>2. CodeStateTypes /\ ProgramOK(p) /\ TextBytes \subseteq Nat BY OutputLimits DEF CodeInv
<1>3. o.kind \in {"value", "nothing", "invalid-output", "output-limit", "exception"} /\ o.bytes \in Nat
  <2>1. o \in CodeOutcomes BY <1>2 DEF CodeStateTypes
  <2> QED BY <2>1, <1>1, <1>2 DEF CodeOutcomes
<1>4. logs[p] = logged[p]
  <2>1. logged[p] = logs[p] \o <<>> /\ logs[p] \in Seq(TextBytes)
    BY <1>1, <1>2 DEF ProgramOK, CodeStateTypes
  <2> QED BY <2>1, ConcatEmptySeq
<1>5. Reports(p, res)
  <2> HIDE DEF o
  <2> DEFINE k == o.kind
             b == o.bytes
  <2>1. k \in EndKinds /\ "value" \in EndKinds /\ b \in Nat /\ 0 \in Nat BY <1>3 DEF EndKinds
  <2> HIDE DEF k, b
  <2>2. Reports(p, failure(p, k, b)) /\ Reports(p, success(p, b)) /\ Reports(p, success(p, 0))
    <3>1. Reports(p, failure(p, k, b)) BY <2>1, <1>4, FailureReports
    <3>2. \A m \in Nat : Reports(p, success(p, m))
      <4> SUFFICES ASSUME NEW m \in Nat PROVE Reports(p, success(p, m)) OBVIOUS
      <4> DEFINE v == "value"
      <4>1. v \in EndKinds /\ v = "value" BY <2>1
      <4> HIDE DEF v
      <4> QED BY <4>1, <1>4, FailureReports
    <3> QED BY <3>1, <3>2, <2>1
  <2> QED BY <2>2 DEF k, b
<1> HIDE DEF res
<1> QED BY <1>1, <1>5, EndKeeps

LEMMA OtherEndKeeps ==
    ASSUME CodeInv, NEW p \in Programs, NEW size \in TextBytes,
           NEW kind \in {"timeout", "worker-exit", "abort"}, ProgramEnds(p, failure(p, kind, size))
    PROVE  CodeInv'
<1>1. kind \in EndKinds /\ size \in Nat
      /\ (kind \in {"value", "exception", "invalid-output"} => logs[p] = logged[p])
  BY OutputLimits DEF EndKinds
<1>2. Reports(p, failure(p, kind, size)) BY <1>1, FailureReports
<1> QED BY <1>2, EndKeeps

LEMMA BridgeLogKeeps ==
    ASSUME CodeInv, NEW p \in Programs, bridgeLog(p) PROVE CodeInv'
<1> DEFINE text == Head(logChain[p])
<1>1. program[p] = "live" /\ logChain[p] # <<>> /\ CodeStateTypes /\ ProgramOK(p)
      /\ (runtimeGone => program[p] # "live") /\ TextBytes \subseteq Nat /\ MaxOutputBytes \in Nat
  BY OutputLimits DEF bridgeLog, CodeInv
<1>2. /\ logChain[p] \in Seq(TextBytes) /\ logs[p] \in Seq(TextBytes) /\ ledger[p] \in Nat
      /\ ledger[p] = EncodedLogs(logs[p]) /\ logged[p] = logs[p] \o logChain[p]
  BY <1>1 DEF CodeStateTypes, ProgramOK
<1>3. text \in TextBytes /\ Tail(logChain[p]) \in Seq(TextBytes) /\ Append(logs[p], text) \in Seq(TextBytes)
  <2>1. text \in TextBytes /\ Tail(logChain[p]) \in Seq(TextBytes) BY <1>1, <1>2, HeadTailProperties
  <2> HIDE DEF text
  <2> QED BY <2>1, <1>2, AppendProperties
<1>4. CASE admits(p, text)
  <2>1. /\ ledger' = [ledger EXCEPT ![p] = @ + EntryBytes(text, logs[p])]
        /\ logs' = [logs EXCEPT ![p] = Append(@, text)]
        /\ logChain' = [logChain EXCEPT ![p] = Tail(@)]
        /\ UNCHANGED <<program, answer, outcome, logged, calls, inFlight, runtimeGone>>
    BY <1>4 DEF bridgeLog
  <2> DEFINE t == text
             a == logs[p]
             c == Tail(logChain[p])
             size == EncodedLogs(Append(a, t))
  <2>2. Append(a, t) \o c = a \o logChain[p]
    <3> DEFINE one == <<t>>
    <3>1. /\ a \in Seq(TextBytes) /\ c \in Seq(TextBytes) /\ t \in TextBytes /\ one \in Seq(TextBytes)
      BY <1>2, <1>3
    <3>2. logChain[p] = one \o c
      <4> DEFINE l == logChain[p]
                 u == one \o c
      <4>1. /\ Len(l) \in Nat /\ Len(l) # 0 /\ Len(c) = Len(l) - 1 /\ t = l[1] /\ l \in Seq(TextBytes)
            /\ \A i \in 1..Len(c) : c[i] = l[i + 1]
        BY <1>1, <1>2, HeadTailProperties, LenProperties, EmptySeq
      <4>2. /\ u \in Seq(TextBytes) /\ Len(u) = Len(one) + Len(c)
            /\ \A i \in 1..Len(one) + Len(c) : u[i] = IF i <= Len(one) THEN one[i] ELSE c[i - Len(one)]
        BY <3>1, ConcatProperties
      <4>3. Len(one) = 1 /\ one[1] = t OBVIOUS
      <4> HIDE DEF u, one, l, c, t
      <4>4. Len(u) = Len(l) /\ \A i \in 1..Len(l) : u[i] = l[i]
        <5>1. Len(u) = Len(l) BY <4>1, <4>2, <4>3
        <5>2. ASSUME NEW i \in 1..Len(l) PROVE u[i] = l[i]
          <6>1. CASE i = 1 BY <6>1, <4>1, <4>2, <4>3
          <6>2. CASE i # 1
            <7>1. i - 1 \in 1..Len(c) /\ ~(i <= 1) /\ (i - 1) + 1 = i /\ i \in 1..Len(one) + Len(c)
              BY <6>2, <4>1, <4>3
            <7> QED BY <7>1, <4>1, <4>2, <4>3
          <6> QED BY <6>1, <6>2
        <5> QED BY <5>1, <5>2
      <4>5. l = u BY <4>1, <4>2, <4>4, SeqEqual
      <4> QED BY <4>5 DEF l, u
    <3>3. Append(a, t) = a \o one BY <3>1, AppendIsConcat
    <3> HIDE DEF one, a, c, t
    <3>4. (a \o one) \o c = a \o (one \o c) BY <3>1, ConcatAssociative
    <3> QED BY <3>2, <3>3, <3>4
  <2>3. size = ledger[p] + EntryBytes(t, a) /\ size \in Nat /\ size <= MaxOutputBytes
    <3>1. a \in Seq(Nat) /\ t \in Nat /\ Append(a, t) \in Seq(Nat)
      <4>1. a \in Seq(Nat) /\ t \in Nat BY <1>1, <1>2, <1>3, SeqMonotonic
      <4> HIDE DEF a, t
      <4> QED BY <4>1, AppendProperties
    <3>2. size = EncodedLogs(a) + EntryBytes(t, a) /\ size \in Nat BY <3>1, EncodedLogsAre
    <3>3. ledger[p] + EntryBytes(t, a) <= MaxOutputBytes BY <1>4 DEF admits
    <3> QED BY <3>2, <3>3, <1>2
  <2> HIDE DEF text, t, a, c, size
  <2>4. /\ ledger'[p] = size /\ logs'[p] = Append(a, t) /\ logChain'[p] = c
        /\ \A q \in Programs \ {p} :
              ledger'[q] = ledger[q] /\ logs'[q] = logs[q] /\ logChain'[q] = logChain[q]
    BY <2>1, <2>3, <1>1 DEF CodeStateTypes, t, a, c
  <2>5. CodeStateTypes'
    <3>1. ledger' \in [Programs -> Nat] /\ logs' \in [Programs -> Seq(TextBytes)]
          /\ logChain' \in [Programs -> Seq(TextBytes)]
      <4>1. ledger[p] + EntryBytes(text, logs[p]) \in Nat BY <2>3, Zenon DEF t, a
      <4> QED BY <4>1, <2>1, <1>1, <1>3 DEF CodeStateTypes
    <3> QED BY <3>1, <2>1, <1>1 DEF CodeStateTypes
  <2>6. ProgramOK(p)'
    <3>1. ledger'[p] = EncodedLogs(logs'[p]) /\ ledger'[p] <= MaxOutputBytes BY <2>3, <2>4 DEF size
    <3>2. logged'[p] = logs'[p] \o logChain'[p] /\ program'[p] = "live"
      BY <2>1, <2>2, <2>4, <1>1, <1>2 DEF a
    <3> QED BY <3>1, <3>2, <2>1, <1>1 DEF ProgramOK
  <2> QED BY <2>1, <2>4, <2>5, <2>6, <1>1, OneProgram
<1>5. CASE ~admits(p, text)
  <2> DEFINE more == Append(logs[p], text)
  <2>1. ProgramEnds(p, limit(more)) BY <1>5 DEF bridgeLog
  <2>2. more \in Seq(TextBytes) BY <1>3
  <2> HIDE DEF more
  <2>3. Reports(p, limit(more)) BY <2>2, LimitReports
  <2> QED BY <2>1, <2>3, EndKeeps
<1> QED BY <1>4, <1>5

LEMMA CallsKeep ==
    ASSUME CodeInv, NEW p \in Programs, dispatchCall(p) \/ CallAnswered(p)
    PROVE  CodeInv'
<1>1. CodeStateTypes /\ ProgramOK(p) /\ MaxBindingCalls \in Nat BY OutputLimits DEF CodeInv
<1>2. /\ UNCHANGED <<program, answer, outcome, logChain, logged, logs, ledger, runtimeGone>>
      /\ \A q \in Programs \ {p} : calls'[q] = calls[q] /\ inFlight'[q] = inFlight[q]
      /\ calls' \in [Programs -> Nat] /\ inFlight' \in [Programs -> Nat]
      /\ inFlight'[p] <= calls'[p] /\ calls'[p] <= MaxBindingCalls
  <2>1. CASE dispatchCall(p) BY <2>1, <1>1 DEF dispatchCall, isolateVars, CodeStateTypes, ProgramOK
  <2>2. CASE CallAnswered(p) BY <2>2, <1>1 DEF CallAnswered, isolateVars, CodeStateTypes, ProgramOK
  <2> QED BY <2>1, <2>2
<1>3. CodeStateTypes' BY <1>1, <1>2 DEF CodeStateTypes
<1>4. ProgramOK(p)' BY <1>1, <1>2 DEF ProgramOK, Reports
<1>5. program'[p] = "live" => ~runtimeGone BY <1>2 DEF CodeInv
<1> QED BY <1>2, <1>3, <1>4, <1>5, OneProgram

\* A teardown ends every program that lives.
LEMMA TeardownKeeps ==
    ASSUME CodeInv, NEW size \in TextBytes, teardown(size) PROVE CodeInv'
<1>1. /\ runtimeGone' = TRUE
      /\ program' = [p \in Programs |-> IF program[p] = "live" THEN "over" ELSE program[p]]
      /\ answer' = [p \in Programs |->
                      IF program[p] = "live" THEN failure(p, "abort", size) ELSE answer[p]]
      /\ logChain' = [p \in Programs |-> IF program[p] = "live" THEN <<>> ELSE logChain[p]]
      /\ UNCHANGED <<outcome, logged, logs, ledger, calls, inFlight>>
  BY DEF teardown
<1>2. CodeStateTypes /\ size \in Nat /\ <<>> \in Seq(TextBytes)
  BY OutputLimits, EmptySeq DEF CodeInv
<1>3. ASSUME NEW p \in Programs PROVE Reports(p, failure(p, "abort", size))
  <2> DEFINE k == "abort"
  <2>1. k \in EndKinds /\ (k \in {"value", "exception", "invalid-output"} => logs[p] = logged[p])
    BY DEF EndKinds
  <2> HIDE DEF k
  <2>2. Reports(p, failure(p, k, size)) BY <2>1, <1>2, FailureReports
  <2> QED BY <2>2 DEF k
<1>4. \A p \in Programs : failure(p, "abort", size) \in CodeAnswers BY <1>3 DEF Reports
<1>5. CodeStateTypes' BY <1>1, <1>2, <1>4 DEF CodeStateTypes
<1>6. ASSUME NEW p \in Programs PROVE ProgramOK(p)' /\ program'[p] # "live"
  <2>1. ProgramOK(p) BY DEF CodeInv
  <2>2. CASE program[p] = "live"
    <3>1. program'[p] = "over" /\ answer'[p] = failure(p, "abort", size) BY <2>2, <1>1
    <3>2. Reports(p, answer[p])' BY <3>1, <1>1, <1>3 DEF Reports
    <3> QED BY <3>1, <3>2, <2>1, <1>1 DEF ProgramOK
  <2>3. CASE program[p] # "live"
    <3>1. program'[p] = program[p] /\ answer'[p] = answer[p] BY <2>3, <1>1
    <3>2. Reports(p, answer[p]) => Reports(p, answer[p])' BY <3>1, <1>1 DEF Reports
    <3> QED BY <3>1, <3>2, <2>1, <2>3, <1>1 DEF ProgramOK
  <2> QED BY <2>2, <2>3
<1> QED BY <1>5, <1>6 DEF CodeInv

LEMMA CodeInvInit == CodeInit => CodeInv
<1> SUFFICES ASSUME CodeInit PROVE CodeInv OBVIOUS
<1>1. <<>> \in Seq(TextBytes) /\ EncodedLogs(<<>>) = 2 /\ 2 <= MaxOutputBytes /\ MaxBindingCalls \in Nat
  BY EmptySeq, EncodedLogsAre, OutputLimits
<1>2. CodeStateTypes
  BY <1>1 DEF CodeInit, CodeStateTypes, CodeAnswers, CodeOutcomes, NoAnswer, NoOutcome
<1>3. \A p \in Programs : ProgramOK(p) /\ program[p] # "live"
  BY <1>1 DEF CodeInit, ProgramOK, NoAnswer
<1> QED BY <1>2, <1>3 DEF CodeInv

LEMMA CodeInvStep == CodeInv /\ [CodeNext]_codeVars => CodeInv'
<1> SUFFICES ASSUME CodeInv, [CodeNext]_codeVars PROVE CodeInv' OBVIOUS
<1>1. CASE UNCHANGED codeVars
  <2>1. UNCHANGED <<program, answer, outcome, logChain, logged, logs, ledger, calls, inFlight, runtimeGone>>
    BY <1>1 DEF codeVars, isolateVars
  <2>2. CodeStateTypes' BY <2>1 DEF CodeInv, CodeStateTypes
  <2>3. \A p \in Programs : ProgramOK(p)' BY <2>1 DEF CodeInv, ProgramOK, Reports
  <2> QED BY <2>1, <2>2, <2>3 DEF CodeInv
<1>2. ASSUME NEW size \in TextBytes, teardown(size) PROVE CodeInv' BY <1>2, TeardownKeeps
<1>3. ASSUME NEW p \in Programs, dispatchCall(p) \/ CallAnswered(p) \/ bridgeLog(p) \/ complete(p)
      PROVE  CodeInv'
  BY <1>3, CallsKeep, BridgeLogKeeps, CompleteKeeps
<1>4. ASSUME NEW p \in Programs, NEW size \in TextBytes, NEW req \in CodeRequests, run(p, req, size)
      PROVE  CodeInv'
  BY <1>4, RunKeeps
<1>5. ASSUME NEW p \in Programs, NEW size \in TextBytes, Log(p, size) PROVE CodeInv'
  BY <1>5, LogKeeps
<1>6. ASSUME NEW p \in Programs, NEW size \in TextBytes,
             NEW kind \in {"value", "nothing", "invalid-output", "output-limit", "exception"},
             runProgram(p, kind, size)
      PROVE  CodeInv'
  BY <1>6, ProgramRuns
<1>7. ASSUME NEW p \in Programs, NEW size \in TextBytes,
             (\E kind \in {"timeout", "worker-exit"} : EvaluationFails(p, kind, size))
             \/ WallClock(p, size) \/ Abort(p, size)
      PROVE  CodeInv'
  BY <1>7, OtherEndKeeps DEF EvaluationFails, WallClock, Abort
<1> QED BY <1>1, <1>2, <1>3, <1>4, <1>5, <1>6, <1>7, Zenon DEF CodeNext

\* The inductive invariant of the code runtime.
THEOREM CodeInvariant == CodeSpec => []CodeInv
  BY CodeInvInit, CodeInvStep, PTL DEF CodeSpec

\* The ledger is the encoded size of the admitted logs, what every end reports
\* fits the budget, a program that ends by itself reports all it logged, and no
\* more of its tools run than its cap allows.
THEOREM CodeCorrect == CodeSpec => [](CodeTypeOK /\ OutputExact)
<1>1. CodeInv => CodeTypeOK /\ OutputExact
  <2> SUFFICES ASSUME CodeInv PROVE CodeTypeOK /\ OutputExact OBVIOUS
  <2>1. CodeStateTypes /\ MaxBindingCalls \in Nat BY OutputLimits DEF CodeInv
  <2>2. ASSUME NEW p \in Programs
        PROVE  /\ answer[p].kind = "none" <=> program[p] # "over"
               /\ ledger[p] = EncodedLogs(logs[p]) /\ inFlight[p] \in 0..calls[p]
               /\ inFlight[p] <= MaxBindingCalls
               /\ program[p] = "over" => EncodedLogs(answer[p].logs) + answer[p].bytes <= MaxOutputBytes
               /\ answer[p].kind \in {"value", "exception", "invalid-output"} => answer[p].logs = logged[p]
    <3>1. ProgramOK(p) /\ inFlight[p] \in Nat /\ calls[p] \in Nat
      BY <2>1 DEF CodeInv, CodeStateTypes
    <3>2. inFlight[p] \in 0..calls[p] /\ inFlight[p] <= MaxBindingCalls BY <3>1, <2>1 DEF ProgramOK
    <3> QED BY <3>1, <3>2 DEF ProgramOK, Reports
  <2> QED BY <2>1, <2>2 DEF CodeTypeOK, OutputExact, CodeInv, CodeStateTypes
<1> QED BY <1>1, CodeInvariant, PTL

----------------------------------------
(* All of it together. *)

\* A behaviour of what runs beside a turn is one of each of its components.
LEMMA BackgroundActs ==
    MCSpec => WorkflowSpec /\ CodeSpec /\ CommandSpec /\ SweepSpec /\ ArchiveSpec
<1>1. MCInit => WorkflowInit /\ CodeInit /\ CommandInit /\ SweepInit /\ ArchiveInit BY DEF MCInit
<1>2. [MCNext]_mcVars => [WorkflowNext]_workflowVars BY DEF MCNext, mcVars
<1>3. [MCNext]_mcVars => [CodeNext]_codeVars BY DEF MCNext, mcVars
<1>4. [MCNext]_mcVars => [CommandNext]_commandVars BY DEF MCNext, mcVars
<1>5. [MCNext]_mcVars => [SweepNext]_sweepVars BY DEF MCNext, mcVars
<1>6. [MCNext]_mcVars => [ArchiveNext]_archiveVars BY DEF MCNext, mcVars
<1> QED BY <1>1, <1>2, <1>3, <1>4, <1>5, <1>6, PTL DEF MCSpec, WorkflowSpec, CodeSpec,
  CommandSpec, SweepSpec, ArchiveSpec

\* What was promised is kept: a program's logs and result within its budget,
\* what a file references while the storage is swept, and an archive.
THEOREM ContentCorrect == MCSpec => []ContentIsKept
<1>1. (CodeTypeOK /\ OutputExact) /\ NothingNeededIsLost /\ (ClosedIsWhole /\ QueueIsBounded)
      => ContentIsKept
  BY DEF ContentIsKept
<1> QED BY <1>1, BackgroundActs, CodeCorrect, SweepCorrect, ArchiveCorrect, PTL
=============================================================================
