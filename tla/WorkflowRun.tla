----------------------------- MODULE WorkflowRun -----------------------------
(***************************************************************************)
(* One run of the workflow engine (edge-workflow-engine.ts): the script    *)
(* evaluates in an isolate of its own, reaches the host over a bridge, and *)
(* each of its agent() calls waits for a slot, starts a child, awaits its  *)
(* result and disposes of it.  A step ends where the code awaits.  What    *)
(* only waits for a settled promise goes on in a microtask, and all due    *)
(* microtasks run before the next message of the isolate or timer does     *)
(* (HopPending).  The isolate and the subagents are external: calls come   *)
(* in any number and order, a start, a child and a disposal end when they  *)
(* like.                                                                   *)
(***************************************************************************)
EXTENDS Integers, FiniteSets, Sequences, SequencesExt

CONSTANTS
    Agents,              \* agent() calls that cross the bridge
    MaxConcurrentAgents,
    MaxTotalAgents,
    MaxProgressEvents,
    StartRequests,       \* requests of the `workflow` tool, see Admissible
    AgentRequests        \* arguments of agent(), see AgentRefusal

ASSUME WorkflowLimits ==
    /\ MaxConcurrentAgents \in Nat \ {0} /\ MaxTotalAgents \in Nat \ {0}
    /\ MaxProgressEvents \in Nat

VARIABLES
    stage,        \* "none", "created", "evaluating" or "rejected" (not loaded), "decided"
                  \* (between the two handlers of the evaluation), "over", or "unloaded"
                  \* (ended before it was loaded)
    verdict,      \* while "decided", what the first handler decided; else "none"
    isolate,      \* the run holds its isolate
    cap,          \* agents this run may start: the limit, or less if the request says so
    settled,      \* "no" or the stopReason of the result
    cancelled,    \* cancelReason is set
    graceTimer,   \* armed
    childAbort,   \* the children's shared signal is aborted
    call,         \* agent() calls: "idle", "queued", "granted" (has its slot), "starting",
                  \* "returned" (startChild has returned), "running", "leaving" or "done"
    structured,        \* calls that ask for a structured result
    reply,        \* what a call answers over the bridge, "none" until it is decided
    started,      \* agents counted against the cap
    activeSlots,
    slotWaiters,
    child,        \* "none", "registered", "disposing" or "gone"
    event,        \* "none", "started" or the outcome of agent-end
    progressEvents,
    disposal      \* "none", "waiting", "quiet" or "timedOut"

runVars  == <<stage, verdict, isolate, cap, settled, cancelled, graceTimer, childAbort>>
slotVars == <<call, activeSlots, slotWaiters>>
callVars == <<slotVars, structured, reply, started, child, event>>
workflowVars == <<runVars, callVars, progressEvents, disposal>>

WorkflowInit ==
    /\ stage = "none" /\ verdict = "none" /\ isolate = FALSE /\ cap = 0
    /\ settled = "no" /\ cancelled = FALSE /\ graceTimer = FALSE /\ childAbort = FALSE
    /\ call = [a \in Agents |-> "idle"] /\ activeSlots = 0 /\ slotWaiters = <<>>
    /\ structured = {} /\ reply = [a \in Agents |-> "none"] /\ started = 0
    /\ child = [a \in Agents |-> "none"] /\ event = [a \in Agents |-> "none"]
    /\ progressEvents = 0 /\ disposal = "none"

Children == {a \in Agents : child[a] \in {"registered", "disposing"}}
PendingStarts == {a \in Agents : call[a] = "starting"}
Quiet(children, pending) == children = {} /\ pending = {}

\* A call in its finally blocks that has nothing left to wait for.
MayRelease(a) == call[a] = "leaving" /\ child[a] \in {"none", "gone"}
HopPending ==
    \/ stage \in {"created", "rejected", "decided"}
    \/ \E a \in Agents : call[a] \in {"granted", "returned"} \/ MayRelease(a)

----------------------------------------
(* Validation.  The fields of an object have the values "text", "empty"    *)
(* (the empty string), "list" or "other".                                  *)

Field(fields, key) == IF key \in DOMAIN fields THEN fields[key] ELSE "absent"
IsFilled(fields, key) == Field(fields, key) = "text"
IsOptionalText(fields, key) == Field(fields, key) \in {"absent", "text", "empty"}

PhaseIsValid(phase) ==
    /\ phase.object /\ DOMAIN phase.fields \subseteq {"title", "detail", "provider", "model"}
    /\ IsFilled(phase.fields, "title")
    /\ \A key \in {"detail", "provider", "model"} : IsOptionalText(phase.fields, key)
validateMeta(meta) ==
    /\ meta.object
    /\ DOMAIN meta.fields \subseteq {"name", "description", "whenToUse", "phases"}
    /\ IsFilled(meta.fields, "name") /\ IsFilled(meta.fields, "description")
    /\ IsOptionalText(meta.fields, "whenToUse")
    /\ Field(meta.fields, "phases") \in {"absent", "list"}
    /\ \A i \in DOMAIN meta.phases : PhaseIsValid(meta.phases[i])

\* The body does not bring its own meta, parses, and is one function.
assertBodyParses(script) == script \notin {"metaStatement", "unparsable", "closesItsWrapper"}
resolveProvider(provider) == provider \notin {"unnormalized", "unregistered"}

\* The number of agents asked for, Unasked when none is.
Unasked == -1
capIsAdmissible(asks) == asks = Unasked \/ asks \in 1..MaxTotalAgents
resolveMaxTotalAgents(asks) == IF asks = Unasked THEN MaxTotalAgents ELSE asks

Admissible(req) ==
    /\ validateMeta(req.meta) /\ assertBodyParses(req.script)
    /\ resolveProvider(req.provider) /\ capIsAdmissible(req.cap)

\* opts.shape is "absent", "object" or what is no object of plain data; a
\* schema outside the supported subset is "other".
readAgentOptions(opts) ==
    CASE opts.shape = "absent" -> "accepted"
      [] opts.shape \notin {"absent", "object"} -> "INVALID_ARGUMENT"
      [] opts.shape = "object" ->
           IF ~(DOMAIN opts.fields \subseteq {"label", "phase", "schema", "provider", "model"})
           THEN "UNSUPPORTED_OPTION"
           ELSE IF \E key \in {"label", "phase", "provider", "model"} : ~IsOptionalText(opts.fields, key)
           THEN "INVALID_ARGUMENT"
           ELSE IF Field(opts.fields, "schema") = "other" THEN "UNSUPPORTED_SCHEMA" ELSE "accepted"
AsksForSchema(opts) == opts.shape = "object" /\ "schema" \in DOMAIN opts.fields

RunIsOver == cancelled \/ settled # "no"

\* The order of the checks of a bridge call; the size is measured before the
\* state of the run is looked at.
AgentRefusal(req) ==
    IF req.size = "over" THEN "INVALID_ARGUMENT"
    ELSE IF RunIsOver THEN "CANCELLED"
    ELSE IF req.prompt # "text" THEN "INVALID_ARGUMENT"
    ELSE IF readAgentOptions(req.opts) # "accepted" THEN readAgentOptions(req.opts)
    ELSE IF started >= cap THEN "AGENT_CAP"
    ELSE "accepted"

----------------------------------------
(* What the steps share. *)

\* agent-end of the agents S that have a started event and no end yet.
endAgents(S, outcome) ==
    [a \in Agents |-> IF a \in S /\ event[a] = "started" THEN outcome ELSE event[a]]
endStrandedAgents == event' = endAgents(Agents, "cancelled")

\* A child is disposed of once, whoever asks.
disposeChildren(S) ==
    [a \in Agents |-> IF a \in S /\ child[a] = "registered" THEN "disposing" ELSE child[a]]
reapChildren ==
    /\ childAbort' = TRUE
    /\ child' = disposeChildren(Agents)

settle(reason) ==
    /\ settled' = IF settled = "no" THEN reason ELSE settled
    /\ graceTimer' = FALSE

KeepWaiters == UNCHANGED <<call, reply, slotWaiters>>  \* mutant of RejectWaiters

\* What cancel() does to calls that wait for a slot: they are rejected.
RejectWaiters ==
    /\ call' = [a \in Agents |-> IF call[a] = "queued" THEN "done" ELSE call[a]]
    /\ reply' = [a \in Agents |-> IF call[a] = "queued" THEN "CANCELLED" ELSE reply[a]]
    /\ slotWaiters' = <<>>
cancelRun ==
    /\ cancelled' = TRUE /\ graceTimer' = TRUE /\ isolate' = FALSE
    /\ RejectWaiters

----------------------------------------
(* The run. *)

\* start(): a refused request throws and leaves no run; a start signal that
\* is already aborted cancels the run before it begins.
start(req, aborted) ==
    /\ stage = "none"
    /\ Admissible(req)
    /\ stage' = "created" /\ cap' = resolveMaxTotalAgents(req.cap)
    /\ cancelled' = aborted /\ graceTimer' = aborted /\ childAbort' = aborted
    /\ UNCHANGED <<verdict, isolate, settled, callVars, progressEvents, disposal>>

\* The microtask after start(): for a run that was cancelled before it, and
\* for one whose isolate loads, or fails to, before or after it has a Worker.
beginCancelled ==
    /\ stage = "created" /\ RunIsOver
    /\ stage' = "unloaded" /\ settle("cancelled")
    /\ UNCHANGED <<verdict, isolate, cap, cancelled, childAbort, callVars, progressEvents, disposal>>
begin(loads) ==
    /\ stage = "created" /\ ~RunIsOver
    /\ stage' = IF loads THEN "evaluating" ELSE "rejected"
    /\ isolate' \in BOOLEAN /\ (loads => isolate')
    /\ UNCHANGED <<verdict, cap, settled, cancelled, graceTimer, childAbort, callVars, progressEvents, disposal>>

\* cancel(), from the caller or from the abort of the turn's signal; the
\* isolate is terminated, which normally rejects the evaluation.
cancel ==
    /\ stage # "none" /\ ~RunIsOver
    /\ cancelRun
    /\ childAbort' = TRUE
    /\ UNCHANGED <<stage, verdict, cap, settled, activeSlots, structured, started, child, event,
                   progressEvents, disposal>>

\* The evaluation settles: with a "plain" value, with one that is not plain
\* data or "tooLarge", or with an error.
Evaluated(outcome) ==
    /\ \/ stage = "evaluating" /\ ~HopPending
       \/ stage = "rejected" /\ outcome = "thrown"
    /\ stage' = "decided"
    /\ verdict' = IF cancelled THEN "cancelled" ELSE IF outcome = "plain" THEN "completed" ELSE "error"
    /\ UNCHANGED <<isolate, cap, settled, cancelled, graceTimer, childAbort, callVars,
                   progressEvents, disposal>>
finish ==
    /\ stage = "decided"
    /\ stage' = "over" /\ verdict' = "none" /\ isolate' = FALSE
    /\ endStrandedAgents
    /\ settle(verdict)
    /\ reapChildren
    /\ UNCHANGED <<cap, cancelled, slotVars, structured, reply, started, progressEvents, disposal>>

\* Backstop in case the evaluation never observes the termination.
GraceExpires ==
    /\ graceTimer /\ ~HopPending
    /\ endStrandedAgents
    /\ settle("cancelled")
    /\ reapChildren
    /\ UNCHANGED <<stage, verdict, isolate, cap, cancelled, slotVars, structured, reply, started,
                   progressEvents, disposal>>

\* dispose(), before it first waits; a second call shares the first one's end.
dispose ==
    /\ stage # "none" /\ disposal = "none"
    /\ disposal' = "waiting"
    /\ IF RunIsOver THEN UNCHANGED <<cancelled, graceTimer, isolate, call, reply, slotWaiters>> ELSE cancelRun
    /\ reapChildren
    /\ UNCHANGED <<stage, verdict, cap, settled, activeSlots, structured, started, event, progressEvents>>

\* The result is there and no child is left, or the grace is over.
MayResolve == settled # "no" /\ Quiet(Children, PendingStarts)
DisposeResolves ==
    /\ disposal = "waiting" /\ MayResolve
    /\ disposal' = "quiet"
    /\ reapChildren
    /\ UNCHANGED <<stage, verdict, isolate, cap, settled, cancelled, graceTimer, slotVars, structured,
                   reply, started, event, progressEvents>>
DisposeExpires ==
    /\ disposal = "waiting" /\ ~MayResolve /\ ~HopPending
    /\ disposal' = "timedOut"
    /\ reapChildren
    /\ UNCHANGED <<stage, verdict, isolate, cap, settled, cancelled, graceTimer, slotVars, structured,
                   reply, started, event, progressEvents>>

\* phase() takes a text, log() also an empty one.
Progress(hook, arg) ==
    /\ stage = "evaluating" /\ ~HopPending
    /\ arg = "text" \/ (hook = "log" /\ arg = "empty")
    /\ ~RunIsOver /\ progressEvents < MaxProgressEvents
    /\ progressEvents' = progressEvents + 1
    /\ UNCHANGED <<runVars, callVars, disposal>>

----------------------------------------
(* agent(). *)

acquireSlot(a) ==
    IF activeSlots < MaxConcurrentAgents
    THEN /\ activeSlots' = activeSlots + 1
         /\ call' = [call EXCEPT ![a] = "granted"]
         /\ UNCHANGED slotWaiters
    ELSE /\ slotWaiters' = Append(slotWaiters, a)
         /\ call' = [call EXCEPT ![a] = "queued"]
         /\ UNCHANGED activeSlots

\* The bridge call: a refusal is only a reply.
agent(a, req) ==
    /\ stage \in {"evaluating", "over"} /\ ~HopPending
    /\ call[a] = "idle"
    /\ IF AgentRefusal(req) # "accepted"
       THEN /\ call' = [call EXCEPT ![a] = "done"]
            /\ reply' = [reply EXCEPT ![a] = AgentRefusal(req)]
            /\ UNCHANGED <<structured, started, activeSlots, slotWaiters>>
       ELSE /\ started' = started + 1
            /\ structured' = IF AsksForSchema(req.opts) THEN structured \cup {a} ELSE structured
            /\ acquireSlot(a)
            /\ UNCHANGED reply
    /\ UNCHANGED <<runVars, child, event, progressEvents, disposal>>

\* With its slot, the call starts a child unless the run is over.
startChild(a) ==
    /\ call[a] = "granted"
    /\ IF RunIsOver
       THEN /\ call' = [call EXCEPT ![a] = "leaving"]
            /\ reply' = [reply EXCEPT ![a] = "CANCELLED"]
       ELSE /\ call' = [call EXCEPT ![a] = "starting"]
            /\ UNCHANGED reply
    /\ UNCHANGED <<runVars, activeSlots, slotWaiters, structured, started, child, event,
                   progressEvents, disposal>>

\* The child is registered; one that starts after the run ended is disposed
\* of, unannounced.
ChildStarts(a) ==
    /\ call[a] = "starting"
    /\ IF RunIsOver
       THEN /\ child' = [child EXCEPT ![a] = "disposing"]
            /\ call' = [call EXCEPT ![a] = "leaving"]
            /\ reply' = [reply EXCEPT ![a] = "CANCELLED"]
       ELSE /\ child' = [child EXCEPT ![a] = "registered"]
            /\ call' = [call EXCEPT ![a] = "returned"]
            /\ UNCHANGED reply
    /\ UNCHANGED <<runVars, activeSlots, slotWaiters, structured, started, event, progressEvents, disposal>>
StartFails(a) ==
    /\ call[a] = "starting"
    /\ call' = [call EXCEPT ![a] = "leaving"]
    /\ reply' = [reply EXCEPT ![a] = IF cancelled THEN "CANCELLED" ELSE "AGENT_START"]
    /\ UNCHANGED <<runVars, activeSlots, slotWaiters, structured, started, child, event,
                   progressEvents, disposal>>

\* agent-start, after startChild has returned.
agentStart(a) ==
    /\ call[a] = "returned"
    /\ call' = [call EXCEPT ![a] = "running"]
    /\ event' = [event EXCEPT ![a] = "started"]
    /\ UNCHANGED <<runVars, activeSlots, slotWaiters, structured, reply, started, child,
                   progressEvents, disposal>>

\* The child's result: a completion with a "text", with a "structured" result
\* or with one that is "tooLarge" for a reply; any other end; or a rejection.
Unstructured(a, result) == a \in structured /\ result = "text"
Outcome(a, result) ==
    IF result \in {"text", "structured", "tooLarge"}
    THEN IF Unstructured(a, result) THEN "failed" ELSE "completed"
    ELSE IF cancelled THEN "cancelled" ELSE "failed"
ReplyTo(a, result) ==
    CASE result = "tooLarge" -> "AGENT_RESULT"
      [] result \in {"text", "structured"} -> IF Unstructured(a, result) THEN "null" ELSE "value"
      [] result = "other" -> IF cancelled THEN "CANCELLED" ELSE "null"
      [] result = "rejected" -> IF cancelled THEN "CANCELLED" ELSE "AGENT_RESULT"
ChildEnds(a, result) ==
    /\ call[a] = "running"
    /\ event' = endAgents({a}, Outcome(a, result))
    /\ reply' = [reply EXCEPT ![a] = ReplyTo(a, result)]
    /\ child' = disposeChildren({a})
    /\ call' = [call EXCEPT ![a] = "leaving"]
    /\ UNCHANGED <<runVars, activeSlots, slotWaiters, structured, started, progressEvents, disposal>>

\* A disposal ends, well or badly.
ChildDisposed(a) ==
    /\ child[a] = "disposing"
    /\ child' = [child EXCEPT ![a] = "gone"]
    /\ UNCHANGED <<runVars, slotVars, structured, reply, started, event, progressEvents, disposal>>

\* A released slot is taken over by the first waiter in the same step, before
\* anyone else can look at the counter.
releaseSlot(a) ==
    /\ MayRelease(a)
    /\ IF slotWaiters = <<>>
       THEN /\ activeSlots' = activeSlots - 1
            /\ call' = [call EXCEPT ![a] = "done"]
            /\ UNCHANGED slotWaiters
       ELSE /\ slotWaiters' = Tail(slotWaiters)
            /\ call' = [call EXCEPT ![a] = "done", ![Head(slotWaiters)] = "granted"]
            /\ UNCHANGED activeSlots
    /\ UNCHANGED <<runVars, structured, reply, started, child, event, progressEvents, disposal>>

----------------------------------------
\* What the subagents do comes when it likes, but not between the handlers of
\* an evaluation: the isolate's answer is a message, with nothing else due.
WorkflowNext ==
    \/ \E req \in StartRequests, aborted \in BOOLEAN : start(req, aborted)
    \/ beginCancelled \/ \E loads \in BOOLEAN : begin(loads)
    \/ cancel \/ GraceExpires \/ finish
    \/ \E outcome \in {"plain", "notPlain", "tooLarge", "thrown"} : Evaluated(outcome)
    \/ dispose \/ DisposeResolves \/ DisposeExpires
    \/ \E hook \in {"phase", "log"}, arg \in {"text", "empty", "other"} : Progress(hook, arg)
    \/ \E a \in Agents :
         \/ \E req \in AgentRequests : agent(a, req)
         \/ startChild(a) \/ agentStart(a) \/ releaseSlot(a)
         \/ /\ stage # "decided"
            /\ \/ ChildStarts(a) \/ StartFails(a) \/ ChildDisposed(a)
               \/ \E result \in {"text", "structured", "tooLarge", "other", "rejected"} : ChildEnds(a, result)

\* The platform runs microtasks and timers; children end once their signal is
\* aborted, and so do starts and disposals.
WorkflowFairness ==
    /\ WF_workflowVars(beginCancelled \/ \E loads \in BOOLEAN : begin(loads))
    /\ WF_workflowVars(stage = "rejected" /\ Evaluated("thrown"))
    /\ WF_workflowVars(finish) /\ WF_workflowVars(GraceExpires)
    /\ WF_workflowVars(DisposeResolves \/ DisposeExpires)
    /\ \A a \in Agents :
         /\ WF_workflowVars(startChild(a) \/ agentStart(a) \/ releaseSlot(a))
         /\ WF_workflowVars(stage # "decided" /\ childAbort /\ (ChildStarts(a) \/ StartFails(a)))
         /\ WF_workflowVars(stage # "decided" /\ childAbort /\ \E r \in {"other", "rejected"} : ChildEnds(a, r))
         /\ WF_workflowVars(stage # "decided" /\ ChildDisposed(a))

WorkflowSpec == WorkflowInit /\ [][WorkflowNext]_workflowVars /\ WorkflowFairness

----------------------------------------
Codes == {"CANCELLED", "INVALID_ARGUMENT", "UNSUPPORTED_OPTION", "UNSUPPORTED_SCHEMA",
          "AGENT_CAP", "AGENT_START", "AGENT_RESULT"}

WorkflowTypeOK ==
    /\ stage \in {"none", "created", "evaluating", "rejected", "decided", "over", "unloaded"}
    /\ verdict \in {"none", "completed", "error", "cancelled"} /\ isolate \in BOOLEAN
    /\ cap \in 0..MaxTotalAgents
    /\ settled \in {"no", "completed", "error", "cancelled"}
    /\ cancelled \in BOOLEAN /\ graceTimer \in BOOLEAN /\ childAbort \in BOOLEAN
    /\ call \in [Agents -> {"idle", "queued", "granted", "starting", "returned", "running",
                            "leaving", "done"}]
    /\ structured \subseteq Agents /\ reply \in [Agents -> {"none", "value", "null"} \cup Codes]
    /\ started \in 0..cap /\ activeSlots \in 0..MaxConcurrentAgents
    /\ slotWaiters \in Seq(Agents)
    /\ child \in [Agents -> {"none", "registered", "disposing", "gone"}]
    /\ event \in [Agents -> {"none", "started", "completed", "failed", "cancelled"}]
    /\ progressEvents \in 0..MaxProgressEvents
    /\ disposal \in {"none", "waiting", "quiet", "timedOut"}

Holders == {a \in Agents : call[a] \in {"granted", "starting", "returned", "running", "leaving"}}

\* A slot belongs to exactly the calls between acquireSlot and releaseSlot, and
\* nobody waits while a slot is free, although slots are handed over, waiters
\* are rejected by a cancellation and calls end on six paths.
WorkflowSlots ==
    /\ activeSlots = Cardinality(Holders)
    /\ ToSet(slotWaiters) = {a \in Agents : call[a] = "queued"}
    /\ Len(slotWaiters) = Cardinality(ToSet(slotWaiters))
    /\ slotWaiters # <<>> => activeSlots = MaxConcurrentAgents /\ ~cancelled

\* Once the result is settled every announced agent has its agent-end, and no
\* child is announced afterwards, also when a start was under way.
EventsPaired == settled # "no" => \A a \in Agents : event[a] # "started"

\* A disposal that did not run out of time leaves no child and no start that
\* could still become one, whatever calls were waiting or in flight.
QuietAfterDispose == disposal = "quiet" => Quiet(Children, PendingStarts)

\* Every call that is over has its answer, and the answer and agent-end of a
\* child agree: but for an agent that a settled run had already ended, a value
\* comes with "completed" and null with "failed", and "CANCELLED" is only said
\* of a run that is over.
RepliesAreTrue == \A a \in Agents :
    /\ call[a] \in {"leaving", "done"} <=> reply[a] # "none"
    /\ reply[a] = "value" /\ event[a] # "cancelled" => event[a] = "completed"
    /\ reply[a] = "null" /\ event[a] # "cancelled" => event[a] = "failed"
    /\ reply[a] = "CANCELLED" => RunIsOver
    /\ reply[a] = "AGENT_RESULT" => event[a] # "none"

\* No isolate outlives its run: neither a cancelled one nor one whose result
\* is settled, on the paths where it never loaded too.
IsolateEnds == RunIsOver => ~isolate

\* A workflow run counts its slots, pairs its agents' events, answers its
\* calls truly, and is quiet once it is disposed (edge-workflow-engine.ts).
WorkflowIsExact ==
    /\ WorkflowTypeOK /\ WorkflowSlots /\ EventsPaired /\ QuietAfterDispose
    /\ RepliesAreTrue /\ IsolateEnds

\* The result settles once and an agent ends once.
SettlesOnce ==
    [][/\ settled # "no" => settled' = settled
       /\ \A a \in Agents : event[a] \notin {"none", "started"} => event'[a] = event[a]]_workflowVars

\* A cancelled run settles although its evaluation never notices, and a run
\* that settled gives back every slot and every child.
CancelSettles == <>[](cancelled => settled # "no")
SettledDrains ==
    <>[](settled # "no" => activeSlots = 0 /\ slotWaiters = <<>> /\ Children = {})
==============================================================================
