--------------------------- MODULE SessionDelivery ---------------------------
(***************************************************************************)
(* How the events of a session reach the WebSockets: the batching queues   *)
(* of durable-event-delivery.ts and their uses in session-store.ts - one   *)
(* queue per turn, one for events outside turns ("late"), and the baseline *)
(* of a new subscriber.                                                    *)
(*                                                                         *)
(* Persistence is the SessionBarrier this module extends: a flush is a     *)
(* Call and a promise that resolves or rejects.  A restart empties all of  *)
(* this module's state, so one life of the process is modelled.            *)
(***************************************************************************)
EXTENDS SessionBarrier

CONSTANTS
    Late,       \* the queue of late events; the other Callers are turns
    MaxLives    \* bound on the times the session is attached

Turns == Callers \ {Late}

ASSUME DeliveryAssumption == Late \in Callers

VARIABLES
    q,          \* per Caller, its DurableEventDeliveryQueue
    lateOpen,   \* lateEventDeliveries has an entry
    unsettled,  \* unsettledEventDeliveries
    drain,      \* the drain() calls: a turn's of the late queue, a turn's of
                \* its own, a baseline's of each queue
    phase,      \* per turn, where runAgentTurn stands
    lives,      \* times the session was attached: identity of its object
    mux,        \* None, or what withMuxBaseline saw before it drained
    \* History.
    delivered,  \* the events sent to the sockets, in this order
    baseline,   \* None, or [covers, at]: the new socket's baseline
    unsaved,    \* events a detached session had not written
    leftover,   \* events a turn left in its queue
    dropped     \* events a failed queue has discarded

deliveryVars == <<q, lateOpen, unsettled, drain, phase, lives, mux,
                  delivered, baseline, unsaved, leftover, dropped>>

----------------------------------------
(* One queue.  work is the chain of scheduled batches, step where the      *)
(* first of them stands.                                                   *)

NewQueue == [pending |-> <<>>, timer |-> FALSE, work |-> <<>>, step |-> "idle",
             failed |-> FALSE, revision |-> 0]

schedulePending(r) ==
    IF r.failed \/ r.pending = <<>> THEN r
    ELSE [r EXCEPT !.work = Append(@, r.pending), !.pending = <<>>,
                   !.step = IF r.work = <<>> THEN "start" ELSE @]

Hurried(r) == schedulePending([r EXCEPT !.timer = FALSE])

enqueue(r, e, immediate) ==
    IF r.failed THEN r
    ELSE LET accepted == [r EXCEPT !.revision = @ + 1, !.pending = Append(@, e), !.timer = TRUE]
         IN IF immediate THEN Hurried(accepted) ELSE accepted

BatchDone(r) == [r EXCEPT !.work = Tail(@), !.step = IF Len(r.work) = 1 THEN "idle" ELSE "start"]

\* A timer it has set fires in vain.
Failed(r) == [r EXCEPT !.failed = TRUE, !.timer = FALSE, !.pending = <<>>, !.work = <<>>, !.step = "idle"]

Quiet(r) == r.work = <<>> /\ r.pending = <<>> /\ ~r.timer

Holds(r) == (UNION {ToSet(r.work[i]) : i \in DOMAIN r.work}) \cup ToSet(r.pending)

----------------------------------------
(* Drains.  togo counts the batches of the chain that drain() awaits. *)

Prior(t) == <<"prior", t>>
Own(t)   == <<"own", t>>
Base(k)  == <<"base", k>>
Drains == {Prior(t) : t \in Turns} \cup {Own(t) : t \in Turns} \cup {Base(k) : k \in Callers}
Drained(d) == IF d[1] = "prior" THEN Late ELSE d[2]

NoDrain == [st |-> "no", togo |-> 0]
DrainOf(r) == [st |-> "waits", togo |-> Len(r.work)]
Settles(st) == [st |-> st, togo |-> 0]

\* A batch of queue k is over; the late queue, once quiet, is dropped, and
\* its drains are through.
AfterBatch(k, gone) ==
    drain' = [d \in Drains |->
                IF Drained(d) # k \/ drain[d].st # "waits" THEN drain[d]
                ELSE IF gone THEN Settles("ok")
                ELSE [drain[d] EXCEPT !.togo = IF @ = 0 THEN 0 ELSE @ - 1]]

\* The await in drain() is over: it throws, returns, or goes round again.
DrainGoesOn(d) ==
    LET k == Drained(d) IN
    /\ drain[d].st = "waits" /\ drain[d].togo = 0
    /\ IF q[k].failed THEN drain' = [drain EXCEPT ![d] = Settles("failed")] /\ UNCHANGED q
       ELSE IF Quiet(q[k]) THEN drain' = [drain EXCEPT ![d] = Settles("ok")] /\ UNCHANGED q
       ELSE /\ q' = [q EXCEPT ![k] = Hurried(@)]
            /\ drain' = [drain EXCEPT ![d] = DrainOf(q'[k])]
    /\ UNCHANGED <<barrierVars, lateOpen, unsettled, phase, lives, mux,
                   delivered, baseline, unsaved, leftover, dropped>>

----------------------------------------
(* A batch: start, flush, deliver. *)

timerFires(k) ==
    /\ q[k].timer
    /\ q' = [q EXCEPT ![k] = Hurried(@)]
    /\ UNCHANGED <<barrierVars, lateOpen, unsettled, drain, phase, lives, mux,
                   delivered, baseline, unsaved, leftover, dropped>>

\* A turn's flush waits for the late events before it, and fails with them.
PriorSettled(k) == k \in Turns => drain[Prior(k)].st \in {"ok", "failed"}
PriorFailed(k)  == k # Late /\ drain[Prior(k)].st = "failed"

PriorIgnored(k) == TRUE       \* mutant: the turn does not wait
PriorAwaited(k) == PriorSettled(k)

flushBegins(k) ==
    /\ q[k].step = "start" /\ PriorAwaited(k) /\ ~PriorFailed(k)
    /\ Call(k)
    /\ q' = [q EXCEPT ![k].step = "flush"]
    /\ UNCHANGED <<lateOpen, unsettled, drain, phase, lives, mux,
                   delivered, baseline, unsaved, leftover, dropped>>

FlushOver(k) == promise[k].st # "waiting"    \* mutant: a rejection is ignored
FlushSucceeded(k) == promise[k].st = "resolved"

flushResolves(k) ==
    /\ q[k].step = "flush" /\ FlushSucceeded(k)
    /\ Return(k)
    /\ q' = [q EXCEPT ![k].step = "deliver"]
    /\ UNCHANGED <<lateOpen, unsettled, drain, phase, lives, mux,
                   delivered, baseline, unsaved, leftover, dropped>>

\* The queue fails for good.  It stays where it is listed.
QueueFails(k) ==
    /\ q' = [q EXCEPT ![k] = Failed(@)]
    /\ drain' = [d \in Drains |-> IF Drained(d) = k THEN [drain[d] EXCEPT !.togo = 0] ELSE drain[d]]
    /\ dropped' = dropped \cup Holds(q[k])
    /\ UNCHANGED <<lateOpen, unsettled, phase, lives, mux, delivered, baseline, unsaved, leftover>>

flushRejects(k) ==
    /\ q[k].step = "flush" /\ promise[k].st = "rejected"
    /\ Return(k) /\ QueueFails(k)

priorRejects(k) ==
    /\ q[k].step = "start" /\ PriorFailed(k)
    /\ QueueFails(k) /\ UNCHANGED barrierVars

\* The last event of a batch ends it, and onIdle runs if nothing is left.
EndBatch(k) ==
    LET r == BatchDone(q[k]) IN
    /\ q' = [q EXCEPT ![k] = r]
    /\ unsettled' = IF Quiet(r) THEN unsettled \ {k} ELSE unsettled
    /\ lateOpen' = (lateOpen /\ ~(k = Late /\ Quiet(r)))
    /\ AfterBatch(k, k = Late /\ Quiet(r))

\* Late events are delivered in one loop, a turn's with an await after each.
deliver(k) ==
    LET batch == q[k].work[1] IN
    /\ q[k].step = "deliver"
    /\ IF k = Late \/ Len(batch) = 1
          THEN delivered' = delivered \o batch /\ EndBatch(k)
          ELSE /\ delivered' = Append(delivered, batch[1])
               /\ q' = [q EXCEPT ![k].work[1] = Tail(batch)]
               /\ UNCHANGED <<lateOpen, unsettled, drain>>
    /\ UNCHANGED <<barrierVars, phase, lives, mux, baseline, unsaved, leftover, dropped>>

----------------------------------------
(* Events. *)

Observing == {t \in Turns : phase[t] \notin {"no", "gone"}}   \* at most one

\* session/event, seen by the running turn or else by the late listener; an
\* immediate event is a title the limiter lets through.
emit ==
    /\ Emit
    /\ \E immediate \in BOOLEAN :
          LET k == IF Observing = {} THEN Late ELSE CHOOSE t \in Observing : TRUE IN
          /\ immediate => k = Late
          /\ q' = [q EXCEPT ![k] = enqueue(@, born', immediate)]
          /\ dropped' = IF q[k].failed THEN dropped \cup {born'} ELSE dropped
          /\ unsettled' = unsettled \cup {k}
          /\ lateOpen' = (lateOpen \/ k = Late)
    /\ UNCHANGED <<drain, phase, lives, mux, delivered, baseline, unsaved, leftover>>

----------------------------------------
(* A turn. *)

runAgentTurn(t) ==
    /\ attached /\ Observing = {} /\ phase[t] = "no"
    /\ phase' = [phase EXCEPT ![t] = "running"]
    /\ q' = IF lateOpen THEN [q EXCEPT ![Late] = Hurried(@)] ELSE q
    /\ drain' = [drain EXCEPT ![Prior(t)] = IF lateOpen THEN DrainOf(q'[Late]) ELSE Settles("ok")]
    /\ UNCHANGED <<barrierVars, lateOpen, unsettled, lives, mux,
                   delivered, baseline, unsaved, leftover, dropped>>

DrainOwn(t, next) ==
    /\ q' = [q EXCEPT ![t] = Hurried(@)]
    /\ drain' = [drain EXCEPT ![Own(t)] = DrainOf(q'[t])]
    /\ phase' = [phase EXCEPT ![t] = next]
    /\ UNCHANGED <<barrierVars, lateOpen, unsettled, lives, mux,
                   delivered, baseline, unsaved, leftover, dropped>>

\* The agent is idle and the turn closes.
turnCloses(t) == phase[t] = "running" /\ DrainOwn(t, "draining")

\* The finally block awaits both drains, whatever they give: after something in
\* the turn or the first drain threw, or after that drain, a flush and the
\* retirement of a selection.
turnEnds(t) ==
    /\ \/ phase[t] = "running"
       \/ phase[t] = "draining" /\ drain[Own(t)].st # "waits"
    /\ PriorSettled(t)
    /\ DrainOwn(t, "finally")

\* After the last drain and whenIdle.
stopObserving(t) ==
    /\ phase[t] = "finally" /\ drain[Own(t)].st # "waits"
    /\ phase' = [phase EXCEPT ![t] = "gone"]
    /\ drain' = [drain EXCEPT ![Own(t)] = NoDrain]
    /\ leftover' = leftover \cup Holds(q[t])
    /\ UNCHANGED <<barrierVars, q, lateOpen, unsettled, lives, mux,
                   delivered, baseline, unsaved, dropped>>

----------------------------------------
(* withMuxBaseline, for one new socket. *)

Snapshot == [live |-> IF attached THEN lives ELSE 0,
             deliveries |-> [k \in unsettled |-> q[k].revision]]

withMuxBaseline ==
    /\ mux = None /\ baseline = None
    /\ mux' = Snapshot
    /\ q' = [k \in Callers |-> IF k \in unsettled THEN Hurried(q[k]) ELSE q[k]]
    /\ drain' = [d \in Drains |-> IF d[1] = "base" /\ d[2] \in unsettled THEN DrainOf(q'[d[2]]) ELSE drain[d]]
    /\ UNCHANGED <<barrierVars, lateOpen, unsettled, phase, lives,
                   delivered, baseline, unsaved, leftover, dropped>>

Asked == {Base(k) : k \in Callers} \cap {d \in Drains : drain[d].st # "no"}
Forgotten == [d \in Drains |-> IF d[1] = "base" THEN NoDrain ELSE drain[d]]

\* One drain rejects, and so does the request; it may be repeated.
baselineFails ==
    /\ mux # None /\ mux' = None
    /\ \E d \in Asked : drain[d].st = "failed"
    /\ drain' = Forgotten
    /\ UNCHANGED <<barrierVars, q, lateOpen, unsettled, phase, lives,
                   delivered, baseline, unsaved, leftover, dropped>>

Unmoved == TRUE               \* mutant: one round of drains is enough
Stable == mux = Snapshot

\* All drains are through: consume, or go round again.
baselineGoesOn ==
    /\ mux # None /\ mux' = None
    /\ \A d \in Asked : drain[d].st = "ok"
    /\ drain' = Forgotten
    /\ IF Stable
          THEN /\ baseline' = [covers |-> IF attached THEN ToSet(mem) ELSE stored, at |-> Len(delivered)]
               /\ unsettled' = {}
          ELSE UNCHANGED <<baseline, unsettled>>
    /\ UNCHANGED <<barrierVars, q, lateOpen, phase, lives, delivered, unsaved, leftover, dropped>>

----------------------------------------
(* Persistence, and the life of the session.  No turn runs on a session    *)
(* that is detached.                                                       *)

Persistence == (Store \/ Settle \/ Retire) /\ UNCHANGED deliveryVars

attach ==
    /\ lives < MaxLives /\ Attach
    /\ lives' = lives + 1
    /\ UNCHANGED <<q, lateOpen, unsettled, drain, phase, mux, delivered, baseline, unsaved, leftover, dropped>>

detach ==
    /\ Observing = {} /\ Detach
    /\ unsaved' = unsaved \cup (ToSet(mem) \ stored')
    /\ UNCHANGED <<q, lateOpen, unsettled, drain, phase, lives, mux, delivered, baseline, leftover, dropped>>

Init ==
    /\ BarrierInit /\ born = 0
    /\ q = [k \in Callers |-> NewQueue]
    /\ lateOpen = FALSE /\ unsettled = {}
    /\ drain = [d \in Drains |-> NoDrain]
    /\ phase = [t \in Turns |-> "no"]
    /\ lives = 0 /\ mux = None
    /\ delivered = <<>> /\ baseline = None
    /\ unsaved = {} /\ leftover = {} /\ dropped = {}

Next ==
    \/ \E k \in Callers :
          timerFires(k) \/ flushBegins(k) \/ flushResolves(k) \/ flushRejects(k)
             \/ priorRejects(k) \/ deliver(k)
    \/ \E d \in Drains : DrainGoesOn(d)
    \/ \E t \in Turns :
          runAgentTurn(t) \/ turnCloses(t) \/ turnEnds(t) \/ stopObserving(t)
    \/ withMuxBaseline \/ baselineFails \/ baselineGoesOn
    \/ emit \/ attach \/ detach \/ Persistence

Spec == Init /\ [][Next]_<<barrierVars, deliveryVars>>

----------------------------------------
(* Properties. *)

\* An event is in the log when a socket sees it, unless its session could not
\* write it before it was detached.
VisibleIsStored ==
    [][\A e \in ToSet(delivered') \ ToSet(delivered) : e \in stored' \cup unsaved]_<<barrierVars, deliveryVars>>

\* Sockets see each event once, and in order but for what a turn left in its
\* queue when it ended: late queues, turns, their flushes and drains overlap.
OvertakenIsLeftover ==
    \A j \in DOMAIN delivered : \A i \in 1..(j - 1) :
        \/ delivered[i] < delivered[j]
        \/ delivered[i] # delivered[j] /\ delivered[j] \in leftover

\* A new socket never receives an event its baseline covers.
BaselineBoundary ==
    baseline # None =>
        \A i \in (baseline.at + 1)..Len(delivered) : delivered[i] \notin baseline.covers

\* Both: sockets see events once and in order, and a new one none that its
\* baseline covers (durable-event-delivery.ts, session-store.ts).
DeliveryIsOrdered == OvertakenIsLeftover /\ BaselineBoundary

\* As the release notes have it: once an event was dropped, no later one is seen.
NothingPastMissing ==
    [][\A e \in ToSet(delivered') \ ToSet(delivered) : \A d \in dropped : e < d]_<<barrierVars, deliveryVars>>
=============================================================================
