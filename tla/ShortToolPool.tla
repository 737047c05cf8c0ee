---------------------------- MODULE ShortToolPool ----------------------------
(***************************************************************************)
(* The budget of short tool calls (short-tool-pool.ts).  A call's          *)
(* execution is cut where the code awaits: acquire returns through a       *)
(* microtask even when it took a free permit, and a woken waiter resumes   *)
(* in one, so both are "granted" until run goes on.  The name of a call    *)
(* that is over stands for a later call.                                   *)
(***************************************************************************)
EXTENDS Integers, FiniteSets, Sequences, SequencesExt

CONSTANTS
    Calls,          \* tool calls
    Long,           \* those whose tool is in LONG_TOOLS
    Parent,         \* the call that dispatched a call, or None
    Capacity,
    MaxWaiting,
    None

ASSUME CallsAssumption ==
    /\ Long \subseteq Calls /\ None \notin Calls
    /\ Parent \in [Calls -> Calls \cup {None}]
ASSUME PoolLimitsAssumption == Capacity \in Nat \ {0} /\ MaxWaiting \in Nat

VARIABLES
    call,       \* "idle", "queued", "granted", "executing"
    active,     \* permits taken
    waiting,    \* calls waiting for one
    permit,     \* calls that pool.run executes (the others bypass it)
    cancelled,  \* calls whose caller's signal aborted
    expired     \* calls whose execution deadline passed

poolVars == <<call, active, waiting, permit, cancelled, expired>>

Root(c) == Parent[c] = None

PoolInit ==
    /\ call = [c \in Calls |-> "idle"]
    /\ active = 0
    /\ waiting = <<>>
    /\ permit = {} /\ cancelled = {} /\ expired = {}

\* The call is over: its name is free.
Settle(c, f) == [f EXCEPT ![c] = "idle"]
Forget(c) ==
    /\ permit' = permit \ {c}
    /\ cancelled' = cancelled \ {c}
    /\ expired' = expired \ {c}

\* Nested dispatch runs under the signal of its root, which is executing; the
\* long tools wait for no permit.
Inherits(c) == ~Root(c) /\ call[Parent[c]] = "executing"
Bypasses(c) == Inherits(c) \/ c \in Long

Bypass(c) ==
    /\ call[c] = "idle" /\ (Root(c) \/ Inherits(c))
    /\ Bypasses(c)
    /\ call' = [call EXCEPT ![c] = "executing"]
    /\ UNCHANGED <<active, waiting, permit, cancelled, expired>>

\* A call behind a full queue fails at once, which changes nothing.
acquire(c) ==
    /\ call[c] = "idle" /\ (Root(c) \/ Inherits(c))
    /\ ~Bypasses(c)
    /\ \/ /\ active < Capacity
          /\ active' = active + 1
          /\ call' = [call EXCEPT ![c] = "granted"]
          /\ UNCHANGED waiting
       \/ /\ active >= Capacity
          /\ Len(waiting) < MaxWaiting
          /\ waiting' = Append(waiting, c)
          /\ call' = [call EXCEPT ![c] = "queued"]
          /\ UNCHANGED active
    /\ permit' = permit \cup {c}
    /\ UNCHANGED <<cancelled, expired>>

\* Mutant of release: last come, first served.
releaseToLast(c) ==
    IF waiting = <<>>
        THEN /\ active' = active - 1
             /\ call' = Settle(c, call)
             /\ UNCHANGED waiting
        ELSE /\ call' = [Settle(c, call) EXCEPT ![Last(waiting)] = "granted"]
             /\ waiting' = Front(waiting)
             /\ UNCHANGED active

\* The permit goes to the head of the line without being given back.
release(c) ==
    IF waiting = <<>>
        THEN /\ active' = active - 1
             /\ call' = Settle(c, call)
             /\ UNCHANGED waiting
        ELSE /\ call' = [Settle(c, call) EXCEPT ![Head(waiting)] = "granted"]
             /\ waiting' = Tail(waiting)
             /\ UNCHANGED active

\* run after acquire: the tool starts, unless its signal aborted meanwhile.
Resume(c) ==
    /\ call[c] = "granted"
    /\ IF c \in cancelled
        THEN release(c) /\ Forget(c)
        ELSE /\ call' = [call EXCEPT ![c] = "executing"]
             /\ UNCHANGED <<active, waiting, permit, cancelled, expired>>

Children(c) == {d \in Calls : Parent[d] = c /\ call[d] # "idle"}

\* The tool settles (with a result, an error, or its cleanup after an abort);
\* upstream awaits what it dispatched.
Finish(c) ==
    /\ call[c] = "executing" /\ Children(c) = {}
    /\ IF c \in permit THEN release(c)
                       ELSE call' = Settle(c, call) /\ UNCHANGED <<active, waiting>>
    /\ Forget(c)

\* A waiter leaves the line: its caller aborted, or its queue deadline passed.
Leave(c) ==
    /\ \E k \in DOMAIN waiting : waiting[k] = c /\ waiting' = RemoveAt(waiting, k)
    /\ call' = Settle(c, call)
    /\ Forget(c)
    /\ UNCHANGED active

QueueDeadline(c) == call[c] = "queued" /\ Leave(c)

Cancel(c) ==
    /\ call[c] # "idle" /\ c \notin cancelled
    /\ IF call[c] = "queued"
        THEN Leave(c)
        ELSE cancelled' = cancelled \cup {c} /\ UNCHANGED <<call, active, waiting, permit, expired>>

ExecutionDeadline(c) ==
    /\ call[c] = "executing" /\ c \in permit \ expired
    /\ expired' = expired \cup {c}
    /\ UNCHANGED <<call, active, waiting, permit, cancelled>>

\* The combined signal a tool sees; nested calls inherit their root's.
OwnAbort(c) == c \in cancelled \cup expired
Aborted(c) == OwnAbort(c) \/ (~Root(c) /\ OwnAbort(Parent[c]))

PoolNext ==
    \E c \in Calls : \/ Bypass(c) \/ acquire(c) \/ Resume(c) \/ Finish(c)
                     \/ QueueDeadline(c) \/ Cancel(c) \/ ExecutionDeadline(c)

PoolSpec == PoolInit /\ [][PoolNext]_poolVars

----------------------------------------
(* Properties. *)

Holders == {c \in permit : call[c] \in {"granted", "executing"}}

PoolTypeOK ==
    /\ call \in [Calls -> {"idle", "queued", "granted", "executing"}]
    /\ active \in Nat
    /\ waiting \in Seq(Calls)
    /\ permit \subseteq Calls /\ cancelled \subseteq Calls /\ expired \subseteq Calls

\* The counter is the number of calls that hold a permit, also across
\* hand-overs, cancelled waiters and calls aborted before they resumed.
\* A permit never lies idle while a call waits for one.
PermitsExact ==
    /\ active = Cardinality(Holders) /\ active <= Capacity
    /\ waiting # <<>> => active = Capacity

\* First come, first served: a waiter gets a permit only from the head of the
\* line, and no newcomer gets one before it.
FifoPermits ==
    [][\A c \in Calls :
            call'[c] = "granted" /\ call[c] # "granted"
                => waiting = <<>> \/ c = Head(waiting)]_poolVars

\* No deadlock on permits: a call that holds one never waits for a nested call
\* that waits for one.
HoldersCanFinish == \A c \in Holders : \A d \in Children(c) : call[d] # "queued"
==============================================================================
