--------------------------- MODULE SessionBarrier ---------------------------
(***************************************************************************)
(* What session persistence promises to the code that publishes events:    *)
(* a live session's events reach the log in order, some time after they    *)
(* are emitted, and a flush that succeeds covers every event emitted       *)
(* before it was called - unless the session had been detached, when a     *)
(* flush covers nothing.  SessionLog implements this module, and           *)
(* SessionDelivery is written against it.                                  *)
(*                                                                         *)
(* Events are numbered in the order of their emission; a number is never   *)
(* used again, not even for an event that takes the sequence number of a   *)
(* lost one.                                                               *)
(***************************************************************************)
EXTENDS Integers, Sequences, SequencesExt, FiniteSets

CONSTANTS
    MaxEvents,  \* bound on the events emitted
    Callers,    \* those who may await a flush
    None

Events == 1..MaxEvents

ASSUME BarrierAssumption == MaxEvents \in Nat

VARIABLES
    born,       \* the number of events emitted so far
    stored,     \* the events in the log
    attached,   \* the session is live: it emits and is flushed
    mem,        \* the events of the live session, or of one being closed
    promise     \* the flush of each caller: what it owes and how it stands, or None

barrierVars == <<born, stored, attached, mem, promise>>

BarrierTypeOK ==
    /\ born \in 0..MaxEvents
    /\ stored \in SUBSET (1..born)
    /\ attached \in BOOLEAN
    /\ mem \in Seq(1..born)
    /\ \A c \in Callers : promise[c] = None \/
          promise[c] \in [owed : SUBSET (1..born), st : {"waiting", "resolved", "rejected"}]

BarrierInit ==
    /\ \E n \in 0..MaxEvents : born = n /\ stored \in SUBSET (1..n)
    /\ attached = FALSE
    /\ mem = <<>>
    /\ promise = [c \in Callers |-> None]

\* The log takes over a prefix of what the session has emitted.
Write == \E n \in 0..Len(mem) : stored' = stored \cup ToSet(SubSeq(mem, 1, n))

Store == Write /\ UNCHANGED <<born, attached, mem, promise>>

\* A session is opened on the log, with all its events in their order.
Attach ==
    /\ ~attached /\ mem = <<>>
    /\ attached' = TRUE
    /\ mem' \in [1..Cardinality(stored) -> stored]
    /\ \A i, j \in DOMAIN mem' : i < j => mem'[i] < mem'[j]
    /\ UNCHANGED <<born, stored, promise>>

Emit ==
    /\ attached /\ born < MaxEvents
    /\ born' = born + 1
    /\ mem' = Append(mem, born + 1)
    /\ UNCHANGED <<stored, attached, promise>>

Call(c) ==
    /\ promise[c] = None
    /\ promise' = [promise EXCEPT ![c] =
                     [owed |-> IF attached THEN ToSet(mem) ELSE {}, st |-> "waiting"]]
    /\ Write
    /\ UNCHANGED <<born, attached, mem>>

\* Flushes are settled: those that resolve have what they owe in the log.
Outcomes(p) ==
    {p} \cup IF p = None \/ p.st # "waiting" THEN {}
             ELSE {[p EXCEPT !.st = "rejected"]}
                  \cup IF p.owed \subseteq stored THEN {[p EXCEPT !.st = "resolved"]} ELSE {}

Settled ==
    /\ promise' \in [Callers -> UNION {Outcomes(promise[c]) : c \in Callers}]
    /\ \A c \in Callers : promise'[c] \in Outcomes(promise[c])

Settle == Settled /\ UNCHANGED <<born, stored, attached, mem>>

\* The caller learns of it.
Return(c) ==
    /\ promise[c] # None
    /\ promise[c].st # "waiting"
    /\ promise' = [promise EXCEPT ![c] = None]
    /\ UNCHANGED <<born, stored, attached, mem>>

\* The session is detached, and later gives up what it could not write.
Detach ==
    /\ attached
    /\ attached' = FALSE
    /\ Write /\ Settled
    /\ UNCHANGED <<born, mem>>

Retire ==
    /\ ~attached
    /\ mem' = <<>>
    /\ UNCHANGED <<born, stored, attached, promise>>

\* No session holds the log: it may be repaired, or continued by its opener.
Rewrite ==
    /\ ~attached /\ mem = <<>>
    /\ born' \in {born, born + 1}
    /\ stored' \subseteq 1..born'
    /\ UNCHANGED <<attached, mem, promise>>

Crash ==
    /\ attached' = FALSE
    /\ mem' = <<>>
    /\ promise' = [c \in Callers |-> None]
    /\ UNCHANGED <<born, stored>>

BarrierNext ==
    \/ Store \/ Attach \/ Emit \/ Retire \/ Rewrite \/ Crash
    \/ \E c \in Callers : Call(c) \/ Return(c)
    \/ Settle \/ Detach

BarrierSpec == BarrierInit /\ [][BarrierNext]_barrierVars
=============================================================================
