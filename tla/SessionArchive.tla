--------------------------- MODULE SessionArchive ---------------------------
(***************************************************************************)
(* The download of a session's log (edge-session-log-export.ts): one ZIP   *)
(* of the log, the logs of its subagents and the attachments those name,   *)
(* produced a page at a time while the sessions go on, against a client    *)
(* that reads, stalls or goes away.  One download; an event is the         *)
(* attachment it names, or Plain; a chunk of the response is one unit.     *)
(***************************************************************************)
EXTENDS Naturals, Sequences, SequencesExt, FiniteSetsExt

CONSTANTS
  Family,            \* session ids, as naturals
  Head0,             \* the session downloaded
  ParentOf,          \* id -> parent, for the others
  Named, Plain,      \* attachments, and the event that names none
  MaxLogged,         \* bound on the events of all logs together
  HighWater          \* chunks queued before production waits

ASSUME ArchiveSetting ==
  /\ Family \subseteq Nat /\ IsFiniteSet(Family) /\ Head0 \in Family
  /\ HighWater \in Nat \ {0}

VARIABLES
  born,      \* sessions of the corpus
  held, saved,         \* id -> events of the live log; the stored prefix's length
  asked,     \* what the logs held when the download was asked for
  producer,  \* [at, then, todo, tree, log, upto, refs, left]
  parked,    \* the producer waits in ResponseCapacityGate
  stream,    \* "none", "open", "closed", "errored" or "cancelled"
  stopped,   \* the request's or the consumer's signal is aborted
  queued, out          \* chunks not yet read; the archive's entries
archiveVars == <<born, held, saved, asked, producer, parked, stream, stopped, queued, out>>

Idle == [at |-> "none", then |-> "none", todo |-> <<>>, tree |-> {},
         log |-> Head0, upto |-> 0, refs |-> <<>>, left |-> <<>>]

ArchiveInit ==
  /\ born = {Head0} /\ held = [s \in Family |-> <<>>] /\ saved = [s \in Family |-> 0]
  /\ asked = held /\ producer = Idle /\ parked = FALSE
  /\ stream = "none" /\ stopped = FALSE /\ queued = 0 /\ out = <<>>

corpus == <<born, held, saved>>
download == <<asked, producer, parked, stream, stopped, queued, out>>

\* The sessions go on: a subagent starts, an event is recorded, a log is saved.
Spawn(s) ==
  /\ s \in Family \ born /\ ParentOf[s] \in born /\ born' = born \cup {s}
  /\ UNCHANGED <<held, saved, download>>
Record(s, e) ==
  /\ s \in born /\ MapThenSumSet(LAMBDA t : Len(held[t]), Family) < MaxLogged
  /\ held' = [held EXCEPT ![s] = Append(@, e)]
  /\ UNCHANGED <<born, saved, download>>
SaveLog(s) ==
  /\ saved' = [saved EXCEPT ![s] = Len(held[s])] /\ saved' # saved
  /\ UNCHANGED <<born, held, download>>

----------------------------------------
(* The producer. *)

flushed(s) == saved' = [saved EXCEPT ![s] = Len(held[s])]

sessionLogExportResponse ==
  /\ stream = "none" /\ stream' = "open" /\ asked' = held
  /\ flushed(Head0)
  /\ producer' = [Idle EXCEPT !.at = "header"]
  /\ out' = <<[kind |-> "log", id |-> Head0, events |-> <<>>]>>
  /\ UNCHANGED <<born, held, parked, stopped, queued>>

\* One push into the ZIP, and the wait behind it when the queue is full; a
\* push refuses once either signal is aborted.
Working(at) == stream # "none" /\ producer.at = at
waitUnlessFull == queued' >= HighWater
push(then) ==
  /\ queued' = queued + 1
  /\ parked' = waitUnlessFull
  /\ producer' = [producer EXCEPT !.at = "gate", !.then = then]
Passes ==                                             \* wait() returned
  /\ Working("gate") /\ ~parked /\ ~stopped
  /\ producer' = [producer EXCEPT !.at = producer.then, !.then = "none"]
  /\ UNCHANGED <<corpus, asked, parked, stream, stopped, queued, out>>

HeaderLine ==
  /\ Working("header") /\ ~stopped /\ push("firstPage")
  /\ UNCHANGED <<corpus, asked, stream, stopped, out>>
\* The log is pinned when its first page is read.
PinLog ==
  /\ Working("firstPage") /\ ~stopped
  /\ producer' = [producer EXCEPT !.at = "page", !.upto = saved[producer.log]]
  /\ UNCHANGED <<corpus, asked, parked, stream, stopped, queued, out>>
collectEventAttachmentRefs(e, refs) ==
  IF e = Plain \/ Contains(refs, e) THEN refs ELSE Append(refs, e)
Written == Last(out).events
WritePage ==
  /\ Working("page") /\ ~stopped /\ Len(Written) < producer.upto
  /\ LET e == held[producer.log][Len(Written) + 1] IN
     /\ out' = [out EXCEPT ![Len(out)].events = Append(@, e)]
     /\ queued' = queued + 1 /\ parked' = waitUnlessFull
     /\ producer' = [producer EXCEPT !.at = "gate", !.then = "page",
                                     !.refs = collectEventAttachmentRefs(e, @)]
  /\ UNCHANGED <<corpus, asked, stream, stopped>>
LogEnds ==
  /\ Working("page") /\ ~stopped /\ Len(Written) = producer.upto
  /\ push(IF producer.log = Head0 /\ producer.tree = {} THEN "lineage" ELSE "child")
  /\ UNCHANGED <<corpus, asked, stream, stopped, out>>

\* The lineage is read once, after the root's log; children in id order.
InOrder(S) ==
  CHOOSE q \in [1..Cardinality(S) -> S] : \A i, j \in 1..Cardinality(S) : i < j => q[i] < q[j]
ChildrenOf(s, tree) == InOrder({t \in tree \ {Head0} : ParentOf[t] = s})
descendants ==
  /\ Working("lineage") /\ ~stopped
  /\ producer' = [producer EXCEPT !.at = "child", !.tree = born,
                                  !.todo = ChildrenOf(Head0, born)]
  /\ UNCHANGED <<corpus, asked, parked, stream, stopped, queued, out>>
collect ==
  /\ Working("child") /\ ~stopped /\ producer.todo # <<>>
  /\ LET s == Head(producer.todo) IN
     /\ flushed(s)
     /\ producer' = [producer EXCEPT !.at = "header", !.log = s, 
                                     !.todo = ChildrenOf(s, producer.tree) \o Tail(@)]
     /\ out' = Append(out, [kind |-> "log", id |-> s, events |-> <<>>])
  /\ UNCHANGED <<born, held, asked, parked, stream, stopped, queued>>

\* The attachments follow the logs that name them; then the archive ends.
Attached ==
  /\ Working("child") /\ ~stopped /\ producer.todo = <<>>
  /\ producer' = [producer EXCEPT !.at = "attachment", !.left = producer.refs]
  /\ UNCHANGED <<corpus, asked, parked, stream, stopped, queued, out>>
readAttachment ==
  /\ Working("attachment") /\ ~stopped /\ producer.left # <<>>
  /\ out' = Append(out, [kind |-> "attachment", id |-> Head(producer.left), events |-> <<>>])
  /\ queued' = queued + 1 /\ parked' = waitUnlessFull
  /\ producer' = [producer EXCEPT !.at = "gate", !.then = "attachment", !.left = Tail(@)]
  /\ UNCHANGED <<corpus, asked, stream, stopped>>
archiveEnd ==
  /\ Working("attachment") /\ ~stopped /\ producer.left = <<>>
  /\ producer' = [producer EXCEPT !.at = "done"]
  /\ stream' = IF stream = "open" THEN "closed" ELSE stream
  /\ UNCHANGED <<corpus, asked, parked, stopped, queued, out>>

\* A read or a push fails, because the storage does or a signal is aborted:
\* the stream errors, unless it is over already.
terminateZip == IF stream = "open" THEN "errored" ELSE stream
ProductionFails ==
  /\ \/ producer.at \in {"header", "firstPage", "page", "lineage", "child", "attachment"}
     \/ producer.at = "gate" /\ ~parked /\ stopped
  /\ producer' = [producer EXCEPT !.at = "done"]
  /\ stream' = terminateZip
  /\ UNCHANGED <<corpus, asked, parked, stopped, queued, out>>

----------------------------------------
(* The client. *)

pulled == parked /\ queued' >= HighWater
Reads ==
  /\ stream \in {"open", "closed"} /\ queued > 0 /\ queued' = queued - 1
  /\ parked' = pulled
  /\ UNCHANGED <<corpus, asked, producer, stream, stopped, out>>
released == FALSE
ClientLeaves ==
  /\ stream = "open" /\ ~stopped /\ stopped' = TRUE
  /\ stream' \in {"open", "cancelled"}                 \* request.signal, or cancel() too
  /\ parked' = released /\ queued' = IF stream' = "open" THEN queued ELSE 0
  /\ UNCHANGED <<corpus, asked, producer, out>>

Produces ==
  \/ Passes \/ HeaderLine \/ PinLog \/ WritePage \/ LogEnds \/ descendants
  \/ collect \/ Attached \/ readAttachment \/ archiveEnd \/ ProductionFails
ArchiveNext ==
  \/ sessionLogExportResponse \/ Produces \/ Reads \/ ClientLeaves
  \/ \E s \in Family : Spawn(s) \/ SaveLog(s) \/ \E e \in Named \cup {Plain} : Record(s, e)
ArchiveSpec == ArchiveInit /\ [][ArchiveNext]_archiveVars

\* The producer goes on when it can, and a client reads what is there until it
\* leaves: one that stalls for ever holds the download open by design.
ArchiveFairness == WF_archiveVars(Produces) /\ WF_archiveVars(Reads)

----------------------------------------
Logs == {i \in DOMAIN out : out[i].kind = "log"}

\* An archive that ends as a whole one holds every log of the lineage once,
\* each with all it held when the download was asked for, saved or not, and
\* every attachment its events name, after the logs ("never with a partial
\* archive that looks complete").
ClosedIsWhole ==
  stream = "closed" =>
    /\ \A s \in Family : asked[s] # <<>> => \E i \in Logs : out[i].id = s
    /\ \A i, j \in Logs : out[i].id = out[j].id => i = j
    /\ \A i \in Logs : IsPrefix(asked[out[i].id], out[i].events)
    /\ \A i \in Logs : \A k \in DOMAIN out[i].events :
         out[i].events[k] # Plain =>
           \E j \in DOMAIN out : j > i /\ out[j].kind = "attachment" /\ out[j].id = out[i].events[k]

\* Production stays within one chunk of the high-water mark, however long the
\* logs are and however slowly the client reads (ResponseCapacityGate).
QueueIsBounded == queued <= HighWater

\* A download that is read or given up ends, and nothing goes on producing
\* behind it.
DownloadsSettle == []<>(stream = "none" \/ (stream # "open" /\ producer.at = "done"))
=============================================================================
