----------------------------- MODULE SessionLog -----------------------------
(***************************************************************************)
(* The log of one session (do-session-persistence.ts): its header, event,  *)
(* summary and blank rows, the write handle with its buffer of live        *)
(* events, repair of a torn tail, migration and restart, and the pages of  *)
(* an export that run beside all of it.                                    *)
(*                                                                         *)
(* Storage calls are synchronous, so an action runs from one await to the  *)
(* next.  The drain of the live buffer is cut at each of its microtasks:   *)
(* "appended" and "rejected" are the await of appendBatch, "exited" and    *)
(* "threw" the gap until .finally clears `draining`.                       *)
(*                                                                         *)
(* A row is one event: packing consecutive stream chunks into one row is   *)
(* left out, and so is an old log over the migration limit, which every    *)
(* operation refuses.  Sessions share nothing here, so one is modelled.    *)
(***************************************************************************)
EXTENDS Integers, Sequences, SequencesExt, FiniteSets

CONSTANTS
    Kinds,      \* of "start", "end", "inbox", "title": turn/start, turn/end,
                \* agent/inbox/spliced, session/title
    MaxEvents,  \* bound on the events ever emitted
    MaxFaults,  \* bound on failing transactions
    MaxDamage,  \* bound on rows that become unparsable
    PageRows,   \* limits.rows of an export
    MaxExports, \* bound on the exports, 0 or 1
    Callers,    \* concurrent flushes
    NoRow

AllKinds == Kinds \cup {"unknown"}   \* not in KNOWN_SESSION_EVENT_TYPES

\* A row of the log, its summary, an event on its way to it, a flush under way
\* and what its caller is promised.
LogRow == [id : 1..MaxEvents, kind : AllKinds, torn : BOOLEAN]
SummaryRow == [rev : Int, last : Int, blank : BOOLEAN, title : Int,
               types : (SUBSET AllKinds) \cup {NoRow}]
BufferedEvent == [seq : Nat, id : 1..MaxEvents, kind : Kinds]
FlushCall == [at : {"drain", "flush", "closed"}, st : {"waiting", "ok", "err"},
              owed : SUBSET (1..MaxEvents)]
FlushPromise == [owed : SUBSET (1..MaxEvents), st : {"waiting", "resolved", "rejected"}]

ASSUME LogAssumption ==
    /\ Kinds \subseteq {"start", "end", "inbox", "title"}
    /\ MaxEvents \in Nat /\ PageRows \in Nat
    /\ NoRow \notin Int /\ \A K \in SUBSET AllKinds : NoRow # K
    /\ NoRow \notin SummaryRow \cup FlushCall \cup FlushPromise

VARIABLES
    \* Storage.
    header,     \* the revision of the dsh_sessions row, or NoRow
    version,    \* its format: "current" or "old"
    blankRow,   \* the dsh_edge_blank_sessions row exists
    rows,       \* dsh_session_events, the row of seq n at n + 1
    summary,    \* the dsh_session_summaries row, or NoRow
    \* Memory.
    up,         \* the object runs
    stage,      \* of the write handle: "none", "opened", "ready" (its log is
                \* read), "live" (a session is attached), "closing"
    materialized, buffer, through,  \* the handle's fields
    mem,        \* the events of the live session
    drain,      \* [phase, batch] of drainLiveBuffer
    closeWaits, \* close() awaits the drain
    call,       \* per caller, where its drainAndFlush stands, or NoRow
    export,     \* [state, got] of an export
    pin,        \* history: the rows the open or finished export pinned
    \* Counters of the bounds and of event identities.
    born, faults, damage

tables == <<header, version, blankRow, rows, summary>>
draining == <<buffer, drain, faults>>
exporting == <<export, pin>>
logVars == <<tables, up, stage, materialized, through, mem, draining, closeWaits,
          call, exporting, born, damage>>

----------------------------------------
(* Summaries. *)

KindsIn(rs) == {rs[i].kind : i \in DOMAIN rs}
LastOf(rs, k) == SelectLastInSeq(rs, LAMBDA r : r.kind = k) - 1   \* its seq, or -1

EmptyLogSummary == [rev |-> 0, last |-> -1, blank |-> TRUE, title |-> -1, types |-> {}]

\* SESSION_SUMMARY_SELECT over the stored rows; their types are recorded later.
recomputeSummary(rs, rev) ==
    [rev |-> rev, last |-> Len(rs) - 1, blank |-> "start" \notin KindsIn(rs),
     title |-> LastOf(rs, "title"), types |-> NoRow]

RepairedKeepingTypes(rs, rev) ==     \* mutant: the types of dropped rows stay
    [recomputeSummary(rs, rev) EXCEPT !.types = summary.types]
\* updateSummaryFromBatch with a reset: nothing is carried forward.
RepairedSummary(rs, rev) == recomputeSummary(rs, rev)

\* updateSummaryFromBatch of an append.
BatchSummary(batch, rev) ==
    LET old == IF summary = NoRow THEN [EmptyLogSummary EXCEPT !.types = NoRow] ELSE summary
        titles == LastOf(batch, "title")
    IN [rev |-> rev, last |-> Last(batch).seq,
        blank |-> old.blank /\ "start" \notin KindsIn(batch),
        title |-> IF titles = -1 THEN old.title ELSE batch[titles + 1].seq,
        types |-> IF old.types = NoRow THEN NoRow ELSE old.types \cup KindsIn(batch)]

----------------------------------------
(* appendBatch: one transaction, or nothing. *)

Contiguous(batch) == batch[1].seq = (IF summary = NoRow THEN -1 ELSE summary.last) + 1

appendBatch(batch) ==
    /\ Contiguous(batch)
    /\ header' = (IF header = NoRow THEN 0 ELSE header) + 1
    /\ rows' = rows \o [i \in DOMAIN batch |-> [id |-> batch[i].id, kind |-> batch[i].kind, torn |-> FALSE]]
    /\ blankRow' = FALSE
    /\ summary' = BatchSummary(batch, header')
    /\ UNCHANGED <<version, faults>>

AppendFails(batch) ==
    /\ ~Contiguous(batch) \/ faults < MaxFaults
    /\ faults' = IF Contiguous(batch) THEN faults + 1 ELSE faults
    /\ UNCHANGED tables

----------------------------------------
(* Start and end of the process. *)

LegacyRows == UNION {[1..n -> [id : {0}, kind : AllKinds, torn : {FALSE}]] : n \in 0..(MaxEvents - 2)}
Numbered(rs) == [i \in DOMAIN rs |-> [rs[i] EXCEPT !.id = i]]

\* What an earlier release may have left: nothing, a retained blank, or a log
\* whose summary is missing, current, or older than the log.  Only a newer
\* harness wrote unknown events.
LogInit ==
    /\ \E rs \in LegacyRows :
          /\ rows = Numbered(rs)
          /\ born = Len(rs)
          /\ header \in IF rs = <<>> THEN {NoRow, 0} ELSE {Len(rs)}
          /\ version \in IF header = NoRow \/ "unknown" \in KindsIn(rows)
                THEN {"current"} ELSE {"current", "old"}
          /\ blankRow \in IF header = NoRow THEN BOOLEAN ELSE {FALSE}
          /\ summary \in IF header = NoRow THEN {NoRow}
                ELSE {NoRow, recomputeSummary(rows, header), recomputeSummary(<<>>, -1)}
    /\ up = FALSE /\ stage = "none"
    /\ materialized = FALSE /\ through = -1 /\ mem = <<>>
    /\ buffer = <<>> /\ drain = [phase |-> "none", batch |-> <<>>] /\ closeWaits = FALSE
    /\ call = [c \in Callers |-> NoRow]
    /\ export = [state |-> "no", got |-> <<>>] /\ pin = <<>>
    /\ faults = 0 /\ damage = 0

\* postInitialize: migrateStoredSessions, then syncSummaries.  A log that does
\* not decode rolls the migration back, and the object does not start.
postInitialize ==
    /\ ~up /\ up' = TRUE
    /\ IF version = "old"
          THEN /\ \A i \in DOMAIN rows : ~rows[i].torn
               /\ version' = "current"
               /\ header' = header + 1
               /\ summary' = recomputeSummary(rows, header')
          ELSE /\ UNCHANGED <<version, header>>
               /\ summary' = IF header # NoRow /\ (summary = NoRow \/ summary.rev # header)
                                THEN recomputeSummary(rows, header) ELSE summary
    /\ UNCHANGED <<blankRow, rows, stage, materialized, through, mem, draining,
                   closeWaits, call, exporting, born, damage>>

\* What is in memory is lost.
Crash ==
    /\ up /\ up' = FALSE
    /\ stage' = "none" /\ materialized' = FALSE /\ through' = -1 /\ mem' = <<>>
    /\ buffer' = <<>> /\ drain' = [phase |-> "none", batch |-> <<>>] /\ closeWaits' = FALSE
    /\ call' = [c \in Callers |-> NoRow]
    /\ export' = [state |-> IF export.state = "open" THEN "failed" ELSE export.state, got |-> <<>>]
    /\ pin' = <<>>
    /\ UNCHANGED <<tables, born, faults, damage>>

\* The payload of a stored row turns out unparsable.
RowIsDamaged ==
    /\ ~up /\ damage < MaxDamage
    /\ \E i \in DOMAIN rows : ~rows[i].torn /\ rows' = [rows EXCEPT ![i].torn = TRUE]
    /\ damage' = damage + 1
    /\ UNCHANGED <<header, version, blankRow, summary, up, stage, materialized, through,
                   mem, draining, closeWaits, call, exporting, born>>

----------------------------------------
(* Blank sessions, creating and opening. *)

memory == <<up, stage, materialized, through, mem, draining, closeWaits, call, exporting, born, damage>>

\* createBlankSession of a session that does not exist.
retainBlankSession ==
    /\ up /\ stage = "none" /\ header = NoRow /\ ~blankRow
    /\ blankRow' = TRUE
    /\ UNCHANGED <<header, version, rows, summary, memory>>

Materialized ==
    /\ header' = IF header = NoRow THEN 0 ELSE header
    /\ blankRow' = FALSE
    /\ summary' = IF summary = NoRow THEN EmptyLogSummary ELSE summary

\* Called by createBlankSession, and before an agent is resumed.
materializeBlankSession ==
    /\ up /\ blankRow
    /\ Materialized
    /\ UNCHANGED <<version, rows, memory>>

NewHandle(st, isMaterialized) ==
    /\ stage = "none" /\ stage' = st
    /\ materialized' = isMaterialized /\ through' = -1

create ==
    /\ up /\ header = NoRow /\ ~blankRow
    /\ Materialized
    /\ NewHandle("ready", FALSE)
    /\ UNCHANGED <<version, rows, up, mem, draining, closeWaits, call, exporting, born, damage>>

\* The types are read from the summary, or recorded first.
StoredTypes == IF summary.types = NoRow THEN KindsIn(rows) ELSE summary.types

\* open(id, 'write'); a second writer is refused.
open ==
    /\ up /\ (header # NoRow \/ blankRow)
    /\ IF header = NoRow
          THEN Materialized
          ELSE /\ "unknown" \notin StoredTypes
               /\ summary' = [summary EXCEPT !.types = StoredTypes]
               /\ UNCHANGED <<header, blankRow>>
    /\ NewHandle("opened", header # NoRow)
    /\ UNCHANGED <<version, rows, up, mem, draining, closeWaits, call, exporting, born, damage>>

\* assertKnownVocabulary throws; the types stay recorded.
openRefused ==
    /\ up /\ stage = "none" /\ header # NoRow
    /\ "unknown" \in StoredTypes
    /\ summary' = [summary EXCEPT !.types = StoredTypes]
    /\ UNCHANGED <<header, version, blankRow, rows, memory>>

----------------------------------------
(* scanRows and repairTornTail.  Rows are counted from one. *)

LastTurnEnd(rs) == SelectLastInSeq(rs, LAMBDA r : r.kind = "end" /\ ~r.torn)
TornFrom(rs)    == SelectInSeq(rs, LAMBDA r : r.torn)   \* 0: the log is intact

HasCorruption(rs) == \E i \in 1..LastTurnEnd(rs) : rs[i].torn

NeverRefused(rs) == FALSE     \* mutant: the tail may hold inbox events
RepairRefused(rs) == \E i \in TornFrom(rs)..Len(rs) : rs[i].kind = "inbox"

\* handle.read() of the whole log under write ownership.  A corrupt log, or a
\* tail with an inbox event, throws, and the opener closes the handle.
read ==
    /\ stage = "opened" /\ stage' = "ready"
    /\ ~HasCorruption(rows)
    /\ IF TornFrom(rows) = 0
          THEN UNCHANGED tables
          ELSE /\ ~RepairRefused(rows)
               /\ rows' = SubSeq(rows, 1, TornFrom(rows) - 1)
               /\ header' = header + 1
               /\ summary' = RepairedSummary(rows', header')
               /\ UNCHANGED <<version, blankRow>>
    /\ UNCHANGED <<up, materialized, through, mem, draining, closeWaits, call, exporting, born, damage>>

\* append() by the opener: the closers of an interrupted turn, a seed's end.
append ==
    /\ stage = "ready" /\ born < MaxEvents
    /\ \E k \in Kinds :
          LET batch == <<[seq |-> Len(rows), id |-> born + 1, kind |-> k]>> IN
          /\ appendBatch(batch)
          /\ through' = Len(rows)
    /\ born' = born + 1
    /\ materialized' = TRUE
    /\ UNCHANGED <<up, stage, mem, buffer, drain, closeWaits, call, exporting, damage>>

\* The session is attached, with the events of its log.
Attach ==
    /\ stage = "ready" /\ stage' = "live"
    /\ mem' = [i \in DOMAIN rows |-> rows[i].id]
    /\ UNCHANGED <<tables, up, materialized, through, draining, closeWaits, call, exporting, born, damage>>

----------------------------------------
(* Live events and the drain of the buffer. *)

\* session.append, and enqueueLive in the same synchronous step.
Emit ==
    /\ stage = "live" /\ born < MaxEvents
    /\ \E k \in Kinds :
          buffer' = IF Len(mem) <= through THEN buffer
                    ELSE Append(buffer, [seq |-> Len(mem), id |-> born + 1, kind |-> k])
    /\ mem' = Append(mem, born + 1)
    /\ born' = born + 1
    /\ UNCHANGED <<tables, up, stage, materialized, through, drain, faults, closeWaits, call, exporting, damage>>

\* drainLiveBufferOnce takes the buffer and appends it, up to its await.
TakeBatch ==
    /\ buffer' = <<>>
    /\ \/ appendBatch(buffer) /\ drain' = [phase |-> "appended", batch |-> <<>>]
       \/ AppendFails(buffer) /\ drain' = [phase |-> "rejected", batch |-> buffer]

\* drainLiveBuffer: join the running drain, find nothing to do, or start one.
JoinDrain      == drain.phase # "none" /\ UNCHANGED <<tables, draining>>
NothingToDrain == drain.phase = "none" /\ buffer = <<>> /\ UNCHANGED <<tables, draining>>
StartDrain     == drain.phase = "none" /\ buffer # <<>> /\ TakeBatch

\* The state its caller is in afterwards.
drainLiveBuffer(st) ==
    \/ (JoinDrain \/ StartDrain) /\ st = "waiting"
    \/ NothingToDrain /\ st = "ok"

\* The await of appendBatch is over.
DrainResumes ==
    /\ \/ drain.phase = "appended" /\ buffer # <<>> /\ TakeBatch
       \/ /\ drain.phase = "appended" /\ buffer = <<>>
          /\ drain' = [drain EXCEPT !.phase = "exited"]
          /\ UNCHANGED <<tables, buffer, faults>>
       \/ /\ drain.phase = "rejected"
          /\ drain' = [phase |-> "threw", batch |-> <<>>]
          /\ buffer' = drain.batch \o buffer
          /\ UNCHANGED <<tables, faults>>
    /\ materialized' = (materialized \/ drain.phase = "appended")
    /\ UNCHANGED <<up, stage, through, mem, closeWaits, call, exporting, born, damage>>

\* .finally clears `draining`; whoever awaited the drain goes on.
DrainEnds ==
    /\ drain.phase \in {"exited", "threw"}
    /\ drain' = [phase |-> "none", batch |-> <<>>]
    /\ call' = [c \in Callers |->
                  IF call[c] # NoRow /\ call[c].st = "waiting"
                    THEN [call[c] EXCEPT !.st = IF drain.phase = "exited" THEN "ok" ELSE "err"]
                    ELSE call[c]]
    /\ closeWaits' = FALSE
    /\ UNCHANGED <<tables, up, stage, materialized, buffer, through, mem, exporting, faults, born, damage>>

----------------------------------------
(* sessions.flush of the live session: drainAndFlush, whose second half is *)
(* the handle's own flush.                                                 *)

flush(c) ==
    /\ stage = "live" /\ call[c] = NoRow
    /\ \E st \in {"waiting", "ok"} :
          /\ drainLiveBuffer(st)
          /\ call' = [call EXCEPT ![c] = [at |-> "drain", st |-> st, owed |-> ToSet(mem)]]
    /\ UNCHANGED <<up, stage, materialized, through, mem, closeWaits, exporting, born, damage>>

NoSecondDrain(st) == UNCHANGED <<tables, draining>> /\ st = "ok"   \* mutant: flush drains once
SecondDrain(st) == drainLiveBuffer(st)

FlushGoesOn(c) ==
    /\ call[c] # NoRow
    /\ call[c].at = "drain" /\ call[c].st = "ok"
    /\ \E st \in {"waiting", "ok"} :
          /\ SecondDrain(st)
          /\ call' = [call EXCEPT ![c].at = "flush", ![c].st = st]
    /\ UNCHANGED <<up, stage, materialized, through, mem, closeWaits, exporting, born, damage>>

\* It resolves, or rejects: a drain failed, or the handle was closed meanwhile.
FlushEnds(c) ==
    /\ call[c] # NoRow
    /\ \/ call[c].st = "err"
       \/ call[c].st = "ok" /\ call[c].at \in {"flush", "closed"}
    /\ call' = [call EXCEPT ![c] = NoRow]
    /\ UNCHANGED <<tables, up, stage, materialized, through, mem, draining, closeWaits, exporting, born, damage>>

\* close(), by session/disposed or by an opener that gives up.
close ==
    /\ stage \in {"opened", "ready", "live"} /\ stage' = "closing"
    /\ \E st \in {"waiting", "ok"} : drainLiveBuffer(st) /\ closeWaits' = (st = "waiting")
    /\ call' = [c \in Callers |-> IF call[c] # NoRow /\ call[c].at = "drain"
                                   THEN [call[c] EXCEPT !.at = "closed"] ELSE call[c]]
    /\ UNCHANGED <<up, materialized, through, mem, exporting, born, damage>>

\* Its finally block: abandonUnmaterialized, releaseWriteOwnership.  What the
\* drain could not write is gone.
closeEnds ==
    /\ stage = "closing" /\ ~closeWaits
    /\ stage' = "none" /\ mem' = <<>> /\ buffer' = <<>>
    /\ IF ~materialized /\ rows = <<>>
          THEN header' = NoRow /\ summary' = NoRow /\ UNCHANGED <<version, blankRow, rows>>
          ELSE UNCHANGED tables
    /\ UNCHANGED <<up, materialized, through, drain, closeWaits, call, exporting, faults, born, damage>>

----------------------------------------
(* exportEventPages, after open(id, 'read').  One export is followed. *)

LastIntact(rs) ==
    LET torn == {i \in (LastTurnEnd(rs) + 1)..Len(rs) : rs[i].torn}
    IN IF torn = {} THEN Len(rs) ELSE Min(torn) - 1

AllRows(rs) == Len(rs)        \* mutant: the torn tail is pinned too
PinnedRows(rs) == LastIntact(rs)

\* The rows of the next page, given what was read and how many are pinned.
ReadPage(got, pinned) ==
    \E n \in 1..PageRows :
        LET page == SubSeq(rows, Len(got) + 1, Min({Len(got) + n, pinned, Len(rows)}))
            ids == got \o [i \in DOMAIN page |-> page[i].id]
        IN IF page = <<>> \/ \E i \in DOMAIN page : page[i].torn
             THEN export' = [state |-> "failed", got |-> <<>>]
             ELSE export' = [state |-> IF Len(ids) >= pinned THEN "done" ELSE "open", got |-> ids]

exportBegins ==
    /\ up /\ header # NoRow /\ export.state = "no" /\ MaxExports > 0
    /\ PinnedRows(rows) > 0
    /\ ReadPage(<<>>, PinnedRows(rows))
    /\ pin' = IF export'.state = "failed" THEN <<>> ELSE [i \in 1..PinnedRows(rows) |-> rows[i].id]
    /\ UNCHANGED <<tables, up, stage, materialized, through, mem, draining, closeWaits, call, born, damage>>

exportGoesOn ==
    /\ export.state = "open"
    /\ ReadPage(export.got, Len(pin))
    /\ pin' = IF export'.state = "failed" THEN <<>> ELSE pin
    /\ UNCHANGED <<tables, up, stage, materialized, through, mem, draining, closeWaits, call, born, damage>>

----------------------------------------
LogNext ==
    \/ postInitialize \/ Crash \/ RowIsDamaged
    \/ retainBlankSession \/ materializeBlankSession \/ create \/ open \/ openRefused
    \/ read \/ append \/ Attach \/ Emit
    \/ DrainResumes \/ DrainEnds \/ close \/ closeEnds
    \/ \E c \in Callers : flush(c) \/ FlushGoesOn(c) \/ FlushEnds(c)
    \/ exportBegins \/ exportGoesOn

LogSpec == LogInit /\ [][LogNext]_logVars

----------------------------------------
(* Properties. *)

\* The shape of every variable.
LogTypeOK ==
    /\ header \in Nat \cup {NoRow} /\ version \in {"current", "old"} /\ blankRow \in BOOLEAN
    /\ rows \in Seq(LogRow)
    /\ summary \in SummaryRow \cup {NoRow}
    /\ up \in BOOLEAN /\ stage \in {"none", "opened", "ready", "live", "closing"}
    /\ materialized \in BOOLEAN /\ through \in Int /\ mem \in Seq(1..MaxEvents)
    /\ buffer \in Seq(BufferedEvent)
    /\ drain \in [phase : {"none", "appended", "rejected", "exited", "threw"}, batch : Seq(BufferedEvent)]
    /\ closeWaits \in BOOLEAN
    /\ call \in [Callers -> FlushCall \cup {NoRow}]
    /\ export \in [state : {"no", "open", "done", "failed"}, got : Seq(1..MaxEvents)]
    /\ pin \in Seq(1..MaxEvents) /\ born \in 0..MaxEvents

\* While the object runs, the summary row says what the log says: its last
\* sequence number, whether a turn ever started, the last title, the revision
\* it was computed at, and the stored types unless they are unrecorded.
\* Appends, repairs, migrations and blank sessions each maintain it apart.
SummaryExact ==
    up => /\ (header = NoRow) = (summary = NoRow)
          /\ header = NoRow => rows = <<>>
          /\ header # NoRow =>
               /\ summary.rev = header
               /\ summary = [recomputeSummary(rows, header) EXCEPT !.types = summary.types]
               /\ summary.types \in {NoRow, KindsIn(rows)}

\* The summary row, the log's rows and the memory that mirrors them keep their
\* shape, and the summary says what the log says (do-session-persistence.ts).
SummaryIsTheLogs == LogTypeOK /\ SummaryExact

\* Repairing a torn log, or closing a handle, never takes away an inbox event
\* (its input is already acknowledged), an intact end of a turn, or anything
\* before the first torn row.
Committed(i) ==
    \/ rows[i].kind = "inbox"
    \/ rows[i].kind = "end" /\ ~rows[i].torn
    \/ \A j \in 1..i : ~rows[j].torn
CommittedStays ==
    [][\A i \in DOMAIN rows :
          Committed(i) => i \in DOMAIN rows' /\ rows'[i].id = rows[i].id]_logVars

\* An export gives the rows it pinned, in order, or fails: whatever is
\* appended, torn or repaired while it pages, no other row gets in.
ExportIsASnapshot ==
    /\ export.got = SubSeq(pin, 1, Len(export.got))
    /\ export.state = "done" => export.got = pin

Standing(f) ==
    CASE f.st = "err" -> "rejected"
      [] f.st = "ok" /\ f.at = "flush"  -> "resolved"
      [] f.st = "ok" /\ f.at = "closed" -> "rejected"
      [] OTHER -> "waiting"

PromiseOf(f) == IF f = NoRow THEN NoRow ELSE [owed |-> f.owed, st |-> Standing(f)]

\* A flush that resolves covers every event emitted before it was called,
\* whatever is emitted, rejected or closed meanwhile, and events reach the log
\* in the order of their emission.
Barrier == INSTANCE SessionBarrier WITH
    None     <- NoRow,
    stored   <- {rows[i].id : i \in DOMAIN rows},
    attached <- (stage = "live"),
    promise  <- [c \in Callers |-> PromiseOf(call[c])]

ImplementsBarrier == Barrier!BarrierSpec
=============================================================================
