----------------------------- MODULE EventPages -----------------------------
(***************************************************************************)
(* How one session's log is stored in rows and read back in pieces: runs   *)
(* of streamed chunks packed into one row (chunk-rows.ts), bounded replay  *)
(* pages that a client or a scan continues over several calls, history     *)
(* pages cut at message groups, from memory or in SQL, the prefix a fork   *)
(* copies, and one event read with its neighbours.                         *)
(*                                                                         *)
(* The clock, text and identifiers of an event are data: the time of an    *)
(* event follows from its seq (Clock), its stored size from its kind.      *)
(* What appends, flushes and repairs a log is SessionLog's; here they only *)
(* change what the pages read.                                             *)
(***************************************************************************)
EXTENDS Naturals, Integers, Sequences, SequencesExt, FiniteSetsExt

CONSTANTS
  Streams,       \* what a run of chunks belongs to: one block of one model call
  Kinds,         \* other kinds of event the agent appends, among OtherKinds
  MinRun,        \* MIN_RUN
  MaxLog,        \* bound on a log's events
  MaxDamage,     \* bound on rows that no longer parse
  ReplayCounts,  \* events a replay client asks for
  ReplayBytes,   \* MAX_REPLAY_RESPONSE_BYTES
  ScanLimit, HistoryLimit, ForkLimit, WindowLimit,
                 \* [events, bytes] of a scan's page, of a history page, of a
                 \* fork, of each side of a window
  MaxMessages    \* messages of a history page, 1 .. MaxMessages

OtherKinds == {"start", "end", "user", "message", "spliced"}
ASSUME KindsAreKnown == Kinds \subseteq OtherKinds /\ Streams \cap OtherKinds = {}

VARIABLES
  rows,    \* the stored rows, in seq order
  liveLog,    \* a session is registered
  unstored, \* the live session's events past the stored ones
  damage,
  reader   \* a replay client, or findInEventPages looking for an image
pageVars == <<rows, liveLog, unstored, damage, reader>>

Clock(seq) == seq * seq
EventSize(kind) == IF kind = "user" THEN 3 ELSE 1   \* a prompt shows an image
\* A chunk's line of text repeats what its row stores once.
LineSize(kind) == IF kind \in Streams THEN 2 ELSE EventSize(kind)
SizeOf(events, size(_)) == FoldLeft(LAMBDA n, e : n + size(e.kind), 0, events)

FirstOf(s, n) == SubSeq(s, 1, IF n < Len(s) THEN n ELSE Len(s))
\* The n events of the log from the seq `from` on, as many as there are.
Slice(log, from, n) == SubSeq(log, from + 1, Min({from + n, Len(log)}))

----------------------------------------
(* Rows.  An event is [seq, kind, time, from]: `from` is the least of the  *)
(* event and the seqs it cites.                                            *)

classify(e) == e.kind \in Streams
continues(prev, next) == next.seq = prev.seq + 1 /\ next.kind = prev.kind

buildRow(run) ==
  [seq |-> run[1].seq, kind |-> run[1].kind, time |-> run[1].time, from |-> run[1].seq,
   dt |-> [i \in 1..(Len(run) - 1) |-> run[i + 1].time - run[i].time],
   packed |-> TRUE, torn |-> FALSE]
plainRow(e) ==
  [seq |-> e.seq, kind |-> e.kind, time |-> e.time, from |-> e.from,
   dt |-> <<>>, packed |-> FALSE, torn |-> FALSE]

\* The maximal runs of a batch; an event that is no chunk is a run of its own.
Runs(events) ==
  FoldLeft(LAMBDA runs, e :
             IF runs # <<>> /\ classify(e) /\ continues(Last(Last(runs)), e)
             THEN Front(runs) \o <<Append(Last(runs), e)>>
             ELSE Append(runs, <<e>>),
           <<>>, events)
packChunkRuns(events) ==
  LET stored(run) == IF classify(run[1]) /\ Len(run) >= MinRun
                     THEN <<buildRow(run)>> ELSE [i \in DOMAIN run |-> plainRow(run[i])]
  IN FoldLeft(LAMBDA out, run : out \o stored(run), <<>>, Runs(events))

expandRow(row) ==
  [k \in 1..(Len(row.dt) + 1) |->
     [seq |-> row.seq + k - 1, kind |-> row.kind, from |-> row.seq + k - 1,
      time |-> row.time + FoldLeft(LAMBDA a, b : a + b, 0, SubSeq(row.dt, 1, k - 1))]]
rowToEvents(row) ==
  IF row.packed THEN expandRow(row)
  ELSE <<[seq |-> row.seq, kind |-> row.kind, time |-> row.time, from |-> row.from]>>

Expanded(rs) == FoldLeft(LAMBDA out, row : out \o rowToEvents(row), <<>>, rs)
RowBytes(row) == SizeOf(rowToEvents(row), EventSize)

\* The seq of the newest committed turn's end, or -1.
lastCommittedSequence == Max({-1} \cup {rows[i].seq : i \in {j \in DOMAIN rows : rows[j].kind = "end" /\ ~rows[j].torn}})
\* The rows before the first that does not parse, and the log they hold.
IntactRows == LET t == SelectInSeq(rows, LAMBDA r : r.torn) IN IF t = 0 THEN rows ELSE SubSeq(rows, 1, t - 1)
Intact == Expanded(IntactRows)
NextSeq == Len(Expanded(rows)) + Len(unstored)
snapshotEvents == Intact \o unstored
IsCorrupt == \E i \in DOMAIN rows : rows[i].torn /\ rows[i].seq <= lastCommittedSequence

----------------------------------------
(* One stored page.  to = -1: no upper bound. *)

\* A row as a page reads it: its size, and its events the page asks for.
Decoded(row, events, from, to) ==
  [seq |-> row.seq, torn |-> row.torn, bytes |-> SizeOf(events, EventSize),
   wanted |-> SelectSeq(events, LAMBDA e : e.seq >= from /\ (to = -1 \/ e.seq < to))]

\* The row containing `from` and those after it, at most limit + 1, and with
\* a byte bound only those that fit it.
eventRowRangeContaining(from, limit, to) ==
  LET start == Max({0} \cup {rows[i].seq : i \in {j \in DOMAIN rows : rows[j].seq <= from}})
      first == FirstOf(SelectSeq(rows, LAMBDA r : r.seq >= start /\ (to = -1 \/ r.seq < to)), limit + 1)
  IN [i \in DOMAIN first |-> Decoded(first[i], rowToEvents(first[i]), from, to)]
Fitting(read, bytes) ==
  Max({n \in 0..Len(read) : FoldLeft(LAMBDA b, r : b + r.bytes, 0, SubSeq(read, 1, n)) <= bytes})

\* What reading row after row has collected; `bad` is the thrown corruption.
StartedPage == [events |-> <<>>, bytes |-> 0, more |-> FALSE, stopped |-> FALSE, bad |-> FALSE]
WithRow(page, row, limit, bytes) ==
  LET room == limit - Len(page.events)
  IN IF page.stopped THEN page
     ELSE IF room <= 0 \/ row.bytes > bytes - page.bytes
          THEN [page EXCEPT !.more = TRUE, !.stopped = TRUE]
     ELSE IF row.torn
          THEN [page EXCEPT !.stopped = TRUE, !.bad = row.seq <= lastCommittedSequence]
     ELSE [page EXCEPT !.bytes = @ + row.bytes,
                       !.events = @ \o FirstOf(row.wanted, room),
                       !.more = Len(row.wanted) > room]
ForgetsCutRow(page, row, limit, bytes) ==   \* mutant: a row cut by the limit is not "more"
  LET read == WithRow(page, row, limit, bytes)
  IN IF read.stopped THEN read ELSE [read EXCEPT !.more = FALSE]
DecodeRow(page, row, limit, bytes) == WithRow(page, row, limit, bytes)

\* The page of the first n rows of a range.
PageOf(read, n, limit, bytes) ==
  FoldLeft(LAMBDA p, row : DecodeRow(p, row, limit, bytes), StartedPage, SubSeq(read, 1, n))
AndMore(page, unread) == [page EXCEPT !.more = @ \/ (unread /\ ~page.stopped)]
PageOfRange(read, n, limit, bytes) == AndMore(PageOf(read, n, limit, bytes), n < Len(read))
PageOfRows(read, limit, bytes, preflight) ==
  PageOfRange(read, IF preflight THEN Fitting(read, bytes) ELSE Len(read), limit, bytes)
loadStoredPage(from, limit, bytes, to, preflight) ==
  PageOfRows(eventRowRangeContaining(from, limit, to), limit, bytes, preflight)

----------------------------------------
(* What runs beside the readers. *)

OpenTurn(events) ==
  SelectLastInSeq(events, LAMBDA e : e.kind = "start") > SelectLastInSeq(events, LAMBDA e : e.kind = "end")

\* A message cites the chunks streamed just before it.
GroupStart(events, kind, seq) ==
  IF kind # "message" THEN seq
  ELSE SelectLastInSeq(events, LAMBDA e : e.kind \notin Streams)

NoRead == [kind |-> "none", next |-> 0, page |-> <<>>, state |-> "idle"]
PageInit == rows = <<>> /\ liveLog = TRUE /\ unstored = <<>> /\ damage = 0 /\ reader = NoRead

\* The agent appends an event to the live session.
Appended(kind) ==
  /\ liveLog /\ NextSeq < MaxLog
  /\ kind \in Kinds \cup Streams
  /\ kind \in {"start", "spliced"} \/ OpenTurn(snapshotEvents)
  /\ kind = "start" => ~OpenTurn(snapshotEvents)
  /\ unstored' = Append(unstored, [seq |-> NextSeq, kind |-> kind, time |-> Clock(NextSeq),
                                 from |-> GroupStart(snapshotEvents, kind, NextSeq)])
  /\ UNCHANGED <<rows, liveLog, damage, reader>>

appendBatch ==
  /\ unstored # <<>>
  /\ rows' = rows \o packChunkRuns(unstored) /\ unstored' = <<>>
  /\ UNCHANGED <<liveLog, damage, reader>>

\* The object restarts: unsaved events and a scan under way are gone, and the
\* newest row may no longer parse.
Restarts ==
  /\ liveLog' = FALSE /\ unstored' = <<>>
  /\ \/ UNCHANGED <<rows, damage>>
     \/ /\ damage < MaxDamage /\ damage' = damage + 1
        /\ rows # <<>> /\ rows' = [rows EXCEPT ![Len(rows)].torn = TRUE]
  /\ reader' = IF reader.kind = "scan" THEN NoRead ELSE reader

\* A resume keeps the intact rows of a torn tail and refuses a corrupt log.
Resumes ==
  /\ ~liveLog /\ ~IsCorrupt
  /\ liveLog' = TRUE /\ rows' = IntactRows
  /\ UNCHANGED <<unstored, damage, reader>>

----------------------------------------
(* Replay: the client continues at the seq the response names. *)

Lines(events, bytes) ==
  Max({n \in 0..Len(events) : SizeOf(SubSeq(events, 1, n), LineSize) <= bytes})

replayEvents(count) ==
  /\ reader.kind \in {"none", "replay"} /\ reader.state # "failed"
  /\ \E page \in {loadStoredPage(reader.next, count, ReplayBytes, -1, FALSE)} :
     \E sent \in {FirstOf(page.events, Lines(page.events, ReplayBytes))} :
       LET more == page.more \/ Len(sent) < Len(page.events)
           failed == page.bad \/ (sent = <<>> /\ more)
       IN reader' = [kind |-> "replay", next |-> reader.next + Len(sent), page |-> sent,
                     state |-> IF failed THEN "failed" ELSE IF more THEN "more" ELSE "end"]
  /\ UNCHANGED <<rows, liveLog, unstored, damage>>

\* Page by page over the stored log of a session that is not live.
HasImage(events) == \E i \in DOMAIN events : events[i].kind = "user"
findInEventPages ==
  /\ \/ reader = NoRead /\ ~liveLog
     \/ reader.kind = "scan" /\ reader.state = "more"
  /\ \E page \in {loadStoredPage(reader.next, ScanLimit.events, ScanLimit.bytes, -1, FALSE)} :
       reader' = [kind |-> "scan", next |-> reader.next + Len(page.events), page |-> page.events,
                  state |-> IF page.bad THEN "failed"
                            ELSE IF HasImage(page.events) THEN "found"
                            ELSE IF ~page.more THEN "absent"
                            ELSE IF page.events = <<>> THEN "failed" ELSE "more"]
  /\ UNCHANGED <<rows, liveLog, unstored, damage>>

\* The caller has its answer, or the client asks no more.
ReaderIsDone ==
  /\ reader.state \in {"failed", "end", "found", "absent"} /\ reader' = NoRead
  /\ UNCHANGED <<rows, liveLog, unstored, damage>>

PageNext ==
  \/ \E kind \in Kinds \cup Streams : Appended(kind)
  \/ appendBatch \/ Restarts \/ Resumes \/ ReaderIsDone
  \/ findInEventPages
  \/ \E count \in ReplayCounts : replayEvents(count)

----------------------------------------
(* History, before a seq or (-1) from the end: as many messages as asked   *)
(* for, each with the chunks it was assembled from.                        *)

MESSAGE_TYPES == {"user", "message"}
Refused == [events |-> <<>>, more |-> FALSE, refused |-> TRUE]
Given(events, more) == [events |-> events, more |-> more, refused |-> FALSE]
Newest(seqs, max) == IF Cardinality(seqs) < max THEN -1
                     ELSE CHOOSE s \in seqs : Cardinality({t \in seqs : t >= s}) = max
Over(limit, count, bytes) == count > limit.events \/ bytes > limit.bytes

\* In memory, over the live session's events.
paginateHistory(events, before, max) ==
  LET end == IF before = -1 THEN Len(events) ELSE Min({before, Len(events)})
      messages == {events[i].seq : i \in {j \in 1..end : events[j].kind \in MESSAGE_TYPES}}
      FromCut(page, cut) == IF Over(HistoryLimit, Len(page), SizeOf(page, LineSize))
                            THEN Refused ELSE Given(page, cut > 0)
      FromMessage(oldest) == LET cut == IF oldest = -1 THEN 0 ELSE events[oldest + 1].from
                             IN FromCut(SubSeq(events, cut + 1, end), cut)
  IN FromMessage(Newest(messages, max))

\* From the rows: the boundary in SQL, then the window it begins.
rowItself(row) == row.seq          \* mutant: a page begins at the message, not its chunks
historyGroupStart(row) == IF row.torn THEN row.seq ELSE row.from
readHistoryPage(before, max) ==
  LET MessagesBelow(upper) == {rows[i].seq : i \in {j \in DOMAIN rows :
                                 rows[j].kind \in MESSAGE_TYPES /\ rows[j].seq < upper}}
      boundaryAt(oldest) == IF oldest = -1 THEN 0
        ELSE historyGroupStart(rows[SelectInSeq(rows, LAMBDA r : r.seq = oldest)])
      Answer(page, boundary) == IF page.more \/ page.bad THEN Refused ELSE Given(page.events, boundary > 0)
      PageFrom(boundary, upper) ==
        Answer(loadStoredPage(boundary, HistoryLimit.events, HistoryLimit.bytes, upper, FALSE), boundary)
      PageBelow(upper) == IF upper <= 0 THEN Given(<<>>, FALSE)
                          ELSE PageFrom(boundaryAt(Newest(MessagesBelow(upper), max)), upper)
      count == Len(Expanded(rows))
  IN PageBelow(IF before = -1 THEN count ELSE Min({before, count}))

----------------------------------------
(* Fork: through an event, or (-1) through the latest completed turn and   *)
(* what follows it up to the next prompt.                                  *)

LatestTurnPrefix(events) ==
  LET end == SelectLastInSeq(events, LAMBDA e : e.kind = "end")
      begins == {i \in (end + 1)..Len(events) : events[i].kind \in {"start", "user", "spliced"}}
  IN Min({Len(events) + 1} \cup begins) - 1
forkBoundary(events, at) ==
  IF at # -1 THEN (IF at < Len(events) THEN at ELSE -1)
  ELSE IF ~\E i \in DOMAIN events : events[i].kind = "end" THEN -1
  ELSE LatestTurnPrefix(events) - 1

\* What the child inherits, nothing when the fork is refused.
createForkedSession(events, at) ==
  LET seed == SubSeq(events, 1, forkBoundary(events, at) + 1)
  IN IF Over(ForkLimit, Len(seed), SizeOf(seed, LineSize)) THEN <<>> ELSE seed
forkSession(at) ==
  LET wanted == IF at = -1 THEN ForkLimit.events ELSE Min({at + 1, ForkLimit.events + 1})
      ChildOf(page) ==
        IF page.bad \/ Len(page.events) > ForkLimit.events
           \/ (page.more /\ (at = -1 \/ Len(page.events) < wanted))
        THEN <<>>
        ELSE createForkedSession(page.events, at)
  IN ChildOf(loadStoredPage(0, wanted, ForkLimit.bytes, -1, FALSE))

----------------------------------------
(* One stored event and its neighbours, each side within one byte bound:   *)
(* leading neighbours are all there or left out.                           *)

Leading(preceding, count) == IF Len(preceding) = count THEN preceding ELSE <<>>

readEvent(seq, before, after, bytes) ==
  LET start == Max({0, seq - before})
      Events(from, count) == IF count = 0 THEN <<>> ELSE loadStoredPage(from, count, bytes, -1, TRUE).events
      Around(parts) ==
        LET target == parts[2] IN
        IF target = <<>> \/ target[1].seq # seq THEN <<>>
        ELSE Leading(parts[1], seq - start) \o <<target[1]>> \o parts[3]
      asked == <<<<start, IF before = 0 THEN 0 ELSE seq - start>>, <<seq, 1>>, <<seq + 1, after>>>>
  IN Around([i \in 1..3 |-> Events(asked[i][1], asked[i][2])])

----------------------------------------
(* Properties. *)

\* Whatever runs of chunks a flush packs, its rows read back as the very
\* events that were appended, each with its own seq and time (chunk-rows.ts:
\* lossless row packing).
PackingStep ==
  rows' # rows /\ unstored # <<>> /\ liveLog' => Expanded(rows') = Expanded(rows) \o unstored
PackingLosesNothing == [][PackingStep]_pageVars

\* However a packed row is cut by a page, a replay page goes on exactly where
\* the last one stopped, "more" brings at least one event, the end is told
\* only when nothing intact is left, and a scan that finds no image has seen
\* every event; a reader fails only at a row over its limit or a corrupt log
\* (loadStoredPage, replayEvents, findInEventPages).
TooLargeAt(seq, bytes) == \E i \in DOMAIN rows :
  /\ rows[i].seq <= seq /\ seq <= rows[i].seq + Len(rows[i].dt)
  /\ Max({RowBytes(rows[i]), LineSize(rows[i].kind)}) > bytes
ReplayStep ==
  reader' # reader /\ reader' # NoRead => \A log \in {Intact}, read \in {reader'} :
    /\ read.state \in {"more", "end"} =>
         /\ read.page = Slice(log, reader.next, Len(read.page))
         /\ read.state = "more" => read.page # <<>>
         /\ read.state = "end" => read.next >= Len(log)
    /\ read.state = "failed" => IsCorrupt \/ TooLargeAt(read.next, Min({ReplayBytes, ScanLimit.bytes}))
    /\ read.state \in {"absent", "found"} => (read.state = "found" <=> HasImage(log))
ReplayFollowsTheLog == [][ReplayStep]_pageVars

\* A cold session pages like a live one, and page after page backwards is the
\* whole log: each page ends where it was asked to and says "more" exactly
\* when something is before it (readHistoryPage, paginateHistory).
\* Asked of each log once: before a reader begins.
WholeLogIsStored == reader = NoRead /\ unstored = <<>> /\ \A i \in DOMAIN rows : ~rows[i].torn
PagesJoin(log, before, cold, hot) ==
  LET end == IF before = -1 THEN Len(log) ELSE before
      start == end - Len(cold.events)
  IN ~cold.refused =>
       /\ hot.refused \/ cold = hot
       /\ cold.events = Slice(log, start, end - start)
       /\ cold.more <=> start > 0
       /\ end > 0 => cold.events # <<>>
HistoryPagesJoin ==
  WholeLogIsStored => \A log \in {Intact} : \A before \in -1..Len(log), max \in 1..MaxMessages :
    PagesJoin(log, before, readHistoryPage(before, max), paginateHistory(log, before, max))

\* A cold fork is the live fork or is refused for its size, and a fork with
\* no cut copies every completed turn and none under way (forkSession).
ForksAgree(log, at, child, liveChild) ==
  /\ child # <<>> => child = liveChild
  /\ child = <<>> => \/ liveChild = <<>>
                     \/ Len(log) > ForkLimit.events
                     \/ SizeOf(log, EventSize) > ForkLimit.bytes
  /\ at = -1 /\ child # <<>> =>
       /\ ~OpenTurn(child)
       /\ \A i \in (Len(child) + 1)..Len(log) : log[i].kind # "end"
ColdForkIsTheLiveFork ==
  WholeLogIsStored => \A log \in {Intact}, at \in -1..MaxLog :
    ForksAgree(log, at, forkSession(at), createForkedSession(log, at))

\* The window around an event is one run of the stored log that holds it,
\* past a torn row too, which ends every other read (EdgeSessionQuery.readEvent).
WindowIsAroundItsEvent ==
  reader = NoRead /\ unstored = <<>> /\ ~IsCorrupt =>
    \A log \in {Expanded(rows)}, seq \in 0..MaxLog, before \in 0..2, after \in 0..1 :
      \A window \in {readEvent(seq, before, after, WindowLimit.bytes)} \ {<<>>} :
        /\ window = Slice(log, window[1].seq, Len(window))
        /\ window[1].seq <= seq /\ seq < window[1].seq + Len(window)
=============================================================================
