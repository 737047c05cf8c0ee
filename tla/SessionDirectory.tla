-------------------------- MODULE SessionDirectory --------------------------
(***************************************************************************)
(* Listing and searching the stored sessions while sessions are created,   *)
(* prompted, opened and evicted: the cursor-paged list of the HTTP surface *)
(* and the sidebar search, which reads a bounded number of bounded logs,   *)
(* one await per session (session-store.ts).  A session's log is reduced   *)
(* to its length and whether a message of it matches the query.            *)
(***************************************************************************)
EXTENDS Integers, FiniteSets, FiniteSetsExt, Sequences, SequencesExt

CONSTANTS
  Sessions,           \* ids, as naturals: the order of ties
  MaxTime,            \* bound on the clock
  MaxRecords,          \* bound on the events of all logs together
  PageSize,           \* of a list page
  MaxSearchSessions, MaxSearchEvents, ResultLimit

ASSUME DirectorySetting ==
  /\ Sessions \subseteq Nat \ {0} /\ IsFiniteSet(Sessions)
  /\ PageSize \in Nat \ {0} /\ MaxSearchSessions \in Nat /\ MaxSearchEvents \in Nat

VARIABLES
  now,
  kept,      \* id -> "none", "blank" (retained only) or "stored"
  created, prompted,   \* id -> time; prompted 0: never
  storedLog, held,        \* id -> [length, match] of the stored log, of the live one
  registered,          \* ids of live sessions
  visitor     \* one client: a walk of the list, a search, or neither yet
directoryVars == <<now, kept, created, prompted, storedLog, held, registered, visitor>>

EmptyLog == [length |-> 0, match |-> FALSE]
\* seen: the pages' rows or the hits; after: the cursor; left: candidates;
\* more: hasMore; began: what the reader was owed when it started.
Unread == [at |-> "idle", after |-> 0, left |-> <<>>, seen |-> <<>>, more |-> FALSE, began |-> {}]

DirectoryInit ==
  /\ now = 1 /\ kept = [s \in Sessions |-> "none"]
  /\ created = [s \in Sessions |-> 0] /\ prompted = created
  /\ storedLog = [s \in Sessions |-> EmptyLog] /\ held = storedLog /\ registered = {}
  /\ visitor = Unread

Tick == now < MaxTime /\ now' = now + 1
        /\ UNCHANGED <<kept, created, prompted, storedLog, held, registered, visitor>>

\* A lazy blank session is retained, then materialized, in two storage calls.
createBlank(s) ==
  /\ kept[s] = "none" /\ kept' = [kept EXCEPT ![s] = "blank"]
  /\ created' = [created EXCEPT ![s] = now]
  /\ UNCHANGED <<now, prompted, storedLog, held, registered, visitor>>
materializeBlankSession(s) ==
  /\ kept[s] = "blank" /\ kept' = [kept EXCEPT ![s] = "stored"]
  /\ UNCHANGED <<now, created, prompted, storedLog, held, registered, visitor>>

\* A session is opened, takes events, a matching message or another, saves
\* them, and is evicted with what it did not save.
Opens(s) ==
  /\ kept[s] = "stored" /\ s \notin registered
  /\ registered' = registered \cup {s} /\ held' = [held EXCEPT ![s] = storedLog[s]]
  /\ UNCHANGED <<now, kept, created, prompted, storedLog, visitor>>
Takes(s) ==
  /\ s \in registered /\ MapThenSumSet(LAMBDA t : held[t].length, Sessions) < MaxRecords
  /\ \E m \in BOOLEAN : held' = [held EXCEPT ![s] = [length |-> @.length + 1, match |-> @.match \/ m]]
  /\ UNCHANGED <<now, kept, created, prompted, storedLog, registered, visitor>>
StoresHeld(s) == /\ storedLog' = [storedLog EXCEPT ![s] = held[s]]
            /\ prompted' = [prompted EXCEPT ![s] = IF storedLog[s] = held[s] THEN @ ELSE now]
flush(s) == /\ s \in registered /\ StoresHeld(s)
            /\ UNCHANGED <<now, kept, created, held, registered, visitor>>
Evicted == /\ registered # {} /\ registered' = {} /\ held' = storedLog
           /\ visitor' = IF visitor.at = "search" THEN Unread ELSE visitor
           /\ UNCHANGED <<now, kept, created, prompted, storedLog>>

----------------------------------------
(* The list: newest first, ties by id, from a cursor. *)

Materialized == {s \in Sessions : kept[s] = "stored"}
Before(s, t) == created[s] > created[t] \/ (created[s] = created[t] /\ s < t)
InListOrder(S) ==
  CHOOSE q \in [1..Cardinality(S) -> S] : \A i, j \in 1..Cardinality(S) : i < j => Before(q[i], q[j])
readSessionSummaryPage(after) == InListOrder({s \in Materialized : after = 0 \/ Before(after, s)})
UpTo(rows, n) == SubSeq(rows, 1, IF n < Len(rows) THEN n ELSE Len(rows))

listSessions ==
  /\ visitor.at \in {"idle", "list"}
  /\ LET rows == readSessionSummaryPage(visitor.after)
         page == UpTo(rows, PageSize)
     IN visitor' = [visitor EXCEPT
                     !.at = IF Len(rows) > PageSize THEN "list" ELSE "listed",
                     !.after = IF page = <<>> THEN @ ELSE Last(page),
                     !.seen = @ \o page,
                     !.began = IF visitor.at = "idle" THEN Materialized ELSE @]
  /\ UNCHANGED <<now, kept, created, prompted, storedLog, held, registered>>

----------------------------------------
(* The search. *)

UpdatedAt(s) == IF prompted[s] = 0 THEN created[s] ELSE prompted[s]
Newer(s, t) == UpdatedAt(s) > UpdatedAt(t) \/ (UpdatedAt(s) = UpdatedAt(t) /\ s < t)
ByNewest(ids, limit) ==
  UpTo(CHOOSE q \in [1..Cardinality(ids) -> ids] :
            \A i, j \in 1..Cardinality(ids) : i < j => Newer(q[i], q[j]), limit)
\* The newest of the newest blanks and the newest stored.
collectRecentApiSessions(limit) ==
  ByNewest(Range(ByNewest({s \in Sessions : kept[s] = "blank"}, limit))
         \cup Range(ByNewest(Materialized, limit)), limit)

Matching == {s \in Sessions : IF s \in registered THEN held[s].match ELSE storedLog[s].match}

searchApiSessions ==
  /\ visitor.at = "idle"
  /\ LET found == collectRecentApiSessions(MaxSearchSessions + 1)
     IN visitor' = [Unread EXCEPT !.at = "search", !.began = Matching,
                                 !.left = UpTo(found, MaxSearchSessions),
                                 !.more = Len(found) > MaxSearchSessions]
  /\ UNCHANGED <<now, kept, created, prompted, storedLog, held, registered>>

MoreAfter(log, more) == more \/ log.length > MaxSearchEvents

\* One candidate: a live one is saved first, a blank one has no messages.
searchesNext ==
  /\ visitor.at = "search" /\ visitor.left # <<>>
  /\ LET s == Head(visitor.left)
         log == IF s \in registered THEN held[s] ELSE storedLog[s]
         hit == log.match /\ log.length <= MaxSearchEvents
         items == IF hit THEN Append(visitor.seen, s) ELSE visitor.seen
     IN /\ IF s \in registered THEN StoresHeld(s) ELSE UNCHANGED <<storedLog, prompted>>
        /\ visitor' = IF Len(items) > ResultLimit
                     THEN [visitor EXCEPT !.at = "searched", !.more = TRUE]
                     ELSE [visitor EXCEPT !.left = Tail(@), !.seen = items, !.more = MoreAfter(log, @)]
  /\ UNCHANGED <<now, kept, created, held, registered>>
searchEnds ==
  /\ visitor.at = "search" /\ visitor.left = <<>>
  /\ visitor' = [visitor EXCEPT !.at = "searched"]
  /\ UNCHANGED <<now, kept, created, prompted, storedLog, held, registered>>

DirectoryNext ==
  \/ Tick \/ Evicted \/ listSessions \/ searchApiSessions \/ searchesNext \/ searchEnds
  \/ \E s \in Sessions : createBlank(s) \/ materializeBlankSession(s)
                         \/ Opens(s) \/ Takes(s) \/ flush(s)

DirectorySpec == DirectoryInit /\ [][DirectoryNext]_directoryVars

----------------------------------------
\* Paged to its end, the list holds every session that was there when it
\* began, once, whatever is created meanwhile or shares a millisecond with
\* the cursor (readSessionSummaryPage).
ListingIsComplete ==
  visitor.at \in {"list", "listed"} =>
    /\ IsInjective(visitor.seen)
    /\ visitor.at = "listed" => visitor.began \subseteq Range(visitor.seen)

\* A search that does not say there is more has shown every session that
\* matched when it began, saved or not, within the budget or not
\* (searchApiSessions: hasMore also reports skipped over-budget logs).
SearchIsHonest ==
  visitor.at = "searched" /\ ~visitor.more => visitor.began \subseteq Range(visitor.seen)
=============================================================================
