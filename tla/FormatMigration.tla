--------------------------- MODULE FormatMigration ---------------------------
(***************************************************************************)
(* The upgrade of every stored session when an object starts under a build *)
(* with another log format (do-session-persistence.ts), in one            *)
(* transaction: in place or by building a new event table, whichever       *)
(* writes less.  A parent's log is completed from what its subagent        *)
(* children's logs say, read before anything is written.                   *)
(*                                                                         *)
(* A row is what the formats tell apart: "plain" reads the same in both,   *)
(* "old" is rewritten to "new", a "chunk" joins the row before it and its  *)
(* own row goes, "bad" fails the codec, "known" and "unknown" are the      *)
(* catalog entries the new format adds for a child.                        *)
(***************************************************************************)
EXTENDS Integers, FiniteSets, FiniteSetsExt, Sequences, SequencesExt, Functions

CONSTANTS
  Ids,            \* sessions, positive and in the order the table is read
  OldLogs, NewLogs,   \* the logs, as rows, that a session of each build may hold
  MigrationLimit, \* LEGACY_MIGRATION_MAX_BYTES, in rows
  SwapWrites,     \* the catalog writes of swapping tables, 33 in the code
  MaxStarts

Old == 3
New == 4
VARIABLES
  build,    \* SESSION_FORMAT_VERSION of the deployed code
  up,       \* the object has started
  headers,   \* dsh_sessions: id -> [version, parent]
  events,   \* dsh_session_events: <<id, seq>> -> row
  starts
migrationVars == <<build, up, headers, events, starts>>

Stored == DOMAIN headers
RowsOf(table, id) == {k \in DOMAIN table : k[1] = id}
LogOf(table, id) == Restrict(table, RowsOf(table, id))
Covering(f, g) == [k \in DOMAIN f \cup DOMAIN g |-> IF k \in DOMAIN f THEN f[k] ELSE g[k]]
Logs(table, ids) == Restrict(table, {k \in DOMAIN table : k[1] \in ids})
ASSUME MigrationSetting ==
  /\ Ids \subseteq Nat \ {0} /\ IsFiniteSet(Ids)
  /\ NewLogs \subseteq Seq({"plain", "new"})   \* a build writes what it reads

Reads(version) == IF version = Old THEN {"plain", "old", "chunk"}
                  ELSE {"plain", "new", "known", "unknown"}

----------------------------------------
(* One session. *)

storedEventBytes(id) == Cardinality(RowsOf(events, id))
assertMigratable(id) == storedEventBytes(id) <= MigrationLimit
\* decodeStoredRows: every row fits the format its header names.
Decodes(head, table, id) ==
  /\ \A k \in RowsOf(table, id) : table[k] \in Reads(head[id].version)
  /\ head[id].version = Old => assertMigratable(id)

childrenOf(head, id) == {c \in DOMAIN head : head[c].parent = id}
\* An unreadable child is recorded with unknown mode and blocks nobody.
collectChildFacts(head, table, id) ==
  [c \in childrenOf(head, id) |-> IF Decodes(head, table, c) THEN "known" ELSE "unknown"]

\* The log in the new format, keyed like the table.
Migrated(id, facts) ==
  LET kept == {k \in RowsOf(events, id) : events[k] # "chunk"}
      next == 1 + Max({-1} \cup {k[2] : k \in RowsOf(events, id)})
      nth(c) == next + Cardinality({d \in DOMAIN facts : d < c})
      entries == {<<id, nth(c)>> : c \in DOMAIN facts}
  IN [k \in kept \cup entries |->
        IF k \in kept THEN (IF events[k] = "old" THEN "new" ELSE events[k])
        ELSE facts[CHOOSE c \in DOMAIN facts : nth(c) = k[2]]]

\* The rows that differ; nothing is written while this is worked out.
prepareMigration(id, facts) ==
  LET packed == Migrated(id, facts)
      before == RowsOf(events, id)
  IN [packed |-> packed,
      changed |-> {k \in before \cap DOMAIN packed : events[k] # packed[k]},
      added |-> DOMAIN packed \ before,
      removed |-> before \ DOMAIN packed]
rewriteWrites(p) == Cardinality(p.changed) + 2 * (Cardinality(p.added) + Cardinality(p.removed))

\* In place: delete, update, insert; else insert all of it into the new table.
commitMigration(table, p, rebuild) ==
  IF rebuild THEN Covering(p.packed, table)
  ELSE [k \in (DOMAIN table \ p.removed) \cup p.added |->
          IF k \in p.changed \cup p.added THEN p.packed[k] ELSE table[k]]

----------------------------------------
(* Every session, at a start. *)

Outdated == {id \in Stored : headers[id].version < build}
Migratable == {id \in Outdated : assertMigratable(id)}

RebuildsAnyway(writes, migrated) ==   \* mutant: a skipped log is lost with its table
  LET allowance == (writes - 2 * migrated - SwapWrites) \div 2
      current == {k \in DOMAIN events : headers[k[1]].version = build}
  IN allowance >= 0 /\ Cardinality(current) <= allowance
isEventTableRebuildCheaper(writes, migrated) ==
  LET allowance == (writes - 2 * migrated - SwapWrites) \div 2
      current == {k \in DOMAIN events : headers[k[1]].version = build}
  IN Outdated = Migratable /\ allowance >= 0 /\ Cardinality(current) <= allowance

FactsFor(facts, head, table, id) == facts[id]

InIdOrder(S) ==
  CHOOSE q \in [1..Cardinality(S) -> S] : \A i, j \in 1..Cardinality(S) : i < j => q[i] < q[j]

childFacts == [id \in Migratable |-> collectChildFacts(headers, events, id)]
rebuilds ==
  LET all == [id \in Migratable |-> prepareMigration(id, childFacts[id])]
  IN isEventTableRebuildCheaper(
       FoldFunction(+, 0, [id \in Migratable |-> rewriteWrites(all[id])]),
       FoldFunction(+, 0, [id \in Migratable |-> Cardinality(DOMAIN all[id].packed)]))
beforeMigration ==
  [head |-> headers,
   table |-> IF rebuilds THEN Logs(events, {id \in Stored : headers[id].version = build}) ELSE events]
migrateSession(s, id) ==
  LET old == IF rebuilds THEN events ELSE s.table
      p == prepareMigration(id, FactsFor(childFacts, s.head, old, id))
  IN [head |-> [s.head EXCEPT ![id].version = build],
      table |-> commitMigration(s.table, p, rebuilds)]

migrateStoredSessions ==
  LET order == InIdOrder(Migratable)
      after[n \in 0..Len(order)] ==
        IF n = 0 THEN beforeMigration ELSE migrateSession(after[n - 1], order[n])
  IN after[Len(order)]

\* A log of a newer format, or one that does not decode, rolls everything back.
CanStart == /\ \A id \in Stored : headers[id].version <= build
            /\ \A id \in Migratable : Decodes(headers, events, id)

postInitialize ==
  /\ ~up /\ starts < MaxStarts /\ starts' = starts + 1
  /\ IF CanStart
     THEN LET s == migrateStoredSessions IN up' = TRUE /\ headers' = s.head /\ events' = s.table
     ELSE UNCHANGED <<up, headers, events>>
  /\ UNCHANGED build

\* Another build is deployed, newer or (a rollback) older; objects restart.
Deploy(b) == /\ b # build /\ build' = b /\ up' = FALSE
             /\ UNCHANGED <<headers, events, starts>>

\* A session of the running build, with the rows it writes; "bad" rows are
\* what released codecs refuse.
createSession(id, parent, rows) ==
  /\ up /\ id \notin Stored /\ parent \in {0} \cup Stored
  /\ headers' = Covering([i \in {id} |-> [version |-> build, parent |-> parent]], headers)
  /\ events' = Covering([k \in {<<id, n - 1>> : n \in DOMAIN rows} |-> rows[k[2] + 1]], events)
  /\ UNCHANGED <<build, up, starts>>

MigrationInit == build = Old /\ up = FALSE /\ headers = <<>> /\ events = <<>> /\ starts = 0
MigrationNext ==
  \/ postInitialize
  \/ \E b \in {Old, New} : Deploy(b)
  \/ \E id \in Ids, parent \in {0} \cup Ids :
       \E rows \in IF build = Old THEN OldLogs ELSE NewLogs : createSession(id, parent, rows)

MigrationSpec == MigrationInit /\ [][MigrationNext]_migrationVars

----------------------------------------
\* A start takes every session's log over whole, whichever way is cheaper, or
\* leaves all of the store as it was: current logs and those too large to
\* convert are untouched, each other log is its own conversion, completed with
\* what its children said before the upgrade (migrateStoredSessions).
LogsSurviveUpgrades ==
  [][starts' # starts =>
       \/ ~up' /\ UNCHANGED <<headers, events>>
       \/ /\ up' /\ DOMAIN headers' = Stored
          /\ \A id \in Stored \ Migratable :
               headers'[id] = headers[id] /\ LogOf(events', id) = LogOf(events, id)
          /\ \A id \in Migratable :
               /\ headers'[id] = [headers[id] EXCEPT !.version = build]
               /\ LogOf(events', id) = Migrated(id, collectChildFacts(headers, events, id))]_migrationVars

\* In a started object every session of its format reads, and the rest are
\* only the ones too large to convert.
StartedMeansReadable ==
  up => \A id \in Stored :
    \/ headers[id].version = build /\ (build = New => Decodes(headers, events, id))
    \/ headers[id].version = Old /\ ~assertMigratable(id)
=============================================================================
