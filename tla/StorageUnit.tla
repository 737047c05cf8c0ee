---------------------------- MODULE StorageUnit ----------------------------
(***************************************************************************)
(* do-storage-backend.ts over Durable Object storage: the start migrates   *)
(* the workspace registry's keys, repairs its timestamps and opens a unit  *)
(* of the key-value store with the version of the release that runs, newer *)
(* or older than the one before.  The process can be evicted between any   *)
(* two awaited storage calls.  The domain layer above serialises its       *)
(* writes, so a unit has one operation under way at a time.                *)
(*                                                                         *)
(* A record is its value, its sidecar stamp (NoStamp when it has none)     *)
(* and, for the properties, the version that wrote it.                     *)
(***************************************************************************)
EXTENDS Integers, FiniteSets

CONSTANTS Keys,         \* record keys of the unit's one table
          Global,       \* the unit's global document, stamped like a record
          Versions,     \* the releases that may run: a set of numbers
          Compatible,   \* Compatible[v]: other versions release v reads too
          Workspaces,   \* workspaces stored under the keys of old releases
          MaxWrites,    \* bound on records written
          MaxMinutes    \* bound on the clock

ASSUME VersionsAreNumbers == Versions \subseteq Nat \ {0}

NoStamp   == 0
Malformed == -1   \* a unit stamp that is not a number
Epoch     == 0    \* the timestamp that marks a record as never dated
NoRecord  == [value |-> 0, stamp |-> NoStamp, by |-> 0]

VARIABLES version,   \* the running release
          layout,    \* the unit's layout, "single" or "perRecord"
          pc,        \* where the start is, "running" or "refused"
          unit,      \* the unit stamp (__version__), NoStamp when absent
          records,   \* the stored records and the global document
          backups,   \* the records moved aside, one per key and minute
          moving,    \* the key backupRecord has copied and not yet deleted
          legacyVersion,  \* of the open unit, NoStamp while none is open
          writes,    \* records written so far
          minute,
          old,       \* what is stored under the old workspace keys
          workspace, \* the workspace unit: order, records (their created and
                     \* updated times), stamp, repair marker; known: all ids
          todo       \* workspaces the running migration or repair has to store

unitVars == <<version, layout, pc, unit, records, backups, moving, legacyVersion, writes,
              minute, old, workspace, todo>>

Migration == <<old, workspace, todo>>
UnitState == <<unit, records, backups, moving, legacyVersion, writes>>
Context   == <<version, layout, minute>>

Times == {Epoch, 1} \X {Epoch, 1}

\* Bare records were written by the version the unit stamp names.  The registry
\* lies under its old keys, or was moved by a release that did not repair it.
UnitInit ==
  /\ version \in Versions /\ layout \in {"single", "perRecord"} /\ pc = "state"
  /\ unit \in Versions \cup {NoStamp, Malformed}
  /\ records \in [Keys \cup {Global} -> {NoRecord} \cup
       IF unit \in Versions THEN {[value |-> 1, stamp |-> NoStamp, by |-> unit]} ELSE {}]
  /\ backups = {} /\ moving = {} /\ legacyVersion = NoStamp /\ writes = 1 /\ minute = 1
  /\ \E known \in SUBSET Workspaces : \E times \in [known -> Times], moved \in BOOLEAN :
       /\ workspace = [order |-> IF moved THEN known ELSE {},
                       records |-> IF moved THEN times ELSE <<>>,
                       stamp |-> IF moved THEN 2 ELSE NoStamp,
                       repaired |-> FALSE, known |-> known]
       /\ IF moved THEN old = [state |-> FALSE, records |-> <<>>]
                   ELSE \E s \in BOOLEAN : old = [state |-> s, records |-> times]
  /\ todo = {}

Goes(to) == pc' = to
WithRecord(f, w, t) == [v \in DOMAIN f \cup {w} |-> IF v = w THEN t ELSE f[v]]

\* DurableObjectStorageBackend.migrateWorkspaceKeys.  Each storage call is
\* a step; a start that is cut off begins again.
\* A record whose two timestamps are the epoch is dated now, one that has a
\* single real one takes it for both.
repairEpoch0(t) ==
  CASE t[1] # Epoch /\ t[2] # Epoch -> t
    [] t[2] # Epoch -> <<t[2], t[2]>>
    [] t[1] # Epoch -> <<t[1], t[1]>>
    [] OTHER -> <<minute, minute>>

migrateState ==
  /\ pc = "state"
  /\ IF ~old.state /\ old.records = <<>>
     THEN Goes("repair") /\ UNCHANGED <<workspace, todo>>
     ELSE /\ Goes("stamp")
          /\ workspace' = [workspace EXCEPT !.order =
               IF old.state THEN workspace.known ELSE DOMAIN old.records]
          /\ todo' = DOMAIN old.records
  /\ UNCHANGED <<Context, old, UnitState>>

migrateStamp ==
  /\ pc = "stamp" /\ Goes("records")
  /\ workspace' = [workspace EXCEPT !.stamp = 2]
  /\ UNCHANGED <<Context, old, todo, UnitState>>

migrateRecord ==
  /\ pc = "records"
  /\ IF todo = {} THEN Goes("delete") /\ UNCHANGED <<workspace, todo>>
     ELSE \E w \in todo :
            /\ workspace' = [workspace EXCEPT !.records = WithRecord(@, w, repairEpoch0(old.records[w]))]
            /\ todo' = todo \ {w}
            /\ UNCHANGED pc
  /\ UNCHANGED <<Context, old, UnitState>>

\* The old keys go in one call, after all that was under them is stored.
migrationDeletes ==
  /\ pc = "delete" /\ Goes("repair")
  /\ old' = [state |-> FALSE, records |-> <<>>]
  /\ UNCHANGED <<Context, workspace, todo, UnitState>>

\* repairEpoch0Timestamps: once for all, by its marker.
Undated(t) == t[1] = Epoch \/ t[2] = Epoch

beginRepair ==
  /\ pc = "repair"
  /\ IF workspace.repaired THEN Goes("open") /\ UNCHANGED todo
     ELSE /\ Goes("repairing")
          /\ todo' = {w \in DOMAIN workspace.records : Undated(workspace.records[w])}
  /\ UNCHANGED <<Context, old, workspace, UnitState>>

repairRecord ==
  /\ pc = "repairing"
  /\ IF todo = {}
     THEN Goes("open") /\ workspace' = [workspace EXCEPT !.repaired = TRUE] /\ UNCHANGED todo
     ELSE \E w \in todo :
            /\ workspace' = [workspace EXCEPT !.records = WithRecord(@, w, repairEpoch0(@[w]))]
            /\ todo' = todo \ {w}
            /\ UNCHANGED pc
  /\ UNCHANGED <<Context, old, UnitState>>

----------------------------------------
\* kv.open.  The first open stamps the unit.  A per-record unit keeps its stamp
\* for ever, for the records that carry none; a single one is refused under any
\* version but its own, and both when the stamp is not a number.
open ==
  /\ pc = "open"
  /\ IF unit = Malformed \/ (layout = "single" /\ unit \notin {NoStamp, version})
     THEN Goes("refused") /\ UNCHANGED <<unit, legacyVersion>>
     ELSE /\ Goes("running")
          /\ unit' = IF unit = NoStamp THEN version ELSE unit
          /\ legacyVersion' = unit'
  /\ UNCHANGED <<Context, records, backups, moving, writes, Migration>>

close ==
  /\ pc = "running" /\ moving = {} /\ Goes("open")
  /\ legacyVersion' = NoStamp
  /\ UNCHANGED <<Context, unit, records, backups, moving, writes, Migration>>

----------------------------------------
\* The open unit.
acceptedVersions == {version} \cup Compatible[version]
StampOf(r) == IF r.stamp = NoStamp THEN legacyVersion ELSE r.stamp
isReadable(r) == layout = "single" \/ StampOf(r) \in acceptedVersions

\* The keys whose records loadAll hands to the domain.
loadAll == {k \in Keys \cup {Global} : records[k] # NoRecord /\ isReadable(records[k])}

\* putRecord and setGlobal: value and stamp in one write.
putRecord(k) ==
  /\ pc = "running" /\ moving = {} /\ writes < MaxWrites
  /\ writes' = writes + 1
  /\ records' = [records EXCEPT ![k] =
       [value |-> writes', stamp |-> IF layout = "single" THEN NoStamp ELSE version,
        by |-> version]]
  /\ UNCHANGED <<Context, pc, unit, backups, moving, legacyVersion, Migration>>

\* Whatever its stamp, and with it.
deleteRecord(k) ==
  /\ pc = "running" /\ moving = {} /\ records[k] # NoRecord
  /\ records' = [records EXCEPT ![k] = NoRecord]
  /\ UNCHANGED <<Context, pc, unit, backups, moving, legacyVersion, writes, Migration>>

\* backupRecord, of a per-record unit only: copy, then delete; an eviction in
\* between leaves both.  A copy of the same key and minute is replaced.
backupCopies(k) ==
  /\ pc = "running" /\ layout = "perRecord" /\ moving = {} /\ records[k] # NoRecord
  /\ backups' = {b \in backups : b.key # k \/ b.minute # minute} \cup
       {[key |-> k, minute |-> minute, record |-> records[k], version |-> StampOf(records[k])]}
  /\ moving' = {k}
  /\ UNCHANGED <<Context, pc, unit, records, legacyVersion, writes, Migration>>

backupDeletes ==
  /\ moving # {}
  /\ records' = [k \in DOMAIN records |-> IF k \in moving THEN NoRecord ELSE records[k]]
  /\ moving' = {}
  /\ UNCHANGED <<Context, pc, unit, backups, legacyVersion, writes, Migration>>

\* An eviction, and the next start, with the same release or another.
restartUnit ==
  /\ version' \in Versions
  /\ pc' = "state" /\ legacyVersion' = NoStamp /\ moving' = {} /\ todo' = {}
  /\ UNCHANGED <<layout, minute, unit, records, backups, writes, old, workspace>>

MinutePasses ==
  /\ minute < MaxMinutes /\ minute' = minute + 1
  /\ UNCHANGED <<version, layout, pc, UnitState, Migration>>

UnitNext == \/ migrateState \/ migrateStamp \/ migrateRecord \/ migrationDeletes
            \/ beginRepair \/ repairRecord \/ open \/ close
            \/ backupDeletes \/ restartUnit \/ MinutePasses
            \/ \E k \in Keys \cup {Global} : putRecord(k)
            \/ \E k \in Keys : deleteRecord(k) \/ backupCopies(k)

UnitSpec == UnitInit /\ [][UnitNext]_unitVars

----------------------------------------
\* However many releases came and went, a record is classified by the
\* version that wrote it, in either layout: a release reads none of a
\* version it does not accept, and a backup names the version that wrote
\* what it holds.
StampsTellTheWriter ==
  /\ pc = "running" => \A k \in loadAll : records[k].by \in acceptedVersions
  /\ legacyVersion # NoStamp => \A k \in Keys \cup {Global} : records[k] # NoRecord =>
       StampOf(records[k]) = records[k].by
  /\ \A b \in backups : b.version = b.record.by

\* A record that is being moved aside is never only in memory: it is still
\* there, or its copy is.
MovedIsCopied ==
  \A k \in moving : \E b \in backups : b.key = k /\ b.record = records[k]

\* An interrupted migration loses no workspace: once a start reaches the
\* unit, every workspace has its record and its place in the order, and no
\* record is left without a date, though the repair ran in part before.
WorkspacesSurvive ==
  pc \in {"open", "running", "refused"} =>
    /\ workspace.known = DOMAIN workspace.records
    /\ workspace.known \subseteq workspace.order
    /\ workspace.known # {} => workspace.stamp = 2
    /\ \A w \in workspace.known : ~Undated(workspace.records[w])
=============================================================================
