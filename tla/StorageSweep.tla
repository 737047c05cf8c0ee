----------------------------- MODULE StorageSweep -----------------------------
(***************************************************************************)
(* The background sweep of the workspace (instance.ts sweepSpills): one    *)
(* page of old spills (edge-spill-store.ts) and one page of blobs that no  *)
(* file references (edge-vfs-reclaim.ts) a run, each with a cursor that is *)
(* recorded when the run ends.  Spills appear under random names and files *)
(* are written and deleted while it runs, an eviction may cut it off, and  *)
(* a container may be staging content it has not linked yet.               *)
(* A name or a hash is its place in their order; time passes in days.      *)
(***************************************************************************)
EXTENDS Integers, FiniteSets, Sequences, SequencesExt

CONSTANTS
    Names,            \* spills, in name order: 1..n
    Hashes,           \* blobs, in hash order: 1..n
    SpillRows,        \* name -> the rows its deletion writes
    EntryLimit, DeleteLimit, RowLimit,   \* SPILL_SWEEP_LIMITS
    ScanLimit, ReclaimLimit              \* VFS_RECLAIM_LIMITS

\* No single spill exceeds the row budget, so every sweep can go on.
ASSUME SweepLimits ==
    /\ EntryLimit \in Nat \ {0} /\ DeleteLimit \in Nat \ {0}
    /\ ScanLimit \in Nat \ {0} /\ ReclaimLimit \in Nat \ {0}
    /\ \A name \in Names : SpillRows[name] <= RowLimit

VARIABLES
    spill,     \* name -> "none", "new", "old" (past its retention) or "swept"
    blob,      \* hash -> [stored, seen]: seen within the grace, or not
    linked,    \* hashes that some file's chunks reference
    staging,   \* hash -> "no", or "write" or "pull": staged, to be linked
    container, \* running
    swept,     \* the recorded [cursor, blobCursor, complete]
    sweeping,  \* "no", or the phase of the run: "listed", "blobs", "record"
    page,      \* what the run listed, deleted and read so far
    lost       \* hashes reclaimed while a file or a staged write needed them

sweepVars == <<spill, blob, linked, staging, container, swept, sweeping, page, lost>>

NoPage == [entries |-> <<>>, cursor |-> 0, limit |-> FALSE,
           read |-> 0, deleted |-> 0, rows |-> 0, complete |-> FALSE]

SweepInit ==
    /\ spill = [n \in Names |-> "none"]
    /\ blob = [h \in Hashes |-> "none"]
    /\ linked = {} /\ staging = [h \in Hashes |-> "no"] /\ container = FALSE
    /\ swept = [cursor |-> 0, blobCursor |-> 0, complete |-> TRUE]
    /\ sweeping = "no" /\ page = NoPage /\ lost = {}

Listed == {n \in Names : spill[n] \in {"new", "old"}}
Sorted(S) == SetToSortSeq(S, LAMBDA m, n : m < n)

----------------------------------------
(* The workspace around the sweep. *)

\* saveText(): the random prefix puts the name anywhere in the order.
saveText(n) ==
    /\ spill[n] = "none"
    /\ spill' = [spill EXCEPT ![n] = "new"]
    /\ UNCHANGED <<blob, linked, staging, container, swept, sweeping, page, lost>>
SpillAges(n) ==
    /\ spill[n] = "new"
    /\ spill' = [spill EXCEPT ![n] = "old"]
    /\ UNCHANGED <<blob, linked, staging, container, swept, sweeping, page, lost>>

\* Content is staged, or found already stored, and seen.  A write links it
\* within the grace; a container's pull may take its time.
Stage(h, by) ==
    /\ staging[h] = "no" /\ (by = "pull" => container)
    /\ blob' = [blob EXCEPT ![h] = "seen"]
    /\ staging' = [staging EXCEPT ![h] = by]
    /\ UNCHANGED <<spill, linked, container, swept, sweeping, page, lost>>
Link(h) ==
    /\ staging[h] # "no"
    /\ staging' = [staging EXCEPT ![h] = "no"]
    /\ linked' = linked \cup {h}
    /\ UNCHANGED <<spill, blob, container, swept, sweeping, page, lost>>
DeleteFile(h) ==
    /\ h \in linked
    /\ linked' = linked \ {h}
    /\ UNCHANGED <<spill, blob, staging, container, swept, sweeping, page, lost>>
GraceEnds(h) ==
    /\ blob[h] = "seen" /\ staging[h] # "write"
    /\ blob' = [blob EXCEPT ![h] = "stale"]
    /\ UNCHANGED <<spill, linked, staging, container, swept, sweeping, page, lost>>
\* A container that stops gives up what it pulled and did not link.
ContainerChanges ==
    /\ container' = ~container
    /\ staging' = [h \in Hashes |-> IF staging[h] = "pull" THEN "no" ELSE staging[h]]
    /\ UNCHANGED <<spill, blob, linked, swept, sweeping, page, lost>>

----------------------------------------
(* One run. *)

\* The page from the recorded offset; whether the directory ended within it is
\* what a short page says.
readdir ==
    /\ sweeping = "no"
    /\ LET all == Sorted(Listed)
           last == swept.cursor + EntryLimit
       IN page' = [NoPage EXCEPT
                     !.entries = SubSeq(all, swept.cursor + 1, IF last < Len(all) THEN last ELSE Len(all)),
                     !.cursor = swept.cursor,
                     !.limit = Len(all) >= last]
    /\ sweeping' = "listed"
    /\ UNCHANGED <<spill, blob, linked, staging, container, swept, lost>>

Entry == page.entries[page.read + 1]
OutOfBudget ==
    \/ page.deleted >= DeleteLimit
    \/ spill[Entry] = "old" /\ page.rows + SpillRows[Entry] > RowLimit

\* The next entry: kept, deleted, or not deletable just now, which counts as
\* read and kept.
sweepEntry(fails) ==
    /\ sweeping = "listed" /\ page.read < Len(page.entries) /\ ~OutOfBudget
    /\ fails => spill[Entry] = "old"
    /\ LET expired == spill[Entry] = "old"
           gone == expired /\ ~fails
       IN /\ spill' = IF gone THEN [spill EXCEPT ![Entry] = "swept"] ELSE spill
          /\ page' = [page EXCEPT !.read = @ + 1,
                                  !.deleted = @ + (IF gone THEN 1 ELSE 0),
                                  !.rows = @ + (IF expired THEN SpillRows[Entry] ELSE 0)]
    /\ UNCHANGED <<blob, linked, staging, container, swept, sweeping, lost>>

CursorStands(exhausted) == IF exhausted THEN 0 ELSE page.cursor  \* mutant: what was kept is read again
\* A pass that ended starts over; deletions shifted the later entries down.
NextCursor(exhausted) == IF exhausted THEN 0 ELSE page.cursor + page.read - page.deleted
sweepEnds ==
    /\ sweeping = "listed"
    /\ page.read < Len(page.entries) => OutOfBudget
    /\ LET exhausted == ~page.limit /\ page.read = Len(page.entries)
       IN page' = [page EXCEPT !.cursor = NextCursor(exhausted),
                               !.complete = exhausted]
    /\ sweeping' = "blobs"
    /\ UNCHANGED <<spill, blob, linked, staging, container, swept, lost>>

\* reclaimUnreferencedBlobs(), all in one step; the page is keyed by hash.
Unreferenced(h) == h \notin linked  \* mutant of Reclaimable: the grace is ignored
Reclaimable(h) == h \notin linked /\ blob[h] = "stale"
reclaimUnreferencedBlobs ==
    LET all == Sorted({h \in Hashes : blob[h] # "none" /\ h > swept.blobCursor})
        rows == SubSeq(all, 1, IF Len(all) < ScanLimit THEN Len(all) ELSE ScanLimit)
        before(i) == Cardinality({j \in 1..(i - 1) : Reclaimable(rows[j])})
        within == {i \in DOMAIN rows : Reclaimable(rows[i]) => before(i) < ReclaimLimit}
        read == Cardinality({i \in DOMAIN rows : \A j \in 1..i : j \in within})
        taken == {h \in Hashes : Reclaimable(h) /\ \E i \in 1..read : rows[i] = h}
        exhausted == Len(rows) < ScanLimit /\ read = Len(rows)
    IN /\ blob' = [h \in Hashes |-> IF h \in taken THEN "none" ELSE blob[h]]
       /\ lost' = lost \cup {h \in taken : h \in linked \/ staging[h] # "no"}
       /\ swept' = [cursor |-> page.cursor,
                    blobCursor |-> IF exhausted THEN 0 ELSE rows[read],
                    complete |-> page.complete /\ exhausted]

\* The blobs' page, unless a container runs, and the record of the run: nothing
\* else happens between the two.
RunsBesideContainer == sweeping = "blobs"  \* mutant of MayReclaim
MayReclaim == sweeping = "blobs" /\ ~container
Reclaim ==
    /\ MayReclaim
    /\ reclaimUnreferencedBlobs
    /\ sweeping' = "no" /\ page' = NoPage
    /\ UNCHANGED <<spill, linked, staging, container>>
SkipBlobs ==
    /\ sweeping = "blobs" /\ container
    /\ swept' = [swept EXCEPT !.cursor = page.cursor, !.complete = FALSE]
    /\ sweeping' = "no" /\ page' = NoPage
    /\ UNCHANGED <<spill, blob, linked, staging, container, lost>>

\* An eviction, or a failed write of the record.
SweepCutOff ==
    /\ sweeping # "no"
    /\ sweeping' = "no" /\ page' = NoPage
    /\ UNCHANGED <<spill, blob, linked, staging, container, swept, lost>>

SweepStep == readdir \/ sweepEntry(FALSE) \/ sweepEnds \/ Reclaim \/ SkipBlobs

SweepNext ==
    \/ \E n \in Names : saveText(n) \/ SpillAges(n)
    \/ \E h \in Hashes : Stage(h, "write") \/ Stage(h, "pull") \/ Link(h) \/ DeleteFile(h) \/ GraceEnds(h)
    \/ ContainerChanges
    \/ SweepStep \/ sweepEntry(TRUE) \/ SweepCutOff

SweepSpec == SweepInit /\ [][SweepNext]_sweepVars

\* Every use of the workspace starts a run that is due and a run goes on once it
\* started, so SweepStep is fair where the workspace is used.  Evictions,
\* failures and containers do not go on for ever.
FaultsEnd ==
    /\ <>[][~(sweepEntry(TRUE) \/ SweepCutOff \/ ContainerChanges)]_sweepVars
    /\ <>[](~container)

----------------------------------------
\* No content is reclaimed that a file references or that a write or a pull
\* staged and is about to link, however old it is.
NothingNeededIsLost == lost = {}

\* Every old spill and every unreferenced blob is reached in the end, although
\* deletions and new names move the entries a cursor counts, budgets and
\* evictions cut passes off and a pass may miss some.
EverythingIsReached ==
    /\ \A n \in Names : []<>(spill[n] # "old")
    /\ \A h \in Hashes : []<>~(blob[h] = "stale" /\ h \notin linked)
==============================================================================
