---------------------------- MODULE SkillCatalog ----------------------------
(***************************************************************************)
(* Workspace skill catalogs without file watches (edge-workspace-skills.ts):*)
(* a discovery stamps the skill files of a directory's roots, then reads   *)
(* them one by one; the stamps are remembered, and a turn's first step or  *)
(* the `/` menu compares them with the files and invalidates the registry  *)
(* when they differ.  The registry itself is upstream's (external): it     *)
(* caches the complete results of discoveries no invalidation overtook.    *)
(***************************************************************************)
EXTENDS Naturals, FiniteSets, SequencesExt

CONSTANTS Cwds, Skills, RootOf, MaxEdits, MaxFingerprints, Runs, NoCwd

ASSUME CatalogLimits == MaxFingerprints \in Nat \ {0} /\ IsFiniteSet(Cwds)

\* A file's content is named by its edit: an edit changes its size or its mtime.
Gone == 0

VARIABLES
  files,         \* skill file -> its edit, or Gone
  edits,
  fingerprints,  \* [cwd, stamps, late], the oldest discovery first; late: the
                 \* registry had been invalidated since that discovery began
  cached,        \* cwd -> the catalog the registry answers from, or {} with none
  hasCatalog,
  runs,          \* discoveries and checks between two reads
  pending        \* the cwds whose turn has not had its first step
catalogVars == <<files, edits, fingerprints, cached, hasCatalog, runs, pending>>

Run(at, c, stamps, todo) ==
  [at |-> at, cwd |-> c, stamps |-> stamps, todo |-> todo, found |-> {},
   complete |-> TRUE, overtaken |-> FALSE]
NoRun == Run("none", NoCwd, {}, {})

CatalogInit ==
  /\ files \in [Skills -> {Gone, 1}] /\ edits = 1
  /\ fingerprints = <<>> /\ cached = [c \in Cwds |-> {}] /\ hasCatalog = [c \in Cwds |-> FALSE]
  /\ runs = [r \in Runs |-> NoRun] /\ pending = {}

\* The roots of a directory: its project's and the ones every directory shares.
skillRoots(c) == {s \in Skills : c \in RootOf[s]}
\* What the listing of the roots says of the skill files.
rootEntries(c) == {<<s, files[s]>> : s \in {t \in skillRoots(c) : files[t] # Gone}}

Known(c) == {i \in DOMAIN fingerprints : fingerprints[i].cwd = c}
FingerprintOf(c) == {fingerprints[i].stamps : i \in Known(c)}

\* The map keeps the order of the last discoveries; the first is dropped when full.
remember(c, stamps, late) ==
  LET others == IF Known(c) = {} THEN fingerprints
                ELSE RemoveAt(fingerprints, CHOOSE i \in Known(c) : TRUE)
      all == Append(others, [cwd |-> c, stamps |-> stamps, late |-> late])
  IN fingerprints' = SubSeq(all, IF Len(all) > MaxFingerprints THEN 2 ELSE 1, Len(all))

Step(r, run) == runs' = [runs EXCEPT ![r] = run]

\* A lookup that finds no catalog discovers one; every run names its listing first.
list(r, c) ==
  /\ runs[r] = NoRun /\ ~hasCatalog[c]
  /\ Step(r, Run("scan", c, rootEntries(c), rootEntries(c)))
  /\ UNCHANGED <<files, edits, fingerprints, cached, hasCatalog, pending>>

\* One file is read: by then it may be another edit, be gone, or fail to read.
parseSkillFile(r) ==
  /\ runs[r].at = "scan"
  /\ \E entry \in runs[r].todo :
     LET file == entry[1]
         now == IF files[file] = Gone THEN {} ELSE {<<file, files[file]>>}
         rest == [runs[r] EXCEPT !.todo = @ \ {entry}]
     IN \/ Step(r, [rest EXCEPT !.found = @ \cup now])
        \/ Step(r, [rest EXCEPT !.complete = FALSE])
  /\ UNCHANGED <<files, edits, fingerprints, cached, hasCatalog, pending>>

stampsOfTheListing(run) == run.stamps
FingerprintFound(run) == stampsOfTheListing(run)

\* An incomplete scan is neither remembered nor cached.
discover(r) ==
  /\ runs[r].at = "scan" /\ runs[r].todo = {}
  /\ LET run == runs[r] IN
     IF ~run.complete THEN UNCHANGED <<fingerprints, cached, hasCatalog>>
     ELSE /\ remember(run.cwd, FingerprintFound(run), run.overtaken)
          /\ IF run.overtaken THEN UNCHANGED <<cached, hasCatalog>>
             ELSE /\ cached' = [cached EXCEPT ![run.cwd] = run.found]
                  /\ hasCatalog' = [hasCatalog EXCEPT ![run.cwd] = TRUE]
  /\ Step(r, NoRun)
  /\ UNCHANGED <<files, edits, pending>>

\* The first step of a turn and the menu check a directory with a fingerprint.
turnStart(c) ==
  /\ pending' = pending \cup {c} /\ c \notin pending
  /\ UNCHANGED <<files, edits, fingerprints, cached, hasCatalog, runs>>
Check(r, c) ==
  IF Known(c) = {} THEN UNCHANGED runs
  ELSE \E known \in FingerprintOf(c) : Step(r, Run("check", c, known, {}))
preStep(r, c) ==
  /\ c \in pending /\ pending' = pending \ {c}
  /\ runs[r] = NoRun /\ Check(r, c)
  /\ UNCHANGED <<files, edits, fingerprints, cached, hasCatalog>>
onRefresh(r, c) ==
  /\ runs[r] = NoRun /\ Known(c) # {} /\ Check(r, c)
  /\ UNCHANGED <<files, edits, fingerprints, cached, hasCatalog, pending>>

\* Invalidating drops every directory's catalog, and every fingerprint with them.
invalidate(r) ==
  /\ fingerprints' = <<>> /\ hasCatalog' = [c \in Cwds |-> FALSE]
  /\ cached' = [c \in Cwds |-> {}]
  /\ runs' = [q \in Runs |-> IF q = r THEN NoRun
                             ELSE [runs[q] EXCEPT !.overtaken = runs[q].at = "scan"]]

differsFromKnown(run, current) == current # run.stamps /\ FingerprintOf(run.cwd) = {run.stamps}
\* The listing failed, or nothing changed, or a discovery remembered another one since.
check(r) ==
  /\ runs[r].at = "check"
  /\ \/ IF differsFromKnown(runs[r], rootEntries(runs[r].cwd)) THEN invalidate(r)
        ELSE Step(r, NoRun) /\ UNCHANGED <<fingerprints, cached, hasCatalog>>
     \/ Step(r, NoRun) /\ UNCHANGED <<fingerprints, cached, hasCatalog>>
  /\ UNCHANGED <<files, edits, pending>>

\* A tool, a command or the user adds, edits or removes a skill file.
Edit ==
  /\ edits < MaxEdits /\ edits' = edits + 1
  /\ \E s \in Skills, v \in {Gone, edits + 1} : files' = [files EXCEPT ![s] = v]
  /\ UNCHANGED <<fingerprints, cached, hasCatalog, runs, pending>>

CatalogNext ==
  \/ \E r \in Runs, c \in Cwds : list(r, c) \/ preStep(r, c) \/ onRefresh(r, c)
  \/ \E r \in Runs : parseSkillFile(r) \/ discover(r) \/ check(r)
  \/ \E c \in Cwds : turnStart(c)
  \/ Edit

CatalogSpec == CatalogInit /\ [][CatalogNext]_catalogVars

----------------------------------------
\* A cached catalog that no longer says what the files say is one the next check
\* finds out: its directory's fingerprint differs from the files too.  A discovery
\* that ends after the invalidation it was running under can still replace a newer
\* one's fingerprint; those are out of scope.
StaleIsFoundOut ==
  \A c \in Cwds : \A i \in Known(c) :
    hasCatalog[c] /\ cached[c] # rootEntries(c) /\ ~fingerprints[i].late => fingerprints[i].stamps # rootEntries(c)

\* While no fingerprint has been dropped for space, a cached catalog has one: no
\* directory is left with a catalog that nothing will check again.
CachedIsChecked == Cardinality(Cwds) <= MaxFingerprints => \A c \in Cwds : hasCatalog[c] => Known(c) # {}

SkillsStayCurrent == StaleIsFoundOut /\ CachedIsChecked
=============================================================================
