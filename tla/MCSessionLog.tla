---------------------------- MODULE MCSessionLog ----------------------------
(***************************************************************************)
(* One session's log in two profiles: one reader damages rows, restarts    *)
(* and exports; two interchangeable flushes overlap drains that fail.      *)
(***************************************************************************)
EXTENDS SessionLog, TLC

CONSTANTS f1, f2

VARIABLE profile
mcVars == <<logVars, profile>>

MCSymmetry == Permutations({f1, f2})

\* One flush at a time, and one failing transaction or one export: a
\* transaction that fails leaves alone what an export reads.
OneReader ==
    /\ faults <= (IF export.state = "no" THEN 1 ELSE 0)
    /\ \A c, d \in Callers : call[c] # NoRow /\ call[d] # NoRow => c = d

\* Turns only, whose rows stay whole, and no export.
FlushesOnly ==
    /\ damage = 0 /\ export.state = "no"
    /\ \A s \in {rows, buffer, drain.batch} : KindsIn(s) \subseteq {"start", "end", "unknown"}

Profile == IF profile = "reads" THEN OneReader ELSE FlushesOnly

MCInit == LogInit /\ profile \in {"reads", "flushes"} /\ Profile
MCNext == LogNext /\ profile' = profile /\ Profile'

MCSpec == MCInit /\ [][MCNext]_mcVars

=============================================================================
