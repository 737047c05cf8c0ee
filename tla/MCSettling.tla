------------------------------ MODULE MCSettling ------------------------------
(***************************************************************************)
(* What runs in the background of a turn and has to settle, one component  *)
(* per behaviour: workflows, code programs, commands with their output,    *)
(* session archives, and the sweep of the storage.  Initial states are     *)
(* quiet, so that the fairness of a component that does not act asks for   *)
(* nothing; the sweep is always due, and fair when it is the one.          *)
(***************************************************************************)
EXTENDS WorkflowRun, CodeRun, CommandRun, StorageSweep, SessionArchive, TLC

VARIABLE subject  \* the component that acts

mcVars == <<workflowVars, codeVars, commandVars, sweepVars, archiveVars, subject>>

\* A provider that is there and one that is not, with the default and with a
\* smaller cap; a good and a bad schema.
Fields(keys, value) == [k \in keys |-> value]
MCMeta(phase) ==
    [object |-> TRUE, fields |-> Fields({"name", "description"}, "text") @@ ("phases" :> "list"),
     phases |-> <<[object |-> TRUE, fields |-> phase]>>]
MCStarts == [meta : {MCMeta("title" :> "text"), MCMeta("title" :> "empty")},
             script : {"oneFunction"}, provider : {"registered", "unregistered"},
             cap : {Unasked, 1}]
MCOptions == {[shape |-> "absent", fields |-> <<>>],
              [shape |-> "object", fields |-> "schema" :> "schema"],
              [shape |-> "object", fields |-> "schema" :> "other"]}
MCAgentRequests == [size : {"ok"}, prompt : {"text"}, opts : MCOptions]

Binding(g, e) == [global |-> g, errorClass |-> e]
MCCode ==
    [bindings : {<<Binding("t", "E")>>, <<Binding("t", "t")>>, <<Binding("r", "none")>>},
     aborted : BOOLEAN, program : {"module", "unparsable"}]

\* Spilled texts that share their content.
MCSpillRows == <<1, 2, 1, 1>>

\* The sweep pages through three spills beside one blob, or through two blobs
\* beside one spill.
Beside == IF subject = "spills" THEN \A h \in Hashes \ {1} : blob'[h] = "none"
                                ELSE \A n \in Names \ {1} : spill'[n] = "none"

\* A main session, its subagent and the subagent's subagent.
MCParentOf == (2 :> 1) @@ (3 :> 2)

MCInit ==
    /\ subject \in {"workflow", "code", "command", "spills", "blobs", "archive"}
    /\ WorkflowInit /\ CodeInit /\ CommandInit /\ SweepInit /\ ArchiveInit
    /\ subject # "command" => answersLate = FALSE

MCNext ==
    \/ /\ subject = "workflow" /\ WorkflowNext
       /\ UNCHANGED <<subject, codeVars, commandVars, sweepVars, archiveVars>>
    \/ /\ subject = "code" /\ CodeNext
       /\ UNCHANGED <<subject, workflowVars, commandVars, sweepVars, archiveVars>>
    \/ /\ subject = "command" /\ CommandNext
       /\ UNCHANGED <<subject, workflowVars, codeVars, sweepVars, archiveVars>>
    \/ /\ subject \in {"spills", "blobs"} /\ SweepNext /\ Beside
       /\ UNCHANGED <<subject, workflowVars, codeVars, commandVars, archiveVars>>
    \/ /\ subject = "archive" /\ ArchiveNext
       /\ UNCHANGED <<subject, workflowVars, codeVars, commandVars, sweepVars>>

MCSpec ==
    /\ MCInit /\ [][MCNext]_mcVars
    /\ WorkflowFairness /\ CommandFairness /\ ArchiveFairness
    /\ WF_sweepVars(subject \in {"spills", "blobs"} /\ SweepStep) /\ FaultsEnd

----------------------------------------
\* What was promised to be there is there: output that a program's end reports,
\* files a sweep passes by, and all of an archive that ends well.
ContentIsKept ==
    /\ subject = "code" => CodeTypeOK /\ OutputExact
    /\ subject \in {"spills", "blobs"} => NothingNeededIsLost
    /\ subject = "archive" => ClosedIsWhole /\ QueueIsBounded

\* What runs in the background ends, and ends once: workflows that were
\* cancelled or settled, commands, downloads, and the sweep's rounds.
EverythingSettles ==
    /\ SettlesOnce /\ CancelSettles /\ SettledDrains
    /\ CallsEnd /\ EverythingIsReached /\ DownloadsSettle
===============================================================================
