---------------------------- MODULE ShellRouting ----------------------------
(***************************************************************************)
(* Where one command runs on a deployment with a container (instance.ts    *)
(* runShellCommand): the light shell takes commands one at a time, and its *)
(* two miss signals, what the shell reported and what the workspace's      *)
(* revision and boundary counters say (workspace-boundary.ts,              *)
(* light-shell-fallback.ts), decide whether a command reruns in the        *)
(* container.  What a command does is fixed by its nature: it may need     *)
(* Linux, loudly or silently, and it may write.  At the end, the shell of  *)
(* a deployment without a container.                                       *)
(***************************************************************************)
EXTENDS Naturals, FiniteSets, Sequences, SequencesExt

CONSTANTS
  Commands0,      \* command ids
  Natures,        \* [needs |-> "light", "loud" or "silent", writes |-> BOOLEAN]
  Policies,       \* bashRouting: "auto", "light", "container"
  MaxElsewhere    \* bound on the writes of file tools and other sessions

ASSUME RoutingAssumption ==
  /\ Natures \subseteq [needs : {"light", "loud", "silent"}, writes : BOOLEAN]
  /\ Policies \subseteq {"auto", "light", "container"} /\ MaxElsewhere \in Nat

VARIABLES
  policy, nature, \* fixed when the commands are given
  run,            \* command -> [at, rev, mark, wrote, crossed, over, expired, effects]
  turns,          \* LightShellTurns: the links of the chain, [of, done]
  revision, boundary, elsewhere,
  outcome         \* command -> [runtime, miss, retried, settled, late]
routingVars == <<policy, nature, run, turns, revision, boundary, elsewhere, outcome>>

NotRun == [at |-> "new", rev |-> 0, mark |-> 0, wrote |-> FALSE, crossed |-> FALSE, over |-> FALSE,
           expired |-> FALSE, effects |-> 0]
NoOutcome == [runtime |-> "none", miss |-> FALSE, retried |-> FALSE, settled |-> FALSE, late |-> FALSE]

RoutingInit ==
  /\ policy \in Policies /\ nature \in [Commands0 -> Natures]
  /\ run = [c \in Commands0 |-> NotRun] /\ turns = <<>>
  /\ revision = 0 /\ boundary = 0 /\ elsewhere = 0
  /\ outcome = [c \in Commands0 |-> NoOutcome]

given == <<policy, nature>>
counters == <<revision, boundary, elsewhere>>
Set0(c, r) == run' = [run EXCEPT ![c] = r]
\* What is kept of a command that has answered.
Finished(c) == [NotRun EXCEPT !.at = "done", !.effects = run[c].effects]
Answer0(c, runtime, miss, retried, settled) ==
  outcome' = [outcome EXCEPT ![c] = [runtime |-> runtime, miss |-> miss, retried |-> retried, settled |-> settled,
                                   late |-> FALSE]]

\* File tools and other sessions write.
WritesElsewhere == /\ elsewhere < MaxElsewhere /\ elsewhere' = elsewhere + 1 /\ revision' = revision + 1
                   /\ UNCHANGED <<given, run, turns, boundary, outcome>>

----------------------------------------
(* Turns: the tail is a promise; a command waits for it and chains its own *)
(* release behind it.                                                      *)

Link(c) == CHOOSE i \in DOMAIN turns : turns[i].of = c
previousDone(i) == \A j \in 1..(i - 1) : turns[j].done
ReleaseTurn(c) == turns' = [turns EXCEPT ![Link(c)].done = TRUE]

\* The static prediction can be wrong either way; a forced policy is not asked.
routeBashCommand(c) ==
  IF policy = "auto" THEN {"light", "container"} ELSE {policy}

Submit(c) ==
  /\ run[c].at = "new"
  /\ \E route \in routeBashCommand(c) :
       CASE route = "container" -> Set0(c, [run[c] EXCEPT !.at = "container"]) /\ UNCHANGED turns
         [] policy = "light"    -> Set0(c, [run[c] EXCEPT !.at = "light"]) /\ UNCHANGED turns
         [] OTHER -> /\ Set0(c, [run[c] EXCEPT !.at = "waiting"])
                     /\ turns' = Append(turns, [of |-> c, done |-> FALSE])
  /\ UNCHANGED <<given, counters, outcome>>

TurnGivenUp(c) ==
  /\ run[c].at = "waiting"                            \* stopped, or its budget is used up
  /\ Set0(c, Finished(c)) /\ ReleaseTurn(c)
  /\ Answer0(c, "light", FALSE, FALSE, FALSE)
  /\ UNCHANGED <<given, counters>>

\* The turn comes; cwd is created, which always moves the revision, before
\* the marks are taken, in the step that starts the command.
TurnComes(c) ==
  /\ run[c].at = "waiting" /\ previousDone(Link(c))
  /\ Set0(c, [run[c] EXCEPT !.at = "mkdir", !.rev = revision])
  /\ UNCHANGED <<given, turns, counters, outcome>>
workspaceRevision(c) == revision + 1
StartsLight(c) ==
  /\ run[c].at = "mkdir" /\ revision' = revision + 1
  /\ Set0(c, [run[c] EXCEPT !.at = "light", !.rev = workspaceRevision(c), !.mark = boundary])
  /\ UNCHANGED <<given, turns, boundary, elsewhere, outcome>>

Attempting(c) == run[c].at \in {"light", "lingering"} /\ ~run[c].over
\* A write through the workspace, and an access outside it (crossesBoundary):
\* a command that needs Linux silently makes one.
LightWrites(c) ==
  /\ Attempting(c) /\ nature[c].writes /\ ~run[c].wrote
  /\ Set0(c, [run[c] EXCEPT !.wrote = TRUE, !.effects = @ + 1]) /\ revision' = revision + 1
  /\ UNCHANGED <<given, turns, boundary, elsewhere, outcome>>
crossesBoundary(c) == nature[c].needs = "silent"
Crosses(c) ==
  /\ Attempting(c) /\ crossesBoundary(c) /\ ~run[c].crossed
  /\ Set0(c, [run[c] EXCEPT !.crossed = TRUE]) /\ boundary' = boundary + 1
  /\ UNCHANGED <<given, turns, revision, elsewhere, outcome>>
\* A command that runs to its end has written what it writes; one that needs
\* Linux may fail before it does.
RunsToItsEnd(c) ==
  /\ nature[c].needs = "light" /\ nature[c].writes => run[c].wrote
  /\ nature[c].needs = "silent" => run[c].crossed

----------------------------------------
(* What the attempt showed. *)

lightShellCouldNotRun(c) == nature[c].needs = "loud"
crossedSince(c) == boundary > run[c].mark
unchangedAnyway(c) == TRUE                       \* mutant: a miss reruns whatever it wrote
leftWorkspaceUnchanged(c) == revision = run[c].rev
Missed(c) == lightShellCouldNotRun(c) \/ crossedSince(c)

LightEnds(c) ==
  /\ run[c].at = "light" /\ RunsToItsEnd(c)
  /\ IF policy = "light" THEN UNCHANGED turns ELSE ReleaseTurn(c)
  /\ \E inTime \in BOOLEAN :                       \* budget left for a rerun
       IF policy # "light" /\ Missed(c) /\ leftWorkspaceUnchanged(c) /\ inTime
       THEN /\ Set0(c, [run[c] EXCEPT !.at = "rerun", !.over = TRUE]) /\ UNCHANGED outcome
       ELSE /\ Set0(c, Finished(c))
            /\ outcome' = [outcome EXCEPT ![c] = [runtime |-> "light", miss |-> policy # "light" /\ Missed(c),
                                                  retried |-> FALSE, settled |-> TRUE, late |-> ~inTime]]
  /\ UNCHANGED <<given, counters>>
\* Stopped or timed out, and over: a miss is not looked for.
LightStopped(c) ==
  /\ run[c].at = "light"
  /\ \/ /\ Set0(c, Finished(c))
        /\ IF policy = "light" THEN UNCHANGED turns ELSE ReleaseTurn(c)
     \/ /\ Set0(c, [run[c] EXCEPT !.at = "lingering"])     \* detached: the turn is kept
        /\ UNCHANGED turns
  /\ Answer0(c, "light", FALSE, FALSE, FALSE)
  /\ UNCHANGED <<given, counters>>
LingeringEnds(c) ==
  /\ run[c].at = "lingering" /\ ~run[c].over
  /\ \/ Set0(c, [run[c] EXCEPT !.over = TRUE])
     \/ /\ ~run[c].expired
        /\ Set0(c, [run[c] EXCEPT !.expired = TRUE])   \* its own timeout
  /\ UNCHANGED <<given, turns, counters, outcome>>
lingeringSettled(c) == run[c].at = "lingering" /\ (run[c].over \/ run[c].expired)
LingeringReleases(c) ==
  /\ lingeringSettled(c) /\ policy # "light" /\ ~turns[Link(c)].done /\ ReleaseTurn(c)
  /\ UNCHANGED <<given, run, counters, outcome>>

\* In the container every command works; the wait for a slot can use the budget.
ContainerRuns(c) ==
  /\ run[c].at \in {"container", "rerun"}
  /\ LET retried == run[c].at = "rerun" IN
     \/ /\ Set0(c, [Finished(c) EXCEPT !.effects = IF nature[c].writes THEN @ + 1 ELSE @])
        /\ revision' = IF nature[c].writes THEN revision + 1 ELSE revision
        /\ Answer0(c, "container", FALSE, retried, TRUE)
     \/ /\ Set0(c, Finished(c)) /\ UNCHANGED revision      \* stopped, or no slot in time
        /\ Answer0(c, "container", FALSE, retried, FALSE)
  /\ UNCHANGED <<given, turns, boundary, elsewhere>>

RoutingNext ==
  \/ WritesElsewhere
  \/ \E c \in Commands0 :
       \/ Submit(c) \/ TurnGivenUp(c) \/ TurnComes(c) \/ StartsLight(c)
       \/ LightWrites(c) \/ Crosses(c) \/ LightEnds(c) \/ LightStopped(c)
       \/ LingeringEnds(c) \/ LingeringReleases(c) \/ ContainerRuns(c)

RoutingSpec == RoutingInit /\ [][RoutingNext]_routingVars

----------------------------------------
\* A command's effects happen once: what the light shell did is never done
\* again in the container ("rerun in the container when the light attempt
\* changed nothing").
EffectsOnce == \A c \in Commands0 : run[c].effects <= 1

\* Under automatic routing a result that looks like a plain light one is that
\* of a command the light shell could run: a miss is rerun or reported.
MissIsNeverHidden ==
  policy = "auto" => \A c \in Commands0 :
    outcome[c].runtime = "light" /\ outcome[c].settled /\ ~outcome[c].miss => nature[c].needs = "light"

\* The signals are the command's own: one the light shell could run is neither
\* rerun nor reported as a miss, unless an attempt outlived its own deadline.
BlameIsItsOwn ==
  \A c \in Commands0 :
    outcome[c].miss \/ outcome[c].retried =>
      nature[c].needs # "light" \/ \E d \in Commands0 \ {c} : run[d].at = "lingering" /\ run[d].expired

\* A miss is left to the agent only for a cause: something other than the
\* command's own cwd really was written, or no time was left to rerun it.
MissHasACause ==
  \A c \in Commands0 :
    outcome[c].miss => outcome[c].late \/ elsewhere > 0 \/ \E d \in Commands0 : run[d].effects > 0

\* A command's effects happen once and a miss of the light shell is rerun or
\* reported, by the command that caused it (light-shell-fallback.ts).
RoutingIsFaithful == EffectsOnce /\ MissIsNeverHidden /\ BlameIsItsOwn /\ MissHasACause

----------------------------------------
(* The in-process shell of the free plan (direct-shell.ts): one runtime    *)
(* runs commands under caller-chosen ids and hands out a stream of their   *)
(* events.  Nothing is computed by a pull, and nothing ends a command but  *)
(* its own end: kill, dispose, a cancelled stream and close only ask it to *)
(* stop and, except kill, wait until it has.                               *)

CONSTANTS Ids, Runs, NoRun

ASSUME ShellAssumption == NoRun \notin Runs

\* What the interpreter can answer: its output limit ends it with code 126 and a
\* diagnostic of its own; a command may exit 126 and print the same words itself.
Answers == [stdout : BOOLEAN, code : {0, 126}, printed : BOOLEAN, limited : BOOLEAN]
Results == {a \in Answers : a.limited => a.code = 126}

VARIABLES
  closed,       \* open, closing or closed
  executions,   \* id -> the run it names
  idOf, signal, \* of each run: its id and whether it was told to stop
  done, events, \* whether it has ended, and the events its stream has still to give
  stream,       \* none, open, closed or cancelled
  told,         \* the exit event its stream gave
  disposals,    \* <<id, run>>: a disposal waiting for the run to end
  closing       \* the runs close waits for
shellVars == <<closed, executions, idOf, signal, done, events, stream, told, disposals, closing>>

NoExit == [code |-> 0, truncated |-> FALSE, was |-> FALSE, given |-> FALSE]

DirectInit ==
  /\ closed = "open" /\ executions = [i \in Ids |-> NoRun]
  /\ idOf = [r \in Runs |-> NoRun] /\ signal = [r \in Runs |-> FALSE]
  /\ done = [r \in Runs |-> FALSE] /\ events = [r \in Runs |-> <<>>]
  /\ stream = [r \in Runs |-> "none"] /\ told = [r \in Runs |-> NoExit]
  /\ disposals = {} /\ closing = {}

Running(r) == stream[r] # "none" /\ ~done[r]

\* A closed runtime refuses; so does an id whose run is still listed.
exec(id) ==
  /\ closed = "open" /\ executions[id] = NoRun
  /\ \E r \in Runs :
       /\ stream[r] = "none"
       /\ stream' = [stream EXCEPT ![r] = "open"] /\ idOf' = [idOf EXCEPT ![r] = id]
       /\ executions' = [executions EXCEPT ![id] = r]
  /\ UNCHANGED <<closed, signal, done, events, told, disposals, closing>>

\* Only what follows the bytes the interpreter accounted to the command is its own.
internalDiagnostic(result) == result.limited
OwnDiagnostic(result) == internalDiagnostic(result)
hitDirectOutputLimit(result) == result.code = 126 /\ OwnDiagnostic(result)

Exit(code, truncated, was) == [name |-> "exit", code |-> code, truncated |-> truncated, was |-> was]
Output(name) == [name |-> name, code |-> 0, truncated |-> FALSE, was |-> FALSE]
shellExecEvents(result) ==
  (IF result.stdout THEN <<Output("stdout")>> ELSE <<>>)
  \o (IF result.printed \/ result.limited THEN <<Output("stderr")>> ELSE <<>>)
  \o <<Exit(result.code, hitDirectOutputLimit(result), result.limited)>>

\* A run never fails: what it throws becomes its stderr and its exit code.
runShell(r) ==
  /\ Running(r) /\ done' = [done EXCEPT ![r] = TRUE]
  /\ \/ \E result \in Results : events' = [events EXCEPT ![r] = shellExecEvents(result)]
     \/ events' = [events EXCEPT ![r] = <<Output("stderr"), Exit(IF signal[r] THEN 130 ELSE 1, FALSE, FALSE)>>]
  /\ UNCHANGED <<closed, executions, idOf, signal, stream, told, disposals, closing>>

abortRun(r) == signal' = [signal EXCEPT ![r] = TRUE]

killExec(id) ==
  /\ executions[id] # NoRun /\ abortRun(executions[id])
  /\ UNCHANGED <<closed, executions, idOf, done, events, stream, told, disposals, closing>>

\* Forgetting a run leaves alone a newer one that took its id.
forgetItself(id, r) == [executions EXCEPT ![id] = IF @ = r THEN NoRun ELSE @]
forgetById(id, r) == [executions EXCEPT ![id] = NoRun]         \* mutant: whatever holds the id
deleteExecution(id, r) == forgetItself(id, r)

Dispose(id) ==
  IF executions[id] = NoRun THEN UNCHANGED <<signal, disposals>>
  ELSE abortRun(executions[id]) /\ disposals' = disposals \cup {<<id, executions[id]>>}
disposeExec(id) ==
  /\ executions[id] # NoRun /\ Dispose(id)
  /\ UNCHANGED <<closed, executions, idOf, done, events, stream, told, closing>>
Disposed ==
  /\ \E d \in disposals :
       /\ done[d[2]] /\ disposals' = disposals \ {d}
       /\ executions' = deleteExecution(d[1], d[2])
  /\ UNCHANGED <<closed, idOf, signal, done, events, stream, told, closing>>

\* One pull gives one event; the exit event closes the stream and frees the id.
executionEvents(r) ==
  /\ stream[r] = "open" /\ done[r] /\ events[r] # <<>>
  /\ LET event == Head(events[r]) IN
     /\ events' = [events EXCEPT ![r] = Tail(@)]
     /\ IF event.name = "exit"
        THEN /\ stream' = [stream EXCEPT ![r] = "closed"]
             /\ executions' = deleteExecution(idOf[r], r)
             /\ told' = [told EXCEPT ![r] = [code |-> event.code, truncated |-> event.truncated,
                                             was |-> event.was, given |-> TRUE]]
        ELSE UNCHANGED <<stream, executions, told>>
  /\ UNCHANGED <<closed, idOf, signal, done, disposals, closing>>

\* Cancelling a stream disposes whatever run its id names by then.
cancel(r) ==
  /\ stream[r] = "open" /\ stream' = [stream EXCEPT ![r] = "cancelled"]
  /\ Dispose(idOf[r])
  /\ UNCHANGED <<closed, executions, idOf, done, events, told, closing>>

Listed == {executions[i] : i \in Ids} \ {NoRun}
close ==
  /\ closed = "open" /\ closed' = "closing"
  /\ closing' = Listed
  /\ signal' = [r \in Runs |-> signal[r] \/ r \in Listed]
  /\ UNCHANGED <<executions, idOf, done, events, stream, told, disposals>>
Closed ==
  /\ closed = "closing" /\ \A r \in closing : done[r]
  /\ closed' = "closed" /\ executions' = [i \in Ids |-> NoRun]
  /\ UNCHANGED <<idOf, signal, done, events, stream, told, disposals, closing>>

DirectNext ==
  \/ \E id \in Ids : exec(id) \/ killExec(id) \/ disposeExec(id)
  \/ \E r \in Runs : runShell(r) \/ executionEvents(r) \/ cancel(r)
  \/ Disposed \/ close \/ Closed

DirectSpec == DirectInit /\ [][DirectNext]_shellVars

----------------------------------------
\* Once close returns no command of this runtime is at work on the workspace,
\* whatever disposals and stream ends came before it.
ClosedIsQuiet == closed = "closed" => \A r \in Runs : ~Running(r)

\* An exit says "output truncated" exactly when the interpreter's limit ended the
\* command, never because the command printed the same words.
TruncationIsReal == \A r \in Runs : told[r].given => (told[r].truncated <=> told[r].was)

\* Both of the above: what the caller of a direct shell may rely on.
DirectShellTells == ClosedIsQuiet /\ TruncationIsReal
=============================================================================
