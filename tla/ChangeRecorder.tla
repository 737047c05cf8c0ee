--------------------------- MODULE ChangeRecorder ---------------------------
(***************************************************************************)
(* The changed-files recorder of one session (edge-workspace-changes.ts):  *)
(* file tools capture a path's content before they first write it in a     *)
(* turn, and the turn's end compares every captured path with what it      *)
(* holds by then.  Recording work runs on one chain; captured contents are *)
(* kept as copies in a directory named after the session.  A session that  *)
(* is released and attached again gets a new recorder over that directory. *)
(***************************************************************************)
EXTENDS Naturals, Sequences, FiniteSets

CONSTANTS Paths, Tools, Texts, Absent, Oversized, NoCapture, MaxTurns, MaxCalls, MaxShellWrites, MaxEvictions

Turns == 1 .. MaxTurns
Contents == Texts \cup {Absent, Oversized}

VARIABLES
  files,      \* what every workspace path holds
  copies,     \* the contents stored in the session's capture directory
  prepared,   \* this activation cleared what an earlier one left
  removals,   \* disposed recorders whose directory removal is still to run
  live, written, chain, task,       \* the recorder
  captures, lastResult, attempted, recorded, records,   \* its state per turn
  phase, turn, waits,               \* the agent
  tools, seq, evictions, calls, shellWrites,
  \* what the properties compare with:
  since,      \* the first turn of the live recorder
  before,     \* a path's content before a tool first wrote it in a turn
  after,      \* a path's content when the turn ended
  foreign,    \* <<turn, path>> something but a file tool wrote
  clobbered   \* an earlier recorder's removal ran under the live one
agentVars == <<phase, turn, waits>>
stateVars == <<captures, lastResult, attempted, recorded, records>>
ghostVars == <<since, before, after, foreign, clobbered>>
recorderVars == <<files, copies, prepared, removals, live, written, chain, task, stateVars,
                  agentVars, tools, seq, evictions, calls, shellWrites, ghostVars>>

NoTask == [at |-> "none", todo |-> {}, path |-> NoCapture, content |-> NoCapture, listed |-> {}]
NoTool == [at |-> "idle", path |-> NoCapture, text |-> NoCapture, ahead |-> 0]
Empty == [t \in Turns |-> [p \in Paths |-> NoCapture]]

ChangesInit ==
  /\ files \in [Paths -> {Absent} \cup Texts]
  /\ copies = {} /\ prepared = FALSE /\ removals = 0
  /\ live = FALSE /\ written = {} /\ chain = <<>> /\ task = NoTask
  /\ captures = Empty /\ lastResult = [t \in Turns |-> 0] /\ attempted = [t \in Turns |-> 0]
  /\ recorded = [t \in Turns |-> 0] /\ records = [t \in Turns |-> {}]
  /\ phase = "idle" /\ turn = 0 /\ waits = 0
  /\ tools = [k \in Tools |-> NoTool] /\ seq = 0 /\ evictions = 0 /\ calls = 0 /\ shellWrites = 0
  /\ since = 1 /\ before = Empty /\ after = Empty /\ foreign = {} /\ clobbered = FALSE

----------------------------------------
(* The chain: an entry waits for every entry before it. *)

Entry(kind, t, path) == [kind |-> kind, turn |-> t, path |-> path]
enqueue(entry) == chain' = Append(chain, entry)
\* Everything waiting on the chain is one task closer.
Pop ==
  /\ chain' = Tail(chain) /\ task' = NoTask
  /\ tools' = [k \in Tools |-> [tools[k] EXCEPT !.ahead = IF @ = 0 THEN 0 ELSE @ - 1]]
  /\ waits' = IF waits = 0 THEN 0 ELSE waits - 1

StoredAsText(content) == content \in Texts
\* Two sides are the same when both are absent or hold the same bytes.
sameCapture(a, b) == a = b /\ a # Oversized

\* The front task starts; a capture already made and a turn without results end at once.
skipKnown(path, t) == captures[t][path] # NoCapture
Known(path, t) == skipKnown(path, t)
Begin ==
  /\ chain # <<>> /\ task = NoTask
  /\ LET entry == Head(chain) IN
     CASE entry.kind = "capture" /\ Known(entry.path, entry.turn) -> Pop /\ UNCHANGED stateVars
       [] entry.kind = "capture" /\ ~Known(entry.path, entry.turn) ->
            /\ task' = [NoTask EXCEPT !.at = "prepare", !.path = entry.path]
            /\ UNCHANGED <<chain, tools, waits, stateVars>>
       [] entry.kind = "record" /\ lastResult[entry.turn] = 0 -> Pop /\ UNCHANGED stateVars
       [] OTHER ->
            /\ attempted' = [attempted EXCEPT ![entry.turn] = lastResult[entry.turn]]
            /\ task' = [NoTask EXCEPT !.at = "next", !.todo = {p \in Paths : captures[entry.turn][p] # NoCapture}]
            /\ UNCHANGED <<chain, tools, waits, captures, lastResult, recorded, records>>
  /\ UNCHANGED <<files, copies, prepared, removals, live, written, phase, turn, seq,
                 evictions, calls, shellWrites, ghostVars>>

\* The first capture of an activation waits until the old copies are gone.
prepare ==
  /\ task.at = "prepare"
  /\ task' = [task EXCEPT !.at = "read"]
  /\ copies' = (IF prepared THEN copies ELSE {})
  /\ prepared' = TRUE
  /\ UNCHANGED <<files, removals, live, written, chain, stateVars, agentVars, tools, seq,
                 evictions, calls, shellWrites, ghostVars>>

ReadContent ==
  /\ task.at = "read"
  /\ task' = [task EXCEPT !.at = "store", !.content = files[task.path]]
  /\ UNCHANGED <<files, copies, prepared, removals, live, written, chain, stateVars, agentVars, tools, seq,
                 evictions, calls, shellWrites, ghostVars>>

\* A copy is written once by each recorder.
StoreCopy ==
  IF StoredAsText(task.content) /\ task.content \notin written
  THEN copies' = copies \cup {task.content} /\ written' = written \cup {task.content}
  ELSE UNCHANGED <<copies, written>>

\* captureFile's end: a capture task keeps it, a record task compares it.
CaptureDone ==
  /\ task.at = "store" /\ Head(chain).kind = "capture"
  /\ StoreCopy /\ Pop
  /\ captures' = [captures EXCEPT ![Head(chain).turn][task.path] = task.content]
  /\ UNCHANGED <<files, prepared, removals, live, lastResult, attempted, recorded, records, phase, turn, seq,
                 evictions, calls, shellWrites, ghostVars>>

NextPath ==
  /\ task.at = "next" /\ task.todo # {}
  /\ \E p \in task.todo : task' = [task EXCEPT !.at = "prepare", !.path = p, !.todo = @ \ {p}]
  /\ UNCHANGED <<files, copies, prepared, removals, live, written, chain, stateVars, agentVars, tools, seq,
                 evictions, calls, shellWrites, ghostVars>>

\* Listing a change reads both copies back; a missing one fails the whole record.
compared ==
  /\ task.at = "store" /\ Head(chain).kind = "record" /\ StoreCopy
  /\ LET start == captures[Head(chain).turn][task.path]
         kept == copies \cup (IF StoredAsText(task.content) THEN {task.content} \ written ELSE {})
         readable == \A side \in {start, task.content} : StoredAsText(side) => side \in kept
     IN IF sameCapture(start, task.content)
        THEN task' = [task EXCEPT !.at = "next"] /\ UNCHANGED <<chain, tools, waits>>
        ELSE IF readable \/ Oversized \in {start, task.content}
        THEN /\ task' = [task EXCEPT !.at = "next", !.listed = @ \cup {<<task.path, start, task.content>>}]
             /\ UNCHANGED <<chain, tools, waits>>
        ELSE Pop
  /\ UNCHANGED <<files, prepared, removals, live, stateVars, phase, turn, seq,
                 evictions, calls, shellWrites, ghostVars>>

Announce ==
  /\ task.at = "next" /\ task.todo = {} /\ Pop
  /\ LET t == Head(chain).turn IN
     IF (task.listed = {} /\ recorded[t] = 0) \/ ~live
     THEN UNCHANGED <<seq, recorded, records>>
     ELSE /\ seq' = seq + 1
          /\ recorded' = [recorded EXCEPT ![t] = seq + 1]
          /\ records' = [records EXCEPT ![t] = task.listed]
  /\ UNCHANGED <<files, copies, prepared, removals, live, written, captures, lastResult, attempted, phase, turn,
                 evictions, calls, shellWrites, ghostVars>>

----------------------------------------
(* A file tool: it waits for the recorder before it runs and again between  *)
(* announcing its write and writing.                                       *)

Quiet == \A k \in Tools : tools[k].at = "idle"

waitForAll == Len(chain)
settled == waitForAll

preExecute(k) ==
  /\ phase = "running" /\ tools[k].at = "idle" /\ calls < MaxCalls /\ calls' = calls + 1
  /\ \E p \in Paths, text \in Contents \ {Absent} :
       tools' = [tools EXCEPT ![k] = [at |-> "pre", path |-> p, text |-> text, ahead |-> settled]]
  /\ UNCHANGED <<files, copies, prepared, removals, live, written, chain, task, stateVars, agentVars, seq,
                 evictions, shellWrites, ghostVars>>

writeIntent(k) ==
  /\ tools[k].at = "pre" /\ tools[k].ahead = 0
  /\ enqueue(Entry("capture", turn, tools[k].path))
  /\ tools' = [tools EXCEPT ![k].at = "intent", ![k].ahead = settled + 1]
  /\ UNCHANGED <<files, copies, prepared, removals, live, written, task, stateVars, agentVars, seq,
                 evictions, calls, shellWrites, ghostVars>>

ToolWrites(k) ==
  /\ tools[k].at = "intent" /\ tools[k].ahead = 0
  /\ files' = [files EXCEPT ![tools[k].path] = tools[k].text]
  /\ before' = [before EXCEPT ![turn][tools[k].path] = IF @ = NoCapture THEN files[tools[k].path] ELSE @]
  /\ tools' = [tools EXCEPT ![k].at = "wrote"]
  /\ UNCHANGED <<copies, prepared, removals, live, written, chain, task, stateVars, agentVars, seq,
                 evictions, calls, shellWrites, since, after, foreign, clobbered>>

\* The result is logged: the recorder observes it in the turn it belongs to.
observe(k) ==
  /\ tools[k].at = "wrote"
  /\ seq' = seq + 1 /\ lastResult' = [lastResult EXCEPT ![turn] = seq + 1]
  /\ tools' = [tools EXCEPT ![k] = NoTool]
  /\ UNCHANGED <<files, copies, prepared, removals, live, written, chain, task, captures, attempted, recorded,
                 records, agentVars, evictions, calls, shellWrites, ghostVars>>

\* A command or the container writes a file: nothing captures it.
ShellWrites ==
  /\ shellWrites < MaxShellWrites /\ shellWrites' = shellWrites + 1
  /\ \E p \in Paths, text \in Contents :
       /\ files' = [files EXCEPT ![p] = text]
       /\ foreign' = foreign \cup {<<t, p>> : t \in 1 .. turn}
  /\ UNCHANGED <<copies, prepared, removals, live, written, chain, task, stateVars, agentVars, tools, seq,
                 evictions, calls, since, before, after, clobbered>>

----------------------------------------
(* The agent's turns, and the life of the session. *)

freshState ==
  /\ captures' = [captures EXCEPT ![turn + 1] = [p \in Paths |-> NoCapture]]
  /\ UNCHANGED <<lastResult, attempted, recorded, records>>
start ==
  /\ phase = "idle" /\ turn < MaxTurns
  /\ turn' = turn + 1 /\ phase' = "running"
  /\ live' = TRUE /\ written' = (IF live THEN written ELSE {})
  /\ since' = IF live THEN since ELSE turn + 1
  /\ clobbered' = (IF live THEN clobbered ELSE FALSE)
  /\ freshState
  /\ UNCHANGED <<files, copies, prepared, removals, chain, task, waits, tools, seq, evictions, calls, shellWrites,
                 before, after, foreign>>

\* The turn is about to stop: its record is awaited; a hook may then let it go on.
closingDown ==
  /\ phase = "running" /\ Quiet /\ waits = 0
  /\ enqueue(Entry("record", turn, NoCapture))
  /\ waits' = settled + 1 /\ phase' = "stopping"
  /\ UNCHANGED <<files, copies, prepared, removals, live, written, task, stateVars, turn, tools, seq,
                 evictions, calls, shellWrites, ghostVars>>
GoesOn ==
  /\ phase = "stopping" /\ waits = 0 /\ phase' = "running"
  /\ calls < MaxCalls /\ calls' = calls + 1   \* to make one more call
  /\ UNCHANGED <<files, copies, prepared, removals, live, written, chain, task, stateVars, turn, waits, tools, seq,
                 evictions, shellWrites, ghostVars>>

\* A turn cut short was not recorded when it stopped; the end records what is missing.
end ==
  /\ phase \in {"running", "stopping"} /\ Quiet /\ waits = 0
  /\ phase' = "idle"
  /\ IF attempted[turn] < lastResult[turn] THEN enqueue(Entry("record", turn, NoCapture)) ELSE UNCHANGED chain
  /\ after' = [after EXCEPT ![turn] = files]
  /\ UNCHANGED <<files, copies, prepared, removals, live, written, task, stateVars, turn, waits, tools, seq,
                 evictions, calls, shellWrites, since, before, foreign, clobbered>>

\* The session is released between two tasks (nobody sees what a running one still
\* adds): its records go, queued work is skipped, and the directory is removed later.
forget ==
  /\ live /\ phase = "idle" /\ task = NoTask
  /\ live' = FALSE /\ chain' = <<>>
  /\ records' = [t \in Turns |-> {}]
  /\ removals' = (IF written = {} THEN removals ELSE removals + 1)
  /\ UNCHANGED <<files, copies, prepared, written, task, captures, lastResult, attempted, recorded, agentVars, tools, seq,
                 evictions, calls, shellWrites, ghostVars>>
dispose ==
  /\ removals > 0 /\ removals' = removals - 1
  /\ copies' = {} /\ clobbered' = (clobbered \/ live)
  /\ UNCHANGED <<files, prepared, live, written, chain, task, stateVars, agentVars, tools, seq,
                 evictions, calls, shellWrites, since, before, after, foreign>>

\* The object is evicted: memory goes, files and copies stay.
Evict ==
  /\ evictions < MaxEvictions /\ evictions' = evictions + 1
  /\ prepared' = FALSE /\ removals' = 0 /\ live' = FALSE /\ written' = {} /\ chain' = <<>> /\ task' = NoTask
  /\ records' = [t \in Turns |-> {}] /\ phase' = "idle" /\ waits' = 0 /\ tools' = [k \in Tools |-> NoTool]
  /\ UNCHANGED <<files, copies, captures, lastResult, attempted, recorded, turn, seq, calls, shellWrites, ghostVars>>

ChangesNext ==
  \/ Begin \/ prepare \/ ReadContent \/ CaptureDone \/ NextPath \/ compared \/ Announce
  \/ \E k \in Tools : preExecute(k) \/ writeIntent(k) \/ ToolWrites(k) \/ observe(k)
  \/ ShellWrites \/ start \/ closingDown \/ GoesOn \/ end \/ forget \/ dispose \/ Evict

----------------------------------------
\* Once a turn's recording is done, its last summary lists exactly the paths the
\* file tools left different, each with what it held before the first tool wrote
\* it and what it held when the turn ended; a path something else wrote too is
\* out of scope, and so is a recorder whose copies an earlier one removed.
EditsAreListed ==
  live /\ chain = <<>> /\ ~clobbered =>
    \A t \in since .. turn, p \in Paths :
      (t < turn \/ phase = "idle") /\ <<t, p>> \notin foreign /\ before[t][p] # NoCapture =>
        {r \in records[t] : r[1] = p} =
          IF sameCapture(before[t][p], after[t][p]) THEN {} ELSE {<<p, before[t][p], after[t][p]>>}

\* What a recorder captured can be read back: "Store one path's current content
\* as a content-addressed copy".
CapturesAreStored ==
  live /\ prepared => \A t \in since .. turn, p \in Paths : StoredAsText(captures[t][p]) => captures[t][p] \in copies
=============================================================================
