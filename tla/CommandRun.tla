----------------------------- MODULE CommandRun -----------------------------
(***************************************************************************)
(* One shell command from its start to its result (workspace.ts), with the *)
(* capture of its output (edge-shell-output.ts): a tail kept in memory and *)
(* the whole stream spilled to a file through a bounded queue, against a   *)
(* caller that cancels, a shell that may not stop, a deadline, and storage *)
(* that stalls or fails.  Output is a sequence of numbered bytes, one to a *)
(* spill slice; stdout and stderr are captured alike, so there is one.     *)
(***************************************************************************)
EXTENDS Integers, Sequences, SequencesExt, FiniteSetsExt

CONSTANTS TailBytes, SpillMax, SpillQueue, MaxOutput, ChunkSizes,
          Continues   \* the bytes of the output that continue a UTF-8 character

\* The owner's cap on the inline tail is at most the spill queue
\* (SHELL_OUTPUT_BYTES_RANGE, SPILL_QUEUE_BYTES): the held prefix is queued
\* without a wait.
ASSUME TailFitsTheQueue ==
  /\ {TailBytes, SpillMax, SpillQueue, MaxOutput} \cup ChunkSizes \subseteq Nat
  /\ TailBytes <= SpillQueue

\* A UTF-8 character has a first byte and at most three that continue it.
ASSUME CharactersAreShort ==
  \A n \in Continues : \E k \in 1..3 : k < n /\ n - k \notin Continues

VARIABLES
  answersLate,   \* a Worker shell answers exec only once the command is over
  command,       \* "none", "running" or "over"
  emitted,       \* bytes it has written
  toolCall,      \* "idle", "preparing", "starting", "reading", "pushing", "closing", "returned" or "thrown"
  aborted, interrupted,        \* the caller's signal; interruptionRequested
  grace, deadlineTimer,        \* "off", "armed" or "over"
  expired,                     \* the command's deadline has passed
  taken,         \* bytes read from the event stream
  capture,       \* [held, over, todo, chunk, spilled, partial, failed]
  spilling,      \* "none", "open" or "closing"
  queue, file, stored,         \* the spill's; stored: its write has settled
  exit,          \* the exit event that was read, or NoExit
  result,
  lingering      \* onDetached: "none", "late", "deadline" or "settled"
shell == <<answersLate, command, emitted>>
clocks == <<aborted, interrupted, grace, deadlineTimer, expired>>
output == <<taken, capture, spilling, queue, file, stored>>
ending == <<exit, result, lingering>>
commandVars == <<shell, toolCall, clocks, output, ending>>

Bytes(n) == [i \in 1..n |-> i]
LastOf(s, n) == SubSeq(s, Max({1, Len(s) - n + 1}), Len(s))
NewCapture == [held |-> <<>>, over |-> FALSE, todo |-> <<>>, chunk |-> <<>>,
               spilled |-> 0, partial |-> FALSE, failed |-> FALSE]
NoExit == [code |-> -1, completed |-> "no", light |-> FALSE]
NoResult == [text |-> <<>>, truncated |-> FALSE, path |-> FALSE, partial |-> FALSE, pending |-> FALSE,
             detached |-> FALSE, status |-> "none", timedOut |-> FALSE, light |-> FALSE,
             read |-> 0, lost |-> 0]

CommandInit ==
  /\ answersLate \in BOOLEAN /\ command = "none" /\ emitted = 0 /\ toolCall = "idle"
  /\ aborted = FALSE /\ interrupted = FALSE /\ grace = "off" /\ deadlineTimer = "off" /\ expired = FALSE
  /\ taken = 0 /\ capture = NewCapture /\ spilling = "none" /\ queue = <<>> /\ file = <<>> /\ stored = FALSE
  /\ exit = NoExit /\ result = NoResult /\ lingering = "none"

----------------------------------------
(* The shell, the caller's signal and the timers. *)

Emit == command = "running" /\ emitted < MaxOutput /\ emitted' = emitted + 1
        /\ UNCHANGED <<answersLate, command, toolCall, clocks, output, ending>>
\* The command ends by itself, by an interrupt or by the shell's timeout.
Ends == command = "running" /\ command' = "over"
        /\ UNCHANGED <<answersLate, emitted, toolCall, clocks, output, ending>>

\* An abort interrupts what starts or runs and starts the grace; while spills
\* are closed the command has ended and only the wait is cut short.
abort ==
  /\ toolCall \notin {"returned", "thrown"} /\ ~aborted /\ aborted' = TRUE
  /\ interrupted' = (interrupted \/ toolCall \in {"starting", "reading", "pushing"})
  /\ grace' = IF grace = "off" /\ toolCall \notin {"idle", "preparing"} THEN "armed" ELSE grace
  /\ UNCHANGED <<shell, toolCall, deadlineTimer, expired, output, ending>>
graceExpired ==
  /\ grace = "armed" /\ toolCall \notin {"returned", "thrown"} /\ grace' = "over"
  /\ UNCHANGED <<shell, toolCall, aborted, interrupted, deadlineTimer, expired, output, ending>>
deadlinePasses ==
  /\ toolCall \notin {"idle", "preparing"} /\ ~expired /\ expired' = TRUE
  /\ UNCHANGED <<shell, toolCall, aborted, interrupted, grace, deadlineTimer, output, ending>>
stopAtDeadline ==
  /\ deadlineTimer = "armed" /\ expired /\ toolCall \in {"reading", "pushing"} /\ deadlineTimer' = "over"
  /\ UNCHANGED <<shell, toolCall, aborted, interrupted, grace, expired, output, ending>>

----------------------------------------
(* The capture. *)

\* Drop from the front what the tail no longer covers.
trimTail(held) == LastOf(held, TailBytes)

\* Slices go out while the queue has room, up to the cap; the chunk joins the
\* tail once the held prefix before it is queued and before its own write.
Room(c, q) == Min({SpillQueue - Len(q), SpillMax - c.spilled, Len(c.todo)})
sends(c, n) == [c EXCEPT !.todo = SubSeq(@, n + 1, Len(@)), !.spilled = @ + n]
cutOff(c) == c.spilled + Len(c.todo) > SpillMax
Took(c) == [c EXCEPT !.held = trimTail(@ \o c.chunk), !.chunk = <<>>]
tailAfterWrite(before, after) == IF before.chunk # <<>> /\ after.todo = <<>> THEN Took(after) ELSE after
                                              \* mutant: the tail waits for storage
TakesTail(before, after) == IF before.chunk # <<>> /\ Len(after.todo) <= Len(before.chunk)
                            THEN Took(after) ELSE after
Dropped(c) == TakesTail(c, [c EXCEPT !.todo = <<>>])
write(c, q) ==
  IF c.failed THEN [capture |-> Dropped(c), queue |-> q]
  ELSE LET n == Room(c, q)
           sent == sends(c, n)
           told == [sent EXCEPT !.partial = @ \/ cutOff(c)]
       IN [capture |-> IF sent.spilled = SpillMax THEN Dropped(told) ELSE TakesTail(c, told),
           queue |-> q \o SubSeq(c.todo, 1, n)]

Fits(chunk) == ~capture.over /\ Len(capture.held) + Len(chunk) <= TailBytes
overflowing(chunk) == [capture EXCEPT !.over = TRUE, !.chunk = chunk,
                                      !.todo = IF capture.over THEN chunk ELSE capture.held \o chunk]
startSpill == IF spilling = "none" THEN "open" ELSE spilling
pushChunk(chunk) ==
  IF Fits(chunk)
  THEN /\ capture' = [capture EXCEPT !.held = @ \o chunk]
       /\ toolCall' = "reading" /\ UNCHANGED <<queue, spilling>>
  ELSE LET w == write(overflowing(chunk), queue)
       IN /\ capture' = w.capture /\ queue' = w.queue
          /\ toolCall' = IF w.capture.todo = <<>> THEN "reading" ELSE "pushing"
          /\ spilling' = startSpill

\* The interrupted command outlived its grace, or its output waits for storage
\* past the command's deadline: a push that has to write is not waited for.
pushGivesUp == grace = "over" \/ deadlineTimer = "over"
Reading(n) == toolCall = "reading" /\ exit = NoExit /\ (answersLate => command = "over")
              /\ taken + n <= emitted /\ taken' = taken + n
NextChunk(n) == SubSeq(Bytes(emitted), taken + 1, taken + n)

ReadOutput ==
  /\ \E n \in ChunkSizes : /\ n > 0 /\ Reading(n)
                           /\ Fits(NextChunk(n)) \/ ~pushGivesUp
                           /\ pushChunk(NextChunk(n))
  /\ deadlineTimer' = IF deadlineTimer = "off" THEN "armed" ELSE deadlineTimer
  /\ UNCHANGED <<shell, aborted, interrupted, grace, expired, file, stored, ending>>
\* The writer is ready again, or has failed.
PushGoesOn ==
  /\ toolCall = "pushing" /\ ~pushGivesUp /\ (capture.failed \/ Len(queue) < SpillQueue)
  /\ LET w == write(capture, queue) IN
     /\ capture' = w.capture /\ queue' = w.queue
     /\ toolCall' = IF w.capture.todo = <<>> THEN "reading" ELSE "pushing"
  /\ UNCHANGED <<shell, clocks, taken, spilling, file, stored, ending>>

\* Storage takes a slice, fails, or ends the file once the writer is closed.
Store ==
  /\ queue # <<>> /\ ~stored
  /\ file' = Append(file, Head(queue)) /\ queue' = Tail(queue)
  /\ UNCHANGED <<shell, toolCall, clocks, taken, capture, spilling, stored, ending>>
StoreFails ==
  /\ spilling # "none" /\ ~stored /\ stored' = TRUE /\ queue' = <<>>
  /\ capture' = [capture EXCEPT !.failed = TRUE]
  /\ UNCHANGED <<shell, toolCall, clocks, taken, spilling, file, ending>>
StoreEnds ==
  /\ spilling = "closing" /\ queue = <<>> /\ ~stored /\ stored' = TRUE
  /\ UNCHANGED <<shell, toolCall, clocks, taken, capture, spilling, queue, file, ending>>

----------------------------------------
(* The call. *)

\* The directory is made first unless the caller did; the deadline, the abort
\* listener and the command begin together, unless the call was aborted.
mkdir ==
  /\ toolCall = "idle" /\ ~aborted /\ toolCall' = "preparing"
  /\ UNCHANGED <<shell, clocks, output, ending>>
exec ==
  /\ toolCall \in {"idle", "preparing"} /\ ~aborted /\ toolCall' = "starting" /\ command' = "running"
  /\ UNCHANGED <<answersLate, emitted, clocks, output, ending>>
Refused ==
  /\ toolCall = "preparing" \/ (toolCall = "idle" /\ aborted)
  /\ toolCall' = "thrown" /\ UNCHANGED <<shell, clocks, output, ending>>
ExecFails ==
  /\ toolCall = "starting" /\ command = "running" /\ emitted = 0 /\ toolCall' = "thrown" /\ command' = "over"
  /\ UNCHANGED <<answersLate, emitted, clocks, output, ending>>
Answered ==
  /\ toolCall = "starting" /\ (answersLate => command = "over") /\ toolCall' = "reading"
  /\ UNCHANGED <<shell, clocks, output, ending>>
ReadFails ==
  /\ toolCall = "reading" /\ toolCall' = "thrown"
  /\ UNCHANGED <<shell, clocks, output, ending>>

\* A tail cut can start inside a character: up to three leading bytes that
\* continue one are dropped, and an unfinished one at the end is held back.
skipped(bytes, cut) ==
  Min({k \in 0..3 : ~cut \/ k = 3 \/ k >= Len(bytes) \/ bytes[k + 1] \notin Continues})
completeTo(bytes) == Max({k \in 0..Len(bytes) : k = 0 \/ bytes[k] + 1 \notin Continues})
decodeTail(bytes, cut) == SubSeq(bytes, skipped(bytes, cut) + 1, completeTo(bytes))

closesSpill(now) == IF now = "open" THEN "closing" ELSE now
executionStatus(code, stopped) ==
  IF stopped THEN "cancelled" ELSE IF code = 0 THEN "completed" ELSE "failed"
timedOut == IF exit.completed = "no" THEN expired ELSE exit.completed = "late"
\* What finish() and streamFacts() report of a capture after so many bytes.
\* pending: the spill has not settled; lost: read, but not in the tail.
finishCapture(c, read, stopped) ==
  LET path == c.over /\ ~c.failed IN
  [NoResult EXCEPT !.text = decodeTail(c.held, c.over), !.truncated = c.over,
                   !.path = path, !.partial = path /\ c.partial, !.pending = path /\ ~stored,
                   !.status = executionStatus(exit.code, stopped), !.timedOut = timedOut,
                   !.light = exit.light, !.read = read, !.lost = Len(c.chunk)]

\* Nothing came within the grace: stop waiting for the execution itself.
StopsWaiting ==
  /\ toolCall = "starting" /\ grace = "over" /\ toolCall' = "returned"
  /\ result' = [NoResult EXCEPT !.status = "cancelled", !.detached = TRUE]
  /\ lingering' = "late"
  /\ UNCHANGED <<shell, clocks, output, exit>>
leavesCommand(c, read) ==
  /\ toolCall' = "returned" /\ interrupted' = TRUE /\ lingering' = "deadline"
  /\ result' = [finishCapture(c, read, TRUE) EXCEPT !.detached = TRUE]
  /\ UNCHANGED <<shell, aborted, grace, deadlineTimer, expired, file, stored, exit>>
Detaches ==
  /\ (toolCall = "reading" /\ grace = "over") \/ (toolCall = "pushing" /\ pushGivesUp)
  /\ spilling' = closesSpill(spilling) /\ leavesCommand(capture, taken)
  /\ UNCHANGED <<taken, capture, queue>>
\* A push that began after that may have queued some slices, and the held
\* prefix before a first overflow may not be through before the chunk is due.
ReadTooLate ==
  /\ pushGivesUp
  /\ \E n \in ChunkSizes : 
       LET c == overflowing(NextChunk(n)) IN
       /\ n > 0 /\ Reading(n) /\ ~Fits(NextChunk(n))
       /\ \E k \in 0..(IF c.failed THEN 0 ELSE Room(c, queue)) :
            LET left == TakesTail(c, sends(c, k)) IN
            /\ queue' = queue \o SubSeq(c.todo, 1, k)
            /\ capture' = [left EXCEPT !.partial = @ \/ (left.chunk = <<>> /\ cutOff(c))]
  /\ spilling' = closesSpill(startSpill) /\ leavesCommand(capture', taken')
\* A push left behind finds the writer closed.
PushLeftBehind ==
  /\ toolCall = "returned" /\ capture.todo # <<>>
  /\ capture' = Dropped([capture EXCEPT !.failed = TRUE])
  /\ UNCHANGED <<shell, toolCall, clocks, taken, spilling, queue, file, stored, ending>>

\* The exit event; the lightweight shell may have stopped at its own bound.
ReadExit ==
  /\ toolCall = "reading" /\ command = "over" /\ taken = emitted /\ exit = NoExit
  /\ \E code \in {0, 1}, light \in BOOLEAN :
       /\ light => answersLate
       /\ exit' = [code |-> code, completed |-> IF expired THEN "late" ELSE "inTime", light |-> light]
       /\ interrupted' = (interrupted \/ light)
  /\ UNCHANGED <<shell, toolCall, aborted, grace, deadlineTimer, expired, output, result, lingering>>
\* The stream is done, and its spill is closed.
ReadEnd ==
  /\ toolCall = "reading" /\ command = "over" /\ taken = emitted
  /\ toolCall' = "closing" /\ spilling' = closesSpill(spilling)
  /\ UNCHANGED <<shell, clocks, taken, capture, queue, file, stored, ending>>
settledWithin == spilling = "none" \/ stored \/ expired \/ grace = "over"
Returns ==
  /\ toolCall = "closing" /\ settledWithin /\ toolCall' = "returned"
  /\ result' = finishCapture(capture, taken, interrupted)
  /\ UNCHANGED <<shell, clocks, output, exit, lingering>>

\* The slot or turn a detached command keeps: a late answer is drained to the
\* command's end; otherwise only its own timeout bounds it.
exited == lingering = "late" /\ command = "over"
Released ==
  /\ exited \/ (lingering \in {"late", "deadline"} /\ expired)
  /\ lingering' = "settled"
  /\ UNCHANGED <<shell, toolCall, clocks, output, exit, result>>

CommandNext ==
  \/ Emit \/ Ends \/ abort \/ graceExpired \/ deadlinePasses \/ stopAtDeadline
  \/ ReadOutput \/ PushGoesOn \/ Store \/ StoreFails \/ StoreEnds
  \/ mkdir \/ exec \/ Refused \/ ExecFails \/ Answered \/ ReadFails \/ StopsWaiting
  \/ Detaches \/ ReadTooLate \/ PushLeftBehind \/ ReadExit \/ ReadEnd \/ Returns \/ Released

\* Timers fire, the directory is made or not, the shell ends every command by
\* its timeout at the latest, and the call takes the steps it can; storage of a
\* spill owes nothing.
CommandFairness ==
  /\ WF_commandVars(graceExpired) /\ WF_commandVars(deadlinePasses) /\ WF_commandVars(stopAtDeadline)
  /\ WF_commandVars(Ends)
  /\ WF_commandVars(toolCall = "preparing" /\ (exec \/ Refused))
  /\ WF_commandVars(Answered \/ ReadOutput \/ ReadTooLate \/ PushGoesOn \/ ReadEnd \/ Returns
                    \/ Detaches \/ StopsWaiting)
  /\ WF_commandVars(Released)

CommandSpec == CommandInit /\ [][CommandNext]_commandVars /\ CommandFairness

----------------------------------------
\* The bytes from the first to the last whose characters lie between them.
Whole(first, last) ==
  {i \in first..last : /\ \E k \in first..i : k \notin Continues
                       /\ \E k \in (i + 1)..(last + 1) : k \notin Continues}

\* The text is every whole character of the last bytes that were read, in
\* order, whatever storage does ("a result taken while that write is pending
\* still ends with it"); only the first chunk beyond the tail may be missing, of a
\* command that was given up before it was read.
TextIsTheTail ==
  toolCall = "returned" /\ result.read > 0 =>
    LET last == result.read - result.lost IN
    /\ ToSet(result.text) = Whole(Max({1, last - TailBytes + 1}), last)
    /\ \A i \in DOMAIN result.text : result.text[i] = result.text[1] + i - 1
    /\ last > TailBytes => result.truncated
    /\ result.truncated => result.read > TailBytes
    /\ result.lost > 0 => result.detached /\ last <= TailBytes

\* A spill a result names is what it says: the whole stream when it is neither
\* partial nor pending, its first bytes when partial; and never out of order.
SpillIsAsReported ==
  /\ file = Bytes(Len(file))
  /\ toolCall = "returned" /\ result.path /\ ~result.pending =>
       Len(file) = IF result.partial THEN SpillMax ELSE result.read

\* Memory stays within the tail and the spill queue for any output.
CaptureIsBounded == Len(capture.held) <= TailBytes /\ Len(queue) <= SpillQueue

\* A command that is reported to have completed ended with code 0 and all it
\* wrote was read; one that is left running is reported cancelled, and none
\* that ended in time is reported timed out.
StatusIsTrue ==
  toolCall = "returned" =>
    /\ result.status = "completed" => /\ exit.code = 0 /\ command = "over" /\ ~result.light
                                      /\ result.read = emitted /\ ~result.detached
    /\ command # "over" => result.detached
    /\ result.detached => result.status = "cancelled"
    /\ result.timedOut => expired /\ exit.completed # "inTime"

\* A turn or slot is handed on only when the command is over, or its timeout.
SlotCoversTheCommand ==
  lingering = "settled" \/ (toolCall = "returned" /\ lingering = "none") => command = "over" \/ expired

\* A command's answer says how it ended, what was read, stored and cut off,
\* keeps memory bounded and lets nothing run on unseen (edge-bash-tool.ts,
\* edge-shell-output.ts).
CommandIsExact ==
  TextIsTheTail /\ SpillIsAsReported /\ CaptureIsBounded /\ StatusIsTrue /\ SlotCoversTheCommand

\* Every call ends, whatever the caller, the shell's output and storage do.
CallsEnd == []<>(toolCall \in {"idle", "returned", "thrown"})
=============================================================================
