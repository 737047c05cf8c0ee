-------------------------- MODULE ContainerActivity --------------------------
(***************************************************************************)
(* Admission of commands to the shared container and its idle shutdown     *)
(* (container-activity.ts).  admit is a loop around two awaits; its        *)
(* synchronous stretches are actions, and a command whose await is over    *)
(* but which has not resumed yet is "woken".  The name of a command that   *)
(* is over stands for a later command.                                     *)
(***************************************************************************)
EXTENDS Integers, FiniteSets, Sequences, SequencesExt

CONSTANTS
    Commands,
    MAX_CONCURRENT  \* CONTAINER_MAX_CONCURRENT_COMMANDS

ASSUME CommandsAssumption == IsFiniteSet(Commands)
ASSUME ConcurrencyAssumption == MAX_CONCURRENT \in Nat \ {0}

VARIABLES
    command,    \* "idle", "waiting" (for a slot), "onStop" (for the stop to
                \* settle), "woken", "running"
    inFlight,   \* slots taken
    waiters,    \* the commands waiting for a slot
    stopping,   \* a stop is in progress
    cooled,     \* the sleep window has passed since lastActivity
    aborted,    \* names whose current signal aborted
    cutIn       \* history: a stop began before a woken command resumed

activityVars == <<command, inFlight, waiters, stopping, cooled, aborted, cutIn>>

CommandsIn(st) == {c \in Commands : command[c] = st}

ActivityInit ==
    /\ command = [c \in Commands |-> "idle"]
    /\ inFlight = 0
    /\ waiters = <<>>
    /\ stopping = FALSE
    /\ cooled = TRUE
    /\ aborted = {}
    /\ cutIn = FALSE

CutInEnds == cutIn' = (cutIn /\ waiters' # <<>>)

----------------------------------------
(* admit. *)

MustWait == stopping \/ inFlight >= MAX_CONCURRENT

\* waiters.shift()?.(), after command c went to state st.
ShiftWaiters(c, st) ==
    IF waiters = <<>>
        THEN command' = [command EXCEPT ![c] = st] /\ UNCHANGED waiters
        ELSE /\ command' = [command EXCEPT ![c] = st, ![Head(waiters)] = "woken"]
             /\ waiters' = Tail(waiters)

NothingToPassOn(c, st) == command' = [command EXCEPT ![c] = st] /\ UNCHANGED waiters  \* mutant: returns early
PassOn(c, st) == ShiftWaiters(c, st)

\* Cancelled when it may go: the free slot is passed on.
GiveUp(c) ==
    /\ ~MustWait /\ c \in aborted
    /\ PassOn(c, "idle")
    /\ UNCHANGED <<inFlight, cooled>>

begin(c) ==
    /\ ~MustWait /\ c \notin aborted
    /\ inFlight' = inFlight + 1
    /\ cooled' = FALSE
    /\ command' = [command EXCEPT ![c] = "running"]
    /\ UNCHANGED waiters

\* Cancelled while it must go on waiting: nothing is passed on.
Withdraw(c) ==
    /\ MustWait /\ c \in aborted
    /\ command' = [command EXCEPT ![c] = "idle"]
    /\ UNCHANGED <<inFlight, waiters, cooled>>

Wait(c) ==
    /\ MustWait /\ c \notin aborted
    /\ \/ stopping /\ command' = [command EXCEPT ![c] = "onStop"] /\ UNCHANGED waiters
       \/ /\ ~stopping
          /\ command' = [command EXCEPT ![c] = "waiting"]
          /\ waiters' = Append(waiters, c)
    /\ UNCHANGED <<inFlight, cooled>>

\* One turn of the loop: at the call, and each time an await is over.
admit(c) ==
    /\ command[c] \in {"idle", "woken"}
    /\ GiveUp(c) \/ begin(c) \/ Withdraw(c) \/ Wait(c)
    /\ UNCHANGED <<stopping, aborted>>
    /\ CutInEnds

\* The line without the commands D.
Without(line, D) ==
    LET kept[n \in 0..Len(line)] ==
            IF n = 0 THEN <<>>
            ELSE IF line[n] \in D THEN kept[n - 1] ELSE Append(kept[n - 1], line[n])
    IN  kept[Len(line)]

\* The signals of commands D abort: one that waits rejects at once, a woken one
\* notices when it resumes.
AbortCommands(D) ==
    /\ command' = [c \in Commands |-> IF c \in D /\ command[c] \in {"waiting", "onStop"}
                                         THEN "idle" ELSE command[c]]
    /\ waiters' = Without(waiters, D)
    /\ aborted' = aborted \cup D
    /\ CutInEnds
    /\ UNCHANGED <<inFlight, stopping, cooled>>

\* The next command of that name has a signal of its own.
NewSignal(c) ==
    /\ command[c] = "idle" /\ c \in aborted
    /\ aborted' = aborted \ {c}
    /\ UNCHANGED <<command, inFlight, waiters, stopping, cooled, cutIn>>

\* The command is over: its slot is free and the first waiter woken.
ReleaseSlot(c) ==
    /\ command[c] = "running"
    /\ inFlight' = inFlight - 1
    /\ ShiftWaiters(c, "idle")
    /\ cooled' = FALSE
    /\ UNCHANGED <<stopping, aborted>>
    /\ CutInEnds

----------------------------------------
(* Stopping. *)

NoneInFlight == inFlight = 0

BeginStop ==
    /\ ~stopping
    /\ stopping' = TRUE
    /\ cutIn' = (waiters # <<>> /\ (cutIn \/ CommandsIn("woken") # {}))
    /\ UNCHANGED <<command, inFlight, waiters, cooled, aborted>>

stopIfIdle == NoneInFlight /\ cooled /\ BeginStop
stopNow    == NoneInFlight /\ BeginStop

\* destroy settled; a failed stop restarts the idle window.
StopSettles(failed) ==
    /\ stopping
    /\ stopping' = FALSE
    /\ cooled' = (cooled /\ ~failed)
    /\ command' = [c \in Commands |-> IF command[c] = "onStop" THEN "woken" ELSE command[c]]
    /\ UNCHANGED <<inFlight, waiters, aborted, cutIn>>

\* The window passes; timers run after every woken command resumed.
Cool ==
    /\ ~cooled /\ CommandsIn("woken") = {}
    /\ cooled' = TRUE
    /\ UNCHANGED <<command, inFlight, waiters, stopping, aborted, cutIn>>

StoppingNext == stopIfIdle \/ stopNow \/ (\E failed \in BOOLEAN : StopSettles(failed)) \/ Cool

ActivityNext ==
    \/ StoppingNext
    \/ \E c \in Commands : admit(c) \/ AbortCommands({c}) \/ NewSignal(c) \/ ReleaseSlot(c)

ActivitySpec == ActivityInit /\ [][ActivityNext]_activityVars

----------------------------------------
(* Properties. *)

ActivityTypeOK ==
    /\ command \in [Commands -> {"idle", "waiting", "onStop", "woken", "running"}]
    /\ inFlight \in Nat
    /\ waiters \in Seq(Commands)
    /\ stopping \in BOOLEAN /\ cooled \in BOOLEAN /\ cutIn \in BOOLEAN
    /\ aborted \subseteq Commands

\* Slots are counted exactly and never oversubscribed, although a newcomer can
\* take the slot a woken command was about to take.
SlotsExact ==
    /\ inFlight = Cardinality(CommandsIn("running"))
    /\ inFlight <= MAX_CONCURRENT

\* The container is never destroyed underneath a command.
StopSparesCommands == stopping => CommandsIn("running") = {}

\* A command waits for a slot only while someone will wake it, unless a stop
\* cut in between a wake-up and the resumption it was meant for.
WaiterHasWaker == waiters # <<>> => CommandsIn("running") \cup CommandsIn("woken") # {} \/ cutIn

\* The same without the exception, as the comment on admit has it ("Cancelled
\* between being woken and resuming: pass the free slot on").
FreeSlotIsPassedOn ==
    waiters # <<>> /\ ~stopping => CommandsIn("running") \cup CommandsIn("woken") # {}
==============================================================================
