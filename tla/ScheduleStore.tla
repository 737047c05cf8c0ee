---------------------------- MODULE ScheduleStore ----------------------------
(***************************************************************************)
(* Reminders (schedule-store.ts): tasks, their delivery history, the retry *)
(* rows and the alarm, with the owner's queue reduced to what reminders    *)
(* read of it: how many inputs a session has queued, which sessions are    *)
(* paused and which one runs.  An operation on tasks commits one           *)
(* transaction, its alarm included, and is one action.  The wake that      *)
(* follows an input, a claim or the end of a drive is a step of its own,   *)
(* which may fail or never come.  Times are whole units.                   *)
(***************************************************************************)
EXTENDS Integers, FiniteSets, FiniteSetsExt

CONSTANTS
    Sessions,
    Tasks,              \* names of tasks; the name of a deleted task is free
                        \* again and then stands for another (random) id
    TaskSession,        \* the session of each task
    Periods,            \* periods of recurring rules
    MAX_ACTIVE_SCHEDULES,
    MAX_ENDED_SCHEDULES,
    RetentionRecords,   \* DELIVERY_RETENTION
    RetentionTime,
    LastInstant,        \* no recurring rule has an occurrence after it
    MAIN_QUEUE_LIMIT,
    MAIN_WAKE_MS,
    MaxTime,            \* bound of the clock
    None

ASSUME TasksAssumption ==
    /\ IsFiniteSet(Tasks) /\ IsFiniteSet(Sessions) /\ None \notin Sessions /\ None \notin Nat
    /\ TaskSession \in [Tasks -> Sessions]
ASSUME ScheduleLimitsAssumption ==
    /\ Periods \subseteq Nat \ {0}
    /\ {MAX_ACTIVE_SCHEDULES, MAX_ENDED_SCHEDULES, RetentionRecords, RetentionTime,
        MAIN_QUEUE_LIMIT, MAIN_WAKE_MS, MaxTime, LastInstant} \subseteq Nat \ {0}

VARIABLES
    status,   \* per task: "none" while it has no row, "active" or "ended"
    rule,     \* its period, 0 for a one-shot
    due,      \* scheduledAt of its record
    history,  \* its saved deliveries
    pruned,   \* earlierPruned of its delivery summary
    retry,    \* per session: retry_at, 0 without a row
    alarm,    \* the Durable Object alarm, None when unset
    now,
    waitingInputs, \* per session: its queued inputs
    paused,   \* sessions whose ready row is paused
    running,  \* the session of the claimed input, or None
    claim,    \* that claim is "live", "stale" (its process died) or "resumed"
              \* (stale, and a user wrote to its session since)
    driving,  \* where driveMain stands
    handler,  \* the alarm handler: "none", "driving" (until the wake after its
              \* drive) or "waking" (until its own)
    call,     \* what waits for scheduleMainWake: "none", an "input" that is
              \* queued or a "drive" that has ended
    \* History.
    unwoken,  \* sessions whose pause a user lifted, with no wake set since
    cut,      \* a wake of theirs failed, or died with its process
    lastKey,  \* per task: the latest scheduledAt an input id was made from
    count     \* per task: deliveries ever made

taskVars  == <<status, rule, due>>
savedVars == <<history, pruned, lastKey, count>>
driveVars == <<driving, handler, call>>
alarmVars == <<alarm, unwoken, cut>>
queueVars == <<waitingInputs, paused, running, claim>>
scheduleVars == <<taskVars, savedVars, retry, alarmVars, now, queueVars, driveVars>>

TasksIn(st) == {t \in Tasks : status[t] = st}
ActiveOf(s) == {t \in TasksIn("active") : TaskSession[t] = s}

\* The queued inputs, each by its place in its session's queue.
QueuedRows(w) == UNION {{s} \X (1..w[s]) : s \in Sessions}
Pending == Cardinality(QueuedRows(waitingInputs)) + (IF running = None THEN 0 ELSE 1)

\* The later of a task's due time and its session's retry time.
WakeOf(t) == Max({due[t], retry[TaskSession[t]]})

AllActive == TasksIn("active")  \* mutant of Candidates: the pause is ignored

\* nextSchedule: tasks of paused sessions do not count.
Candidates == {t \in TasksIn("active") : TaskSession[t] \notin paused}
NextDue == Min({WakeOf(t) : t \in Candidates})

hasWork == running # None \/ \E s \in Sessions \ paused : waitingInputs[s] > 0

ScheduleInit ==
    /\ status = [t \in Tasks |-> "none"]
    /\ rule = [t \in Tasks |-> 0]
    /\ due = [t \in Tasks |-> 0]
    /\ history = [t \in Tasks |-> {}]
    /\ pruned = [t \in Tasks |-> FALSE]
    /\ retry = [s \in Sessions |-> 0]
    /\ alarm = None
    /\ now = 1
    /\ waitingInputs = [s \in Sessions |-> 0]
    /\ paused = {}
    /\ running = None /\ claim = "live"
    /\ driving = "idle" /\ handler = "none" /\ call = "none"
    /\ unwoken = {} /\ cut = FALSE
    /\ lastKey = [t \in Tasks |-> 0]
    /\ count = [t \in Tasks |-> 0]

----------------------------------------
(* The two ways the alarm is computed: armScheduleWake on the state after  *)
(* its operation, scheduleMainWake on the state it finds.                  *)

ArmTarget ==
    Min({NextDue : t \in Candidates} \cup (IF Pending > 0 THEN {now + MAIN_WAKE_MS} ELSE {}))

\* armScheduleWake only moves the alarm forward.
armScheduleWake ==
    /\ LET wanted == Candidates' # {} \/ Pending' > 0 IN
       alarm' = IF wanted /\ (alarm = None \/ ArmTarget' < alarm)
                   THEN Max({now + 1, ArmTarget'}) ELSE alarm
    /\ unwoken' = {} /\ UNCHANGED cut

\* scheduleMainWake merges the sources, or deletes the alarm: a drive under way
\* recomputes it when it ends, so it is only a recovery wake.
Delay(busy) == now + (IF busy THEN MAIN_WAKE_MS ELSE 1)

WakeTimes ==
    {Max({NextDue, Delay(driving # "idle")}) : t \in Candidates}
        \cup (IF hasWork THEN {Delay(driving # "idle" \/ running # None)} ELSE {})

scheduleMainWake ==
    /\ alarm' = IF WakeTimes = {} THEN None ELSE Min(WakeTimes)
    /\ unwoken' = {} /\ cut' = FALSE

\* It never comes: its write fails, or the process dies.
WakeIsCut == UNCHANGED unwoken /\ cut' = (cut \/ unwoken # {})

\* An alarm handler that fails or dies is delivered again.
Redelivered(handling) == alarm' = IF handling /\ alarm = None THEN now ELSE alarm

----------------------------------------
(* The Remote operations on tasks. *)

\* A rule with its first target after now.
FutureRule(p, at) == at > now /\ (p # 0 => at = now + p)

Create(t, p, at) ==
    /\ status[t] = "none"
    /\ FutureRule(p, at)
    /\ Cardinality(TasksIn("active")) < MAX_ACTIVE_SCHEDULES
    /\ status' = [status EXCEPT ![t] = "active"]
    /\ rule' = [rule EXCEPT ![t] = p]
    /\ due' = [due EXCEPT ![t] = at]
    /\ UNCHANGED <<savedVars, retry, now, queueVars, driveVars>>
    /\ armScheduleWake

\* Retiming an active task against its current record; an unchanged rule
\* keeps the target.
Update(t, p, at) ==
    /\ status[t] = "active"
    /\ FutureRule(p, at)
    /\ rule' = [rule EXCEPT ![t] = p]
    /\ due' = [due EXCEPT ![t] = IF p # 0 /\ p = rule[t] THEN @ ELSE at]
    /\ <<rule', due'>> # <<rule, due>>
    /\ UNCHANGED <<status, savedVars, retry, now, queueVars, driveVars>>
    /\ armScheduleWake

Cleared(f, D) == [t \in Tasks |-> IF t \in D THEN 0 ELSE f[t]]

\* deleteTask: the rows and their saved deliveries go together.
deleteTasks(D) ==
    /\ status' = [t \in Tasks |-> IF t \in D THEN "none" ELSE status[t]]
    /\ history' = [t \in Tasks |-> IF t \in D THEN {} ELSE history[t]]
    /\ pruned' = [t \in Tasks |-> pruned[t] /\ t \notin D]
    /\ rule' = Cleared(rule, D) /\ due' = Cleared(due, D)
    /\ lastKey' = Cleared(lastKey, D) /\ count' = Cleared(count, D)

pruneScheduleRetry(s) ==
    retry' = [retry EXCEPT ![s] = IF ActiveOf(s)' = {} THEN 0 ELSE @]

Delete(t) ==
    /\ status[t] \in {"active", "ended"}
    /\ deleteTasks({t})
    /\ pruneScheduleRetry(TaskSession[t])
    /\ UNCHANGED <<alarmVars, now, queueVars, driveVars>>

\* workspace/session-stop: an archived session loses its reminders.
SessionStop(s) ==
    /\ ActiveOf(s) # {}
    /\ deleteTasks(ActiveOf(s))
    /\ pruneScheduleRetry(s)
    /\ UNCHANGED <<alarmVars, now, queueVars, driveVars>>

----------------------------------------
(* Delivery. *)

DueOf(s) == {t \in ActiveOf(s) : due[t] <= now}
OneShots(s) == {t \in DueOf(s) : rule[t] = 0}

\* What one input delivers: the earliest one-shot, else every recurring task.
Groups(s) == IF OneShots(s) # {} THEN {{t} : t \in {u \in OneShots(s) : \A v \in OneShots(s) : due[u] <= due[v]}}
                                 ELSE {DueOf(s)}

\* Mutant of NextOccurrence: the occurrence that is due now counts.
OccurrenceFromNow(t) == Min({n \in now..(now + rule[t]) : (n - due[t]) % rule[t] = 0})

\* The first occurrence after now; the latest one is a period earlier.
NextOccurrence(t) == Min({n \in (now + 1)..(now + rule[t]) : (n - due[t]) % rule[t] = 0})

\* recordDelivery: append, then drop what is too many or too old.
NextSeq(t) == Max({d.seq : d \in history[t]} \cup {-1}) + 1
Saved(t)   == history[t] \cup {[seq |-> NextSeq(t), at |-> now]}
Kept(t)    == {d \in Saved(t) : d.seq > NextSeq(t) - RetentionRecords /\ d.at >= now - RetentionTime}

\* Ended tasks beyond the newest are deleted with their history.
Expired(ended, last) ==
    {E \in SUBSET ended :
        /\ Cardinality(E) = Max({0, Cardinality(ended) - MAX_ENDED_SCHEDULES})
        /\ \A t \in E, u \in ended \ E : last[t] <= last[u]}

\* The first of a group in delivery order; it names the input.
Firsts(G) == {t \in G : \A u \in G : due[t] <= due[u]}

\* insertMainInput refuses an identity that was used before.
KeyIsNew(t) == due[t] > lastKey[t]

\* One group: its input, its history, its next targets, in one transaction.  A
\* one-shot ends, and so does a rule that has no further occurrence; the row
\* of an ended task keeps its last target.
Deliver(s, G) ==
    \E first \in Firsts(G) :
        LET goesOn == {t \in G : rule[t] # 0 /\ NextOccurrence(t) <= LastInstant}
            ended  == TasksIn("ended") \cup (G \ goesOn)
            target == [t \in Tasks |-> IF t \in goesOn THEN NextOccurrence(t) ELSE due[t]]
        IN \E E \in Expired(ended, target) :
            /\ KeyIsNew(first)
            /\ waitingInputs' = [waitingInputs EXCEPT ![s] = @ + 1]
            /\ status' = [t \in Tasks |-> CASE t \in E -> "none"
                                            [] t \in ended \ E -> "ended"
                                            [] OTHER -> status[t]]
            /\ rule' = Cleared(rule, E) /\ due' = Cleared(target, E)
            /\ history' = [t \in Tasks |-> CASE t \in E -> {} [] t \in G \ E -> Kept(t) [] OTHER -> history[t]]
            /\ pruned' = [t \in Tasks |-> /\ t \notin E
                                          /\ pruned[t] \/ (t \in G /\ Kept(t) # Saved(t))]
            /\ lastKey' = Cleared([lastKey EXCEPT ![first] = due[first]], E)
            /\ count' = Cleared([t \in Tasks |-> count[t] + (IF t \in G THEN 1 ELSE 0)], E)

Full == Pending >= MAIN_QUEUE_LIMIT

\* driveMain's reminder block: the retry row is written first, and cleared
\* only by a delivery; a full queue or an error leaves it.
dispatchDueSchedules ==
    IF Candidates = {} \/ NextDue > now
        THEN UNCHANGED <<taskVars, savedVars, retry, waitingInputs>>
        ELSE \E t \in {u \in Candidates : WakeOf(u) = NextDue} :
            LET s == TaskSession[t] IN
            \/ /\ ~Full
               /\ \E G \in Groups(s) : Deliver(s, G)
               /\ retry' = [retry EXCEPT ![s] = 0]
            \/ /\ retry' = [retry EXCEPT ![s] = now + MAIN_WAKE_MS]
               /\ UNCHANGED <<taskVars, savedVars, waitingInputs>>

----------------------------------------
(* The drive, reduced to what reminders meet. *)

kickMain ==
    IF driving = "idle" THEN driving' = (IF running # None THEN "closing" ELSE "dispatching")
                        ELSE UNCHANGED driving

AlarmFires ==
    /\ alarm # None /\ alarm <= now /\ handler = "none"
    /\ alarm' = None
    /\ handler' = IF driving = "idle" THEN "driving" ELSE "waking"
    /\ kickMain
    /\ UNCHANGED <<taskVars, savedVars, retry, now, queueVars, call, unwoken, cut>>

\* driveMain's finally: mainDriving is reset, and the wake waits.
StopDriving == driving' = "idle" /\ call' = "drive"

\* finish: what the session still has queued is paused after an interruption.
finishResidency(interrupted) ==
    /\ running' = None /\ claim' = "live"
    /\ paused' = (paused \ {running}) \cup (IF interrupted /\ claim # "resumed" /\ waitingInputs[running] > 0
                                              THEN {running} ELSE {})
    /\ UNCHANGED waitingInputs

\* The stale claim is closed, or its agent cannot be resumed yet.
CloseStale ==
    /\ driving = "closing"
    /\ UNCHANGED <<taskVars, savedVars, retry, now, alarmVars, handler>>
    /\ \/ finishResidency(TRUE) /\ driving' = "dispatching" /\ UNCHANGED call
       \/ UNCHANGED queueVars /\ StopDriving

DispatchDue ==
    /\ driving = "dispatching"
    /\ dispatchDueSchedules
    /\ driving' = "claiming"
    /\ UNCHANGED <<alarmVars, now, paused, running, claim, handler, call>>

Claim ==
    /\ driving = "claiming"
    /\ UNCHANGED <<taskVars, savedVars, retry, now, alarmVars, paused, claim, handler>>
    /\ \/ \E s \in Sessions \ paused :
            /\ waitingInputs[s] > 0
            /\ waitingInputs' = [waitingInputs EXCEPT ![s] = @ - 1]
            /\ running' = s
            /\ driving' = "claimed"
            /\ UNCHANGED call
       \/ /\ \A s \in Sessions \ paused : waitingInputs[s] = 0
          /\ UNCHANGED <<waitingInputs, running>>
          /\ StopDriving

\* The wake before the turn; when it fails the drive ends and the claim stands.
WakeForClaim ==
    /\ driving = "claimed"
    /\ \/ scheduleMainWake /\ driving' = "running" /\ UNCHANGED call
       \/ WakeIsCut /\ UNCHANGED alarm /\ StopDriving
    /\ UNCHANGED <<taskVars, savedVars, retry, now, queueVars, handler>>

\* A residency ends; an alarm-started drive stops after it.
ResidencyEnds(interrupted) ==
    /\ driving = "running"
    /\ UNCHANGED <<taskVars, savedVars, retry, now, alarmVars, handler>>
    /\ finishResidency(interrupted)
    /\ \/ handler # "driving" /\ driving' = "dispatching" /\ UNCHANGED call
       \/ StopDriving

\* The wake after a drive.  The handler goes on to its own, unless its drive has
\* thrown or this wake fails.
WakeAfterDrive ==
    /\ call = "drive" /\ call' = "none"
    /\ \/ scheduleMainWake /\ (handler' = IF handler = "driving" THEN "waking" ELSE handler)
       \/ scheduleMainWake /\ handler = "driving" /\ handler' = "none"
       \/ /\ WakeIsCut /\ Redelivered(handler = "driving")
          /\ handler' = IF handler = "driving" THEN "none" ELSE handler
    /\ UNCHANGED <<taskVars, savedVars, retry, now, queueVars, driving>>

\* The handler's own wake, after it has stopped an idle container.
WakeInHandler ==
    /\ handler = "waking" /\ handler' = "none"
    /\ scheduleMainWake \/ (WakeIsCut /\ Redelivered(TRUE))
    /\ UNCHANGED <<taskVars, savedVars, retry, now, queueVars, driving, call>>

\* enqueueMain: a user's message is queued and unpauses its session; its wake waits.
UserInput(s) ==
    /\ ~Full
    /\ waitingInputs' = [waitingInputs EXCEPT ![s] = @ + 1]
    /\ paused' = paused \ {s}
    /\ unwoken' = unwoken \cup (paused \cap {s})
    /\ claim' = IF claim = "stale" /\ running = s THEN "resumed" ELSE claim
    /\ call' = "input"
    /\ UNCHANGED <<taskVars, savedVars, retry, alarm, cut, now, running, driving, handler>>

\* Its request goes on with the wake and the kick, or fails.
WakeForInput ==
    /\ call = "input" /\ call' = "none"
    /\ \/ scheduleMainWake /\ kickMain
       \/ WakeIsCut /\ UNCHANGED <<alarm, driving>>
    /\ UNCHANGED <<taskVars, savedVars, retry, now, queueVars, handler>>

\* Removing the last queued input drops the ready row and its pause; the drive
\* that is kicked sets the wake when it ends.
RemoveQueued(s) ==
    /\ waitingInputs[s] > 0
    /\ waitingInputs' = [waitingInputs EXCEPT ![s] = @ - 1]
    /\ paused' = IF waitingInputs[s] = 1 THEN paused \ {s} ELSE paused
    /\ unwoken' = unwoken \cup (paused \ paused')
    /\ kickMain
    /\ UNCHANGED <<taskVars, savedVars, retry, alarm, cut, now, running, claim, handler, call>>

\* The process dies, and with it the wake that waits.
Crash ==
    /\ driving' = "idle" /\ handler' = "none" /\ call' = "none"
    /\ claim' = IF running # None /\ claim = "live" THEN "stale" ELSE claim
    /\ WakeIsCut /\ Redelivered(handler # "none")
    /\ UNCHANGED <<taskVars, savedVars, retry, now, waitingInputs, paused, running>>

Tick ==
    /\ now < MaxTime
    /\ now' = now + 1
    /\ UNCHANGED <<taskVars, savedVars, retry, alarmVars, queueVars, driveVars>>

Operations ==
    \/ \E t \in Tasks : Delete(t) \/ \E p \in Periods \cup {0}, at \in 1..LastInstant :
                                       Create(t, p, at) \/ Update(t, p, at)
    \/ \E s \in Sessions : SessionStop(s) \/ UserInput(s) \/ RemoveQueued(s)

Wakes == WakeForInput \/ WakeForClaim \/ WakeAfterDrive

\* Between events: no drive is in its synchronous block, and no call waits.
BetweenEvents == driving \notin {"dispatching", "claiming", "claimed"} /\ call = "none"

\* A drive dispatches and claims in one synchronous block.  The initialization
\* scheduleMainWake awaits is over before anything is enqueued or driven, so no
\* other event but a death comes between its caller and the wake.
ScheduleNext ==
    \/ DispatchDue \/ Claim \/ Wakes
    \/ driving \notin {"dispatching", "claiming"} /\ Crash
    \/ /\ BetweenEvents
       /\ \/ Operations \/ AlarmFires \/ WakeInHandler \/ CloseStale \/ Tick
          \/ \E interrupted \in BOOLEAN : ResidencyEnds(interrupted)

ScheduleSpec == ScheduleInit /\ [][ScheduleNext]_scheduleVars

----------------------------------------
(* Properties. *)

ScheduleTypeOK ==
    /\ status \in [Tasks -> {"none", "active", "ended"}]
    /\ rule \in [Tasks -> Periods \cup {0}]
    /\ due \in [Tasks -> Nat]
    /\ history \in [Tasks -> SUBSET [seq : Nat, at : 1..MaxTime]]
    /\ pruned \in [Tasks -> BOOLEAN]
    /\ retry \in [Sessions -> Nat]
    /\ alarm \in Nat \cup {None} /\ now \in 1..MaxTime
    /\ waitingInputs \in [Sessions -> 0..MAIN_QUEUE_LIMIT] /\ Pending <= MAIN_QUEUE_LIMIT
    /\ paused \subseteq Sessions
    /\ running \in Sessions \cup {None} /\ claim \in {"live", "stale", "resumed"}
    /\ driving \in {"idle", "closing", "dispatching", "claiming", "claimed", "running"}
    /\ handler \in {"none", "driving", "waking"} /\ call \in {"none", "input", "drive"}
    /\ unwoken \subseteq Sessions /\ cut \in BOOLEAN
    /\ lastKey \in [Tasks -> Nat] /\ count \in [Tasks -> Nat]

\* A reminder is delivered whenever there is room: its input id was never used
\* before, so the insert cannot fail on a repeated identity, whatever mix of
\* deliveries, retimings and catching up came before.
KeysAreFresh == \A t \in TasksIn("active") : KeyIsNew(t)

\* The alarm is set for this time at the latest, or its handler runs and sets the
\* next one or is delivered again.
WakeBy(time) == (handler # "none" /\ alarm = None) \/ (alarm # None /\ alarm <= time)

\* A wake that has not been computed yet will be.
WakeIsComing == call # "none" \/ driving # "idle" \/ handler # "none"

\* Nothing due is forgotten: for every active task of an unpaused session there
\* is a wake no later than its due or retry time and the recovery interval,
\* whatever calls are cut or fail; but for a session whose pause a user has just
\* lifted, whose wake is coming or was cut off.
DueHasWake ==
    /\ \A t \in Candidates :
          WakeBy(Max({WakeOf(t), now + MAIN_WAKE_MS})) \/ TaskSession[t] \in unwoken
    /\ unwoken # {} => WakeIsComing \/ cut

\* What is stored stays bounded: no retry row outlives its session's reminders,
\* and the task table has its two limits.
StoreBounded ==
    /\ \A s \in Sessions : retry[s] # 0 => ActiveOf(s) # {}
    /\ Cardinality(TasksIn("active")) <= MAX_ACTIVE_SCHEDULES
    /\ Cardinality(TasksIn("ended")) <= MAX_ENDED_SCHEDULES

\* The saved history is the newest deliveries, within the retention bound, and
\* a page that lacks older ones says so.
HistoryHonest ==
    \A t \in Tasks :
        /\ {d.seq : d \in history[t]} = (count[t] - Cardinality(history[t]))..(count[t] - 1)
        /\ Cardinality(history[t]) <= RetentionRecords
        /\ pruned[t] <=> Cardinality(history[t]) < count[t]

\* Reminders stay bounded and deliverable, nothing due is forgotten and the
\* delivery history is honest (schedule-store.ts).
RemindersHold ==
    ScheduleTypeOK /\ StoreBounded /\ KeysAreFresh /\ DueHasWake /\ HistoryHonest

\* A reminder never enters a paused session, and never lifts its pause.
PauseHoldsReminders ==
    [][\A s \in Sessions : s \in paused =>
            /\ \A t \in Tasks : TaskSession[t] = s => count'[t] <= count[t]
            /\ s \notin paused' => waitingInputs'[s] = waitingInputs[s] + 1 \/ waitingInputs'[s] = 0]_scheduleVars
==============================================================================
