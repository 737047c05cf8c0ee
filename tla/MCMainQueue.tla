----------------------------- MODULE MCMainQueue -----------------------------
(***************************************************************************)
(* The ledger on a small instance, with two history variables for what the *)
(* ledger promises across several steps.                                   *)
(***************************************************************************)
EXTENDS MainQueue, TLC

CONSTANTS s1, s2, u1, u2, u3, r1

MCSessions  == {s1, s2}
MCInputs    == {u1, u2, u3, r1}
MCReminders == {r1}
MCSessionOf == [i \in MCInputs |-> IF i = u3 THEN s2 ELSE s1]

\* Two interchangeable inputs of one session.
MCSymmetry == Permutations({u1, u2})

VARIABLES
    overtakers,  \* per waiting session, the sessions served since it waits
    resumed      \* a user submitted to the stale claim's session

mcVars == <<vars, overtakers, resumed>>

\* Runnable but not running.
Waits(s) == s \in ready /\ paused[s] = 0 /\ (slot = None \/ SessionOf[slot] # s)

Claims(s) == slot = None /\ slot' # None /\ SessionOf[slot'] = s

\* The claim of session s was found when the process started.
HeldBefore(s) == slot # None /\ slot = startupClaim /\ SessionOf[slot] = s

\* The step admits a new ordinary user input of session s.
UserEnqueues(s) ==
    \E i \in Inputs \ Reminders :
        SessionOf[i] = s /\ row[i] = "absent" /\ row'[i] = "queued"

MCInit == Init /\ overtakers = [s \in Sessions |-> {}] /\ resumed = FALSE

MCNext ==
    /\ Next
    /\ overtakers' = [s \in Sessions |->
            IF Waits(s) /\ Waits(s)' THEN overtakers[s] \cup {t \in Sessions : Claims(t)}
                                     ELSE {}]
    /\ resumed' = /\ slot' = slot
                  /\ resumed \/ \E s \in Sessions : HeldBefore(s) /\ UserEnqueues(s)

MCSpec == MCInit /\ [][MCNext]_mcVars

\* The AUTOINCREMENT key and the rotation position matter by their order only.
MCView ==
    << row, {p \in Inputs \X Inputs : seq[p[1]] # 0 /\ seq[p[1]] < seq[p[2]]}, weight,
       ready, {p \in ready \X ready : position[p[1]] < position[p[2]]}, paused,
       slot, pending, bytes, startupClaim, overtakers, resumed >>

----------------------------------------
\* Round robin: no session is served twice while another one waits runnable
\* (claim takes the lowest position, finish rotates to the tail).
NoDoubleOvertake ==
    [][\A s, t \in Sessions : s # t /\ Waits(s) /\ Claims(t) => t \notin overtakers[s]]_mcVars

\* Closing a claim left by a dead process pauses what the session still has
\* queued, unless a user wrote to the session after a restart, an intent that
\* survives further restarts; and a pause ends only when a user writes to the
\* session or removes the last input it holds back: no claim, reminder, steer
\* or restart lifts it.
PauseIsTheUsers ==
    [][\A s \in Sessions :
        /\ HeldBefore(s) /\ slot' = None /\ row'[slot] = "interrupted" /\ s \in ready'
                => (paused'[s] = 1 <=> ~resumed)
        /\ paused[s] = 1 /\ paused'[s] # 1 => UserEnqueues(s) \/ s \notin ready']_mcVars
==============================================================================
