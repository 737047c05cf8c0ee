---------------------------- MODULE MCMainDriver -----------------------------
(* The scheduler on small instances. *)
EXTENDS MainDriver, TLC

CONSTANTS s1, s2, u1, u2, u3, r1

\* The AUTOINCREMENT key and the rotation position matter by their order only.
MCView ==
    << row, {p \in Inputs \X Inputs : seq[p[1]] # 0 /\ seq[p[1]] < seq[p[2]]}, weight,
       ready, {p \in ready \X ready : position[p[1]] < position[p[2]]}, paused,
       slot, startupClaim, mainVars, agentVars, requestVars, wakeVars, boundVars >>

\* Two interchangeable inputs of one session.
MCSymmetry == Permutations({u1, u2})

MCSessionOf == [i \in Inputs |-> IF i = u3 THEN s2 ELSE s1]
==============================================================================
