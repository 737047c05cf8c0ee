----------------------------- MODULE ToolProofs -----------------------------
(***************************************************************************)
(* Proofs about the tools of a turn, for every number of calls, commands,  *)
(* runs and files: the admission of tool calls and container commands, and *)
(* the other components that MCTools checks.                               *)
(***************************************************************************)
EXTENDS ToolAdmission, ShellRouting, ChangeRecorder, McpServers,
        LineLemmas

----------------------------------------
(* Commands that leave a line together. *)

\* The function that Without recurses over exists.
Kept(f, s, D, len) ==
    [n \in 0..len |-> IF n = 0 THEN <<>>
                      ELSE IF s[n] \in D THEN f[n - 1] ELSE Append(f[n - 1], s[n])]

\* The function that Without recurses over exists, for a line of any length.
LEMMA KeptIsDefined ==
    ASSUME NEW s, NEW D, NEW len \in Nat PROVE \E f : f = Kept(f, s, D, len)
<1> DEFINE Step(f, n) == IF n = 0 THEN <<>>
                         ELSE IF s[n] \in D THEN f[n - 1] ELSE Append(f[n - 1], s[n])
           Defined(m) == \E f : f = [n \in 0..m |-> Step(f, n)]
           Missing == {m \in Nat : ~Defined(m)}
<1>1. Defined(0)
  <2> DEFINE f == [n \in 0..0 |-> <<>>]
  <2>1. f = [n \in 0..0 |-> Step(f, n)] OBVIOUS
  <2> QED BY <2>1
<1>2. ASSUME NEW m \in Nat, Defined(m) PROVE Defined(m + 1)
  <2>1. PICK f : f = [n \in 0..m |-> Step(f, n)] BY <1>2
  <2>6. \A n \in 0..m : f[n] = Step(f, n) BY <2>1, Zenon
  <2> DEFINE g == [n \in 0..(m + 1) |-> IF n = m + 1 THEN Step(f, m + 1) ELSE f[n]]
  <2>2. ASSUME NEW n \in 0..(m + 1) PROVE g[n] = Step(g, n)
    <3>1. CASE n = 0 BY <3>1, <2>1
    <3>2. CASE n # 0
      <4>1. n - 1 \in 0..(m + 1) /\ n - 1 # m + 1 BY <3>2
      <4>2. g[n - 1] = f[n - 1] BY <4>1
      <4>3. g[n] = Step(f, n)
        <5>1. CASE n = m + 1 BY <5>1
        <5>2. CASE n # m + 1
          <6>1. n \in 0..m BY <5>2
          <6>2. g[n] = f[n] BY <5>2
          <6> HIDE DEF g
          <6> QED BY <6>1, <6>2, <2>6
        <5> QED BY <5>1, <5>2
      <4> HIDE DEF g
      <4> QED BY <4>2, <4>3, <3>2
    <3> QED BY <3>1, <3>2
  <2>3. g = [n \in 0..(m + 1) |-> g[n]] OBVIOUS
  <2>4. g = [n \in 0..(m + 1) |-> Step(g, n)]
    <3> HIDE DEF g, Step
    <3> QED BY <2>2, <2>3
  <2> QED BY <2>4
<1>3. Missing = {}
  <2> HIDE DEF Defined
  <2> SUFFICES ASSUME Missing # {} PROVE FALSE OBVIOUS
  <2>1. PICK m \in Missing : \A k \in Missing : m <= k BY LeastNumber
  <2>2. m # 0 /\ m - 1 \in Nat BY <2>1, <1>1
  <2>3. m - 1 \notin Missing BY <2>1, <2>2
  <2> QED BY <2>1, <2>2, <2>3, <1>2
<1> QED BY <1>3 DEF Kept

\* Several leave a line at once: it closes up.
LEMMA LeaveTogether ==
    ASSUME NEW S, NEW s \in Seq(S), NEW D, IsInjective(s)
    PROVE  /\ Without(s, D) \in Seq(S) /\ IsInjective(Without(s, D))
           /\ ToSet(Without(s, D)) = ToSet(s) \ D
<1> DEFINE kept == CHOOSE f : f = Kept(f, s, D, Len(s))
           Before(n) == {s[i] : i \in 1..n}
           Right(n) == kept[n] \in Seq(S) /\ IsInjective(kept[n]) /\ ToSet(kept[n]) = Before(n) \ D
           Wrong == {n \in 0..Len(s) : ~Right(n)}
<1>1. Len(s) \in Nat /\ DOMAIN s = 1..Len(s) BY LenProperties
<1>2. Without(s, D) = kept[Len(s)] BY DEF Without, Kept
<1>3. kept = Kept(kept, s, D, Len(s))
  <2>1. \E f : f = Kept(f, s, D, Len(s)) BY <1>1, KeptIsDefined
  <2> QED BY <2>1
<1>9. \A n \in 0..Len(s) : kept[n] = IF n = 0 THEN <<>> ELSE IF s[n] \in D THEN kept[n - 1]
                                    ELSE Append(kept[n - 1], s[n])
  <2> HIDE DEF kept
  <2> QED BY <1>3, Zenon DEF Kept
<1> HIDE DEF kept
<1>4. Right(0)
  <2>1. kept[0] = <<>>
    <3>1. 0 \in 0..Len(s) BY <1>1
    <3> QED BY <3>1, <1>9, Zenon
  <2>2. <<>> \in Seq(S) /\ DOMAIN <<>> = {} BY EmptySeq
  <2> QED BY <2>1, <2>2 DEF IsInjective, ToSet
<1>5. ASSUME NEW n \in 1..Len(s), Right(n - 1) PROVE Right(n)
  <2>1. kept[n] = IF s[n] \in D THEN kept[n - 1] ELSE Append(kept[n - 1], s[n])
    <3>1. n \in 0..Len(s) /\ n # 0 BY <1>1
    <3> QED BY <3>1, <1>9, Zenon
  <2>2. s[n] \in S /\ Before(n) = Before(n - 1) \cup {s[n]} BY <1>1, ElementOfSeq
  <2>3. s[n] \notin Before(n - 1) BY <1>1 DEF IsInjective
  <2> HIDE DEF Before
  <2>4. CASE s[n] \in D BY <2>1, <2>2, <2>4, <1>5
  <2>5. CASE s[n] \notin D
    <3>1. s[n] \notin ToSet(kept[n - 1]) BY <2>3, <1>5
    <3>2. /\ Append(kept[n - 1], s[n]) \in Seq(S) /\ IsInjective(Append(kept[n - 1], s[n]))
          /\ ToSet(Append(kept[n - 1], s[n])) = ToSet(kept[n - 1]) \cup {s[n]}
      BY <3>1, <2>2, <1>5, JoinLine
    <3> QED BY <3>2, <2>1, <2>2, <2>5, <1>5
  <2> QED BY <2>4, <2>5
<1>6. Wrong = {}
  <2> HIDE DEF Right
  <2> SUFFICES ASSUME Wrong # {} PROVE FALSE OBVIOUS
  <2>1. PICK n \in Wrong : \A k \in Wrong : n <= k
    <3>1. Wrong \subseteq Nat BY <1>1
    <3> HIDE DEF Wrong
    <3> QED BY <3>1, LeastNumber
  <2>2. n \in 1..Len(s) /\ n - 1 \in 0..Len(s) BY <2>1, <1>1, <1>4
  <2>3. n - 1 \notin Wrong BY <2>1, <2>2
  <2> QED BY <2>1, <2>2, <2>3, <1>5
<1>7. Right(Len(s))
  <2> HIDE DEF Right
  <2> QED BY <1>6, <1>1
<1>8. Before(Len(s)) = ToSet(s) BY <1>1 DEF ToSet
<1> QED BY <1>2, <1>7, <1>8

----------------------------------------
(* The short tool pool.  The invariant says of every call where it stands: *)
(* those in line are queued, each once; who is queued or granted goes      *)
(* through the pool, and only calls that no other call waits for do.       *)

Queued == {c \in Calls : call[c] = "queued"}

PoolInv ==
    /\ PoolTypeOK /\ PermitsExact /\ IsFiniteSet(Holders)
    /\ IsInjective(waiting) /\ ToSet(waiting) = Queued
    /\ \A c \in Calls : call[c] \in {"queued", "granted"} => c \in permit
    /\ \A c \in permit : call[c] # "idle" /\ Root(c)

\* Counting after one call got a permit, gave it back, or handed it over.
LEMMA CountPermits ==
    ASSUME IsFiniteSet(Holders)
    PROVE  /\ Cardinality(Holders) \in Nat
           /\ \A c : c \notin Holders => /\ IsFiniteSet(Holders \cup {c})
                                         /\ Cardinality(Holders \cup {c}) = Cardinality(Holders) + 1
           /\ \A c \in Holders : /\ IsFiniteSet(Holders \ {c})
                                 /\ Cardinality(Holders \ {c}) = Cardinality(Holders) - 1
                                 /\ Cardinality(Holders) >= 1
           /\ \A c \in Holders : \A d : d \notin Holders =>
                  /\ IsFiniteSet((Holders \ {c}) \cup {d})
                  /\ Cardinality((Holders \ {c}) \cup {d}) = Cardinality(Holders)
BY CountMembers

\* A call that ends gives its permit to the first in line, or back.
LEMMA ReleaseKeeps ==
    ASSUME PoolInv, NEW c \in Holders, release(c), Forget(c) PROVE PoolInv'
<1> USE PoolLimitsAssumption
<1>1. /\ PoolTypeOK /\ PermitsExact /\ IsFiniteSet(Holders)
      /\ IsInjective(waiting) /\ ToSet(waiting) = Queued
      /\ c \in Calls /\ c \in permit /\ call[c] \in {"granted", "executing"}
      /\ permit' = permit \ {c} /\ cancelled' \subseteq Calls /\ expired' \subseteq Calls
  BY DEF PoolInv, PoolTypeOK, Holders, Forget
<1>2. \A d \in Calls : call[d] \in {"queued", "granted"} => d \in permit BY DEF PoolInv
<1>3. \A d \in permit : call[d] # "idle" /\ Root(d) BY DEF PoolInv
<1>4. CASE waiting = <<>>
  <2>1. active' = active - 1 /\ call' = [call EXCEPT ![c] = "idle"] /\ waiting' = waiting
    BY <1>4 DEF release, Settle
  <2>2. Holders' = Holders \ {c} BY <2>1, <1>1 DEF Holders, PoolTypeOK
  <2>3. IsFiniteSet(Holders') /\ active' = Cardinality(Holders') /\ active' \in Nat /\ active' <= Capacity
    BY <2>1, <2>2, <1>1, CountPermits DEF PermitsExact
  <2>4. Queued' = Queued BY <2>1, <1>1 DEF Queued, PoolTypeOK
  <2>5. PoolTypeOK' BY <2>1, <2>3, <1>1 DEF PoolTypeOK
  <2>6. PermitsExact' BY <2>1, <2>3, <1>4 DEF PermitsExact
  <2>7. \A d \in Calls : call'[d] \in {"queued", "granted"} => d \in permit'
    BY <2>1, <1>1, <1>2 DEF PoolTypeOK
  <2>8. \A d \in permit' : call'[d] # "idle" /\ Root(d) BY <2>1, <1>1, <1>3 DEF PoolTypeOK
  <2>9. IsInjective(waiting)' /\ ToSet(waiting)' = Queued' BY <2>1, <2>4, <1>1
  <2> QED BY <2>3, <2>5, <2>6, <2>7, <2>8, <2>9 DEF PoolInv, Root
<1>5. CASE waiting # <<>>
  <2> DEFINE h == Head(waiting)
  <2>1. /\ call' = [[call EXCEPT ![c] = "idle"] EXCEPT ![h] = "granted"]
        /\ waiting' = Tail(waiting) /\ active' = active
    BY <1>5 DEF release, Settle
  <2>2. /\ h \in Calls /\ h \in ToSet(waiting) /\ Tail(waiting) \in Seq(Calls)
        /\ IsInjective(Tail(waiting)) /\ ToSet(Tail(waiting)) = ToSet(waiting) \ {h}
    BY <1>1, <1>5, LeaveFront DEF PoolTypeOK
  <2> HIDE DEF h
  <2>3. call[h] = "queued" /\ h # c /\ h \in permit /\ h \notin Holders
    BY <2>2, <1>1, <1>2 DEF Queued, Holders
  <2>4. \A d \in Calls : call'[d] = IF d = h THEN "granted" ELSE IF d = c THEN "idle" ELSE call[d]
    BY <2>1, <2>2, <1>1 DEF PoolTypeOK
  <2>5. Holders' = (Holders \ {c}) \cup {h} BY <2>3, <2>4, <1>1 DEF Holders, PoolTypeOK
  <2>6. IsFiniteSet(Holders') /\ Cardinality(Holders') = Cardinality(Holders)
    BY <2>5, <2>3, <1>1, CountPermits
  <2>7. Queued' = Queued \ {h} BY <2>3, <2>4, <1>1 DEF Queued
  <2>8. call' \in [Calls -> {"idle", "queued", "granted", "executing"}] BY <2>1, <1>1 DEF PoolTypeOK
  <2>9. PoolTypeOK' BY <2>1, <2>2, <2>8, <1>1 DEF PoolTypeOK
  <2>10. PermitsExact' BY <2>1, <2>6, <1>1, <1>5 DEF PermitsExact
  <2>11. \A d \in Calls : call'[d] \in {"queued", "granted"} => d \in permit'
    BY <2>3, <2>4, <1>1, <1>2
  <2>12. \A d \in permit' : call'[d] # "idle" /\ Root(d) BY <2>3, <2>4, <1>1, <1>3 DEF PoolTypeOK
  <2>13. IsInjective(waiting)' /\ ToSet(waiting)' = Queued' BY <2>1, <2>2, <2>7, <1>1
  <2> QED BY <2>6, <2>9, <2>10, <2>11, <2>12, <2>13 DEF PoolInv, Root
<1> QED BY <1>4, <1>5

\* A waiter that leaves takes nothing with it.
LEMMA LeaveKeeps ==
    ASSUME PoolInv, NEW c \in Calls, call[c] = "queued", Leave(c) PROVE PoolInv'
<1>1. /\ PoolTypeOK /\ PermitsExact /\ IsFiniteSet(Holders)
      /\ IsInjective(waiting) /\ ToSet(waiting) = Queued
      /\ permit' = permit \ {c} /\ cancelled' \subseteq Calls /\ expired' \subseteq Calls
      /\ call' = [call EXCEPT ![c] = "idle"] /\ active' = active
  BY DEF PoolInv, PoolTypeOK, Leave, Settle, Forget
<1>2. PICK k \in DOMAIN waiting : waiting[k] = c /\ waiting' = RemoveAt(waiting, k) BY DEF Leave
<1>3. /\ waiting' \in Seq(Calls) /\ IsInjective(waiting') /\ ToSet(waiting') = ToSet(waiting) \ {c}
  BY <1>1, <1>2, LeaveMiddle DEF PoolTypeOK
<1>4. Holders' = Holders /\ Queued' = Queued \ {c} BY <1>1 DEF Holders, Queued, PoolTypeOK
<1>5. PoolTypeOK' BY <1>1, <1>3 DEF PoolTypeOK
<1>6. waiting # <<>> BY <1>2, LenProperties, EmptySeq
<1>7. PermitsExact' BY <1>1, <1>4, <1>6 DEF PermitsExact
<1>8. \A d \in Calls : call'[d] \in {"queued", "granted"} => d \in permit'
  BY <1>1 DEF PoolInv, PoolTypeOK
<1>9. \A d \in permit' : call'[d] # "idle" /\ Root(d) BY <1>1 DEF PoolInv, PoolTypeOK
<1>10. IsFiniteSet(Holders') /\ IsInjective(waiting)' /\ ToSet(waiting)' = Queued'
  BY <1>1, <1>3, <1>4
<1> QED BY <1>5, <1>7, <1>8, <1>9, <1>10 DEF PoolInv, Root

\* A call that is no waiter and no root of the pool may change its state as it
\* likes, as long as its permit goes with it.
LEMMA OthersKeep ==
    ASSUME PoolInv, PoolTypeOK', UNCHANGED <<active, waiting, permit>>, Queued' = Queued,
           Holders' = Holders, \A c \in permit : call'[c] # "idle",
           \A c \in Calls : call'[c] = "granted" => c \in permit
    PROVE  PoolInv'
<1>1. PermitsExact' /\ IsFiniteSet(Holders') /\ IsInjective(waiting)' /\ ToSet(waiting)' = Queued'
  BY DEF PoolInv, PermitsExact
<1>2. \A c \in Calls : call'[c] = "queued" => c \in permit' BY DEF PoolInv, Queued
<1>3. \A c \in permit' : call'[c] # "idle" /\ Root(c) BY DEF PoolInv
<1> QED BY <1>1, <1>2, <1>3 DEF PoolInv, Root

\* Every step of the pool keeps the invariant.
LEMMA PoolInvStep ==
    ASSUME PoolInv, NEW c \in Calls,
           \/ Bypass(c) \/ acquire(c) \/ Resume(c) \/ Finish(c)
           \/ QueueDeadline(c) \/ Cancel(c) \/ ExecutionDeadline(c)
    PROVE  PoolInv'
<1> USE CallsAssumption, PoolLimitsAssumption
<1>1. /\ PoolTypeOK /\ PermitsExact /\ IsFiniteSet(Holders)
      /\ IsInjective(waiting) /\ ToSet(waiting) = Queued
  BY DEF PoolInv
<1>2. \A d \in Calls : call[d] \in {"queued", "granted"} => d \in permit BY DEF PoolInv
<1>3. \A d \in permit : call[d] # "idle" /\ Root(d) BY DEF PoolInv
<1>4. CASE Bypass(c)
  <2>1. /\ call[c] = "idle" /\ call' = [call EXCEPT ![c] = "executing"]
        /\ UNCHANGED <<active, waiting, permit, cancelled, expired>>
    BY <1>4 DEF Bypass
  <2>2. c \notin permit BY <2>1, <1>3
  <2> QED BY <2>1, <2>2, <1>1, <1>2, <1>3, OthersKeep DEF PoolTypeOK, Queued, Holders
<1>5. CASE acquire(c)
  <2>1. call[c] = "idle" /\ Root(c) /\ permit' = permit \cup {c} /\ UNCHANGED <<cancelled, expired>>
    BY <1>5 DEF acquire, Bypasses, Inherits
  <2>2. c \notin permit /\ c \notin Holders /\ c \notin ToSet(waiting)
    BY <2>1, <1>1, <1>3 DEF Holders, Queued
  <2>3. \A d \in permit' : d = c \/ (d # c /\ d \in permit) BY <2>1
  <2>4. CASE active < Capacity /\ active' = active + 1 /\ call' = [call EXCEPT ![c] = "granted"]
             /\ UNCHANGED waiting
    <3>1. Holders' = Holders \cup {c} BY <2>1, <2>2, <2>4, <1>1 DEF Holders, PoolTypeOK
    <3>2. Queued' = Queued BY <2>1, <2>4, <1>1 DEF Queued, PoolTypeOK
    <3>3. IsFiniteSet(Holders') /\ active' = Cardinality(Holders') /\ active' \in Nat
          /\ active' <= Capacity /\ waiting = <<>>
      BY <3>1, <2>2, <2>4, <1>1, CountPermits DEF PermitsExact, PoolTypeOK
    <3>4. PoolTypeOK' BY <3>3, <2>1, <2>4, <1>1 DEF PoolTypeOK
    <3>5. PermitsExact' BY <3>3, <2>4 DEF PermitsExact
    <3>6. \A d \in Calls : call'[d] \in {"queued", "granted"} => d \in permit'
      BY <2>1, <2>4, <1>1, <1>2 DEF PoolTypeOK
    <3>7. \A d \in permit' : call'[d] # "idle" /\ Root(d)
      BY <2>1, <2>3, <2>4, <1>1, <1>3 DEF PoolTypeOK
    <3>8. IsInjective(waiting)' /\ ToSet(waiting)' = Queued' BY <2>4, <3>2, <1>1
    <3> QED BY <3>3, <3>4, <3>5, <3>6, <3>7, <3>8 DEF PoolInv, Root
  <2>5. CASE active >= Capacity /\ waiting' = Append(waiting, c) /\ UNCHANGED active
             /\ call' = [call EXCEPT ![c] = "queued"]
    <3>1. Holders' = Holders BY <2>1, <2>2, <2>5, <1>1 DEF Holders, PoolTypeOK
    <3>2. Queued' = Queued \cup {c} BY <2>1, <2>5, <1>1 DEF Queued, PoolTypeOK
    <3>3. /\ waiting' \in Seq(Calls) /\ waiting' # <<>> /\ IsInjective(waiting')
          /\ ToSet(waiting') = ToSet(waiting) \cup {c}
      BY <2>2, <2>5, <1>1, JoinLine DEF PoolTypeOK
    <3>4. PoolTypeOK' BY <3>3, <2>1, <2>5, <1>1 DEF PoolTypeOK
    <3>5. PermitsExact' /\ IsFiniteSet(Holders') BY <3>1, <2>5, <1>1 DEF PermitsExact, PoolTypeOK
    <3>6. \A d \in Calls : call'[d] \in {"queued", "granted"} => d \in permit'
      BY <2>1, <2>5, <1>1, <1>2 DEF PoolTypeOK
    <3>7. \A d \in permit' : call'[d] # "idle" /\ Root(d)
      BY <2>1, <2>3, <2>5, <1>1, <1>3 DEF PoolTypeOK
    <3>8. IsInjective(waiting)' /\ ToSet(waiting)' = Queued' BY <3>2, <3>3, <1>1
    <3> QED BY <3>4, <3>5, <3>6, <3>7, <3>8 DEF PoolInv, Root
  <2> QED BY <2>4, <2>5, <1>5 DEF acquire
<1>6. CASE Resume(c)
  <2>1. c \in Holders BY <1>6, <1>2 DEF Resume, Holders
  <2>2. CASE c \in cancelled BY <1>6, <2>1, <2>2, ReleaseKeeps DEF Resume
  <2>3. CASE c \notin cancelled
    <3>1. /\ call' = [call EXCEPT ![c] = "executing"] /\ call[c] = "granted"
          /\ UNCHANGED <<active, waiting, permit, cancelled, expired>>
      BY <1>6, <2>3 DEF Resume
    <3> QED BY <3>1, <1>1, <1>2, <1>3, OthersKeep DEF PoolTypeOK, Queued, Holders
  <2> QED BY <2>2, <2>3
<1>7. CASE Finish(c)
  <2>1. CASE c \in permit
    <3>1. c \in Holders BY <1>7, <2>1 DEF Finish, Holders
    <3> QED BY <3>1, <2>1, <1>7, ReleaseKeeps DEF Finish
  <2>2. CASE c \notin permit
    <3>1. /\ call' = [call EXCEPT ![c] = "idle"] /\ call[c] = "executing"
          /\ UNCHANGED <<active, waiting>> /\ permit' = permit
          /\ cancelled' = cancelled \ {c} /\ expired' = expired \ {c}
      BY <1>7, <2>2 DEF Finish, Settle, Forget
    <3> QED BY <3>1, <2>2, <1>1, <1>2, <1>3, OthersKeep DEF PoolTypeOK, Queued, Holders
  <2> QED BY <2>1, <2>2
<1>8. CASE QueueDeadline(c) BY <1>8, LeaveKeeps DEF QueueDeadline
<1>9. CASE Cancel(c)
  <2>1. CASE call[c] = "queued" BY <1>9, <2>1, LeaveKeeps DEF Cancel
  <2>2. CASE call[c] # "queued"
    <3>1. cancelled' = cancelled \cup {c} /\ UNCHANGED <<call, active, waiting, permit, expired>>
      BY <1>9, <2>2 DEF Cancel
    <3> QED BY <3>1, <1>1, <1>2, <1>3, OthersKeep DEF PoolTypeOK, Queued, Holders
  <2> QED BY <2>1, <2>2
<1>10. CASE ExecutionDeadline(c)
  <2>1. expired' = expired \cup {c} /\ UNCHANGED <<call, active, waiting, permit, cancelled>>
    BY <1>10 DEF ExecutionDeadline
  <2> QED BY <2>1, <1>1, <1>2, <1>3, OthersKeep DEF PoolTypeOK, Queued, Holders
<1> QED BY <1>4, <1>5, <1>6, <1>7, <1>8, <1>9, <1>10

----------------------------------------
(* The container.  Those in its line wait, each once; a stop finds nobody  *)
(* running, and lets nobody run until it has settled.                      *)

RunningCommands == CommandsIn("running")
Waiting == CommandsIn("waiting")
Woken   == CommandsIn("woken")

ActivityInv ==
    /\ ActivityTypeOK /\ SlotsExact /\ StopSparesCommands /\ WaiterHasWaker
    /\ IsInjective(waiters) /\ ToSet(waiters) = Waiting
    /\ stopping /\ waiters # <<>> => cutIn

\* Counting after one command began or ended.
LEMMA CountSlots ==
    /\ Cardinality(RunningCommands) \in Nat /\ (Cardinality(RunningCommands) = 0 => RunningCommands = {})
    /\ \A c : c \notin RunningCommands => Cardinality(RunningCommands \cup {c}) = Cardinality(RunningCommands) + 1
    /\ \A c \in RunningCommands : Cardinality(RunningCommands \ {c}) = Cardinality(RunningCommands) - 1 /\ Cardinality(RunningCommands) >= 1
<1>1. IsFiniteSet(RunningCommands)
  <2>1. RunningCommands \subseteq Commands BY DEF RunningCommands, CommandsIn
  <2> QED BY <2>1, CommandsAssumption, FS_Subset
<1>2. Cardinality(RunningCommands) \in Nat /\ (Cardinality(RunningCommands) = 0 => RunningCommands = {})
  BY <1>1, FS_CardinalityType, FS_EmptySet
<1>3. \A c : c \notin RunningCommands => Cardinality(RunningCommands \cup {c}) = Cardinality(RunningCommands) + 1
  BY <1>1, FS_AddElement
<1>4. ASSUME NEW c \in RunningCommands
      PROVE  Cardinality(RunningCommands \ {c}) = Cardinality(RunningCommands) - 1 /\ Cardinality(RunningCommands) >= 1
  <2>1. IsFiniteSet(RunningCommands \ {c}) /\ Cardinality(RunningCommands \ {c}) = Cardinality(RunningCommands) - 1
    BY <1>1, FS_RemoveElement
  <2>2. Cardinality(RunningCommands \ {c}) \in Nat BY <2>1, FS_CardinalityType
  <2> QED BY <2>1, <2>2, <1>2
<1> QED BY <1>2, <1>3, <1>4

\* One shift of the line: the first waiter, if there is one, is woken.
LEMMA ShiftKeeps ==
    ASSUME ActivityTypeOK, IsInjective(waiters), ToSet(waiters) = Waiting,
           NEW c \in Commands, command[c] # "waiting", ShiftWaiters(c, "idle")
    PROVE  /\ command' \in [Commands -> {"idle", "waiting", "onStop", "woken", "running"}]
           /\ waiters' \in Seq(Commands) /\ IsInjective(waiters') /\ ToSet(waiters') = Waiting'
           /\ RunningCommands' = RunningCommands \ {c}
           /\ Woken \ {c} \subseteq Woken'
           /\ waiters # <<>> => Woken' # {}
           /\ waiters = <<>> => waiters' = <<>>
<1>1. CASE waiters = <<>>
  <2>1. command' = [command EXCEPT ![c] = "idle"] /\ waiters' = waiters BY <1>1 DEF ShiftWaiters
  <2> QED BY <2>1, <1>1 DEF ActivityTypeOK, Waiting, RunningCommands, Woken, CommandsIn
<1>2. CASE waiters # <<>>
  <2> DEFINE h == Head(waiters)
  <2>1. command' = [command EXCEPT ![c] = "idle", ![h] = "woken"] /\ waiters' = Tail(waiters)
    BY <1>2 DEF ShiftWaiters
  <2>2. /\ h \in Commands /\ h \in ToSet(waiters) /\ Tail(waiters) \in Seq(Commands)
        /\ IsInjective(Tail(waiters)) /\ ToSet(Tail(waiters)) = ToSet(waiters) \ {h}
    BY <1>2, LeaveFront DEF ActivityTypeOK
  <2> HIDE DEF h
  <2>3. command[h] = "waiting" /\ h # c BY <2>2 DEF Waiting, CommandsIn
  <2>4. \A d \in Commands : command'[d] = IF d = h THEN "woken" ELSE IF d = c THEN "idle" ELSE command[d]
    BY <2>1, <2>2 DEF ActivityTypeOK
  <2>5. command' \in [Commands -> {"idle", "waiting", "onStop", "woken", "running"}]
    BY <2>1 DEF ActivityTypeOK
  <2>6. Waiting' = Waiting \ {h} BY <2>2, <2>3, <2>4 DEF Waiting, CommandsIn
  <2>7. RunningCommands' = RunningCommands \ {c} /\ Woken \ {c} \subseteq Woken' /\ h \in Woken'
    BY <2>2, <2>3, <2>4 DEF RunningCommands, Woken, CommandsIn
  <2> QED BY <2>1, <2>2, <2>5, <2>6, <2>7, <1>2
<1> QED BY <1>1, <1>2

\* Each turn of the loop of admit keeps the invariant.
LEMMA AdmitKeeps ==
    ASSUME ActivityInv, NEW c \in Commands, admit(c) PROVE ActivityInv'
<1> USE ConcurrencyAssumption
<1>1. /\ ActivityTypeOK /\ SlotsExact /\ StopSparesCommands /\ WaiterHasWaker
      /\ IsInjective(waiters) /\ ToSet(waiters) = Waiting
      /\ (stopping /\ waiters # <<>>) => cutIn
      /\ command[c] \in {"idle", "woken"}
      /\ stopping' = stopping /\ aborted' = aborted
      /\ cutIn' = (cutIn /\ waiters' # <<>>)
  BY DEF ActivityInv, admit, CutInEnds
<1>2. inFlight = Cardinality(RunningCommands) /\ inFlight <= MAX_CONCURRENT /\ (stopping => RunningCommands = {})
      /\ (inFlight >= MAX_CONCURRENT => RunningCommands # {})
  <2>1. inFlight >= MAX_CONCURRENT => Cardinality(RunningCommands) # 0
    BY <1>1, CountSlots DEF SlotsExact, RunningCommands, ActivityTypeOK
  <2>2. RunningCommands = {} => Cardinality(RunningCommands) = 0 BY FS_EmptySet
  <2> QED BY <1>1, <2>1, <2>2 DEF SlotsExact, StopSparesCommands, RunningCommands
<1>4. CASE GiveUp(c)
  <2>1. ~stopping /\ ShiftWaiters(c, "idle") /\ UNCHANGED <<inFlight, cooled>>
    BY <1>4 DEF GiveUp, MustWait, PassOn
  <2>2. /\ command' \in [Commands -> {"idle", "waiting", "onStop", "woken", "running"}]
        /\ waiters' \in Seq(Commands) /\ IsInjective(waiters') /\ ToSet(waiters') = Waiting'
        /\ RunningCommands' = RunningCommands \ {c} /\ (waiters # <<>> => Woken' # {})
        /\ waiters = <<>> => waiters' = <<>>
    BY <2>1, <1>1, ShiftKeeps
  <2>3. RunningCommands' = RunningCommands BY <2>2, <1>1 DEF RunningCommands, CommandsIn
  <2>4. ActivityTypeOK' BY <2>1, <2>2, <1>1 DEF ActivityTypeOK
  <2>5. SlotsExact' /\ StopSparesCommands'
    BY <2>1, <2>3, <1>1, <1>2 DEF SlotsExact, StopSparesCommands, RunningCommands
  <2>6. WaiterHasWaker' BY <2>2 DEF WaiterHasWaker, Woken
  <2> QED BY <2>1, <2>2, <2>4, <2>5, <2>6, <1>1 DEF ActivityInv
<1>5. CASE begin(c)
  <2>1. /\ ~stopping /\ inFlight < MAX_CONCURRENT /\ inFlight' = inFlight + 1 /\ cooled' = FALSE
        /\ command' = [command EXCEPT ![c] = "running"] /\ waiters' = waiters
    BY <1>1, <1>5 DEF begin, MustWait, ActivityTypeOK
  <2>2. RunningCommands' = RunningCommands \cup {c} /\ c \notin RunningCommands /\ Waiting' = Waiting
    BY <2>1, <1>1 DEF RunningCommands, Waiting, CommandsIn, ActivityTypeOK
  <2>3. inFlight' = Cardinality(RunningCommands') /\ inFlight' <= MAX_CONCURRENT
    BY <2>1, <2>2, <1>1, <1>2, CountSlots DEF ActivityTypeOK
  <2>4. ActivityTypeOK'
    <3>1. inFlight' \in Nat /\ cutIn' \in BOOLEAN BY <2>1, <1>1 DEF ActivityTypeOK
    <3>2. command' \in [Commands -> {"idle", "waiting", "onStop", "woken", "running"}]
      BY <2>1, <1>1 DEF ActivityTypeOK
    <3> QED BY <3>1, <3>2, <2>1, <1>1 DEF ActivityTypeOK
  <2>5. SlotsExact' /\ StopSparesCommands' /\ WaiterHasWaker'
    BY <2>1, <2>2, <2>3, <1>1 DEF SlotsExact, StopSparesCommands, WaiterHasWaker, RunningCommands
  <2> QED BY <2>1, <2>2, <2>4, <2>5, <1>1 DEF ActivityInv
<1>6. CASE Withdraw(c)
  <2>1. /\ MustWait /\ command' = [command EXCEPT ![c] = "idle"]
        /\ UNCHANGED <<inFlight, waiters, cooled>>
    BY <1>6 DEF Withdraw
  <2>2. RunningCommands' = RunningCommands /\ Waiting' = Waiting
    BY <2>1, <1>1 DEF RunningCommands, Waiting, CommandsIn, ActivityTypeOK
  <2>3. ActivityTypeOK' BY <2>1, <1>1 DEF ActivityTypeOK
  <2>4. SlotsExact' /\ StopSparesCommands'
    BY <2>1, <2>2, <1>1, <1>2 DEF SlotsExact, StopSparesCommands, RunningCommands
  <2>5. WaiterHasWaker' BY <2>1, <2>2, <1>1, <1>2 DEF WaiterHasWaker, RunningCommands, MustWait
  <2> QED BY <2>1, <2>2, <2>3, <2>4, <2>5, <1>1 DEF ActivityInv
<1>7. CASE Wait(c) /\ stopping
  <2>1. /\ command' = [command EXCEPT ![c] = "onStop"] /\ UNCHANGED <<inFlight, waiters, cooled>>
    BY <1>7 DEF Wait
  <2>2. RunningCommands' = RunningCommands /\ Waiting' = Waiting
    BY <2>1, <1>1 DEF RunningCommands, Waiting, CommandsIn, ActivityTypeOK
  <2>3. ActivityTypeOK' BY <2>1, <1>1 DEF ActivityTypeOK
  <2>4. SlotsExact' /\ StopSparesCommands'
    BY <2>1, <2>2, <1>1, <1>2 DEF SlotsExact, StopSparesCommands, RunningCommands
  <2>5. WaiterHasWaker' BY <2>1, <2>2, <1>1, <1>7 DEF WaiterHasWaker
  <2> QED BY <2>1, <2>2, <2>3, <2>4, <2>5, <1>1 DEF ActivityInv
<1>8. CASE Wait(c) /\ ~stopping
  <2>1. /\ inFlight >= MAX_CONCURRENT /\ command' = [command EXCEPT ![c] = "waiting"]
        /\ waiters' = Append(waiters, c) /\ UNCHANGED <<inFlight, cooled>>
    BY <1>8 DEF Wait, MustWait
  <2>2. c \notin ToSet(waiters) BY <1>1 DEF Waiting, CommandsIn
  <2>3. /\ waiters' \in Seq(Commands) /\ IsInjective(waiters')
        /\ ToSet(waiters') = ToSet(waiters) \cup {c}
    BY <2>1, <2>2, <1>1, JoinLine DEF ActivityTypeOK
  <2>4. RunningCommands' = RunningCommands /\ Waiting' = Waiting \cup {c}
    BY <2>1, <1>1 DEF RunningCommands, Waiting, CommandsIn, ActivityTypeOK
  <2>5. ActivityTypeOK' BY <2>1, <2>3, <1>1 DEF ActivityTypeOK
  <2>6. SlotsExact' /\ StopSparesCommands'
    BY <2>1, <2>4, <1>1, <1>2 DEF SlotsExact, StopSparesCommands, RunningCommands
  <2>7. WaiterHasWaker' BY <2>1, <2>4, <1>2 DEF WaiterHasWaker, RunningCommands
  <2> QED BY <2>3, <2>4, <2>5, <2>6, <2>7, <1>1, <1>8 DEF ActivityInv
<1> QED BY <1>4, <1>5, <1>6, <1>7, <1>8 DEF admit

\* Aborts only shorten the line and put nobody to work.
LEMMA AbortKeeps ==
    ASSUME ActivityInv, NEW D, D \subseteq Commands, AbortCommands(D) PROVE ActivityInv'
<1>1. /\ ActivityTypeOK /\ SlotsExact /\ StopSparesCommands /\ WaiterHasWaker
      /\ IsInjective(waiters) /\ ToSet(waiters) = Waiting
      /\ (stopping /\ waiters # <<>>) => cutIn
      /\ command' = [c \in Commands |-> IF c \in D /\ command[c] \in {"waiting", "onStop"}
                                         THEN "idle" ELSE command[c]]
      /\ waiters' = Without(waiters, D) /\ aborted' = aborted \cup D
      /\ cutIn' = (cutIn /\ waiters' # <<>>) /\ UNCHANGED <<inFlight, stopping, cooled>>
  BY DEF ActivityInv, AbortCommands, CutInEnds
<1>2. /\ waiters' \in Seq(Commands) /\ IsInjective(waiters') /\ ToSet(waiters') = ToSet(waiters) \ D
  BY <1>1, LeaveTogether DEF ActivityTypeOK
<1>3. RunningCommands' = RunningCommands /\ Woken' = Woken /\ Waiting' = Waiting \ D
  BY <1>1 DEF RunningCommands, Woken, Waiting, CommandsIn, ActivityTypeOK
<1>4. (waiters' # <<>>) => (waiters # <<>>)
  <2> SUFFICES ASSUME waiters' # <<>> PROVE ToSet(waiters) # {} /\ DOMAIN <<>> = {} BY DEF ToSet
  <2>1. Head(waiters') \in ToSet(waiters') BY <1>2, LeaveFront
  <2> QED BY <2>1, <1>2, EmptySeq
<1>5. ActivityTypeOK' BY <1>1, <1>2 DEF ActivityTypeOK
<1>6. SlotsExact' /\ StopSparesCommands'
  BY <1>1, <1>3 DEF SlotsExact, StopSparesCommands, RunningCommands
<1>7. WaiterHasWaker' BY <1>1, <1>3, <1>4 DEF WaiterHasWaker, RunningCommands, Woken
<1> QED BY <1>1, <1>2, <1>3, <1>4, <1>5, <1>6, <1>7 DEF ActivityInv

\* A command ends: its slot is free and the first waiter awake.
LEMMA EndKeeps ==
    ASSUME ActivityInv, NEW c \in Commands, ReleaseSlot(c) PROVE ActivityInv'
<1>1. /\ ActivityTypeOK /\ SlotsExact /\ StopSparesCommands
      /\ IsInjective(waiters) /\ ToSet(waiters) = Waiting
      /\ command[c] = "running" /\ ShiftWaiters(c, "idle") /\ inFlight' = inFlight - 1
      /\ cooled' = FALSE /\ UNCHANGED <<stopping, aborted>> /\ cutIn' = (cutIn /\ waiters' # <<>>)
  BY DEF ActivityInv, ReleaseSlot, CutInEnds
<1>2. /\ command' \in [Commands -> {"idle", "waiting", "onStop", "woken", "running"}]
      /\ waiters' \in Seq(Commands) /\ IsInjective(waiters') /\ ToSet(waiters') = Waiting'
      /\ RunningCommands' = RunningCommands \ {c} /\ (waiters # <<>> => Woken' # {})
      /\ waiters = <<>> => waiters' = <<>>
  BY <1>1, ShiftKeeps
<1>3. c \in RunningCommands /\ ~stopping BY <1>1 DEF RunningCommands, CommandsIn, StopSparesCommands
<1>4. inFlight' = Cardinality(RunningCommands') /\ inFlight' \in Nat /\ inFlight' <= MAX_CONCURRENT
  BY <1>1, <1>2, <1>3, CountSlots, ConcurrencyAssumption DEF SlotsExact, RunningCommands
<1>5. ActivityTypeOK' BY <1>1, <1>2, <1>4 DEF ActivityTypeOK
<1>6. SlotsExact' /\ StopSparesCommands'
  BY <1>1, <1>3, <1>4 DEF SlotsExact, StopSparesCommands, RunningCommands
<1>7. WaiterHasWaker' BY <1>2 DEF WaiterHasWaker, Woken
<1> QED BY <1>1, <1>2, <1>3, <1>5, <1>6, <1>7 DEF ActivityInv

\* Stops begin when nothing runs and settle; the idle window passes.
LEMMA StoppingKeeps ==
    ASSUME ActivityInv, StoppingNext PROVE ActivityInv'
<1>1. /\ ActivityTypeOK /\ SlotsExact /\ StopSparesCommands /\ WaiterHasWaker
      /\ IsInjective(waiters) /\ ToSet(waiters) = Waiting
      /\ (stopping /\ waiters # <<>>) => cutIn
  BY DEF ActivityInv
<1>2. CASE stopIfIdle \/ stopNow
  <2>1. /\ inFlight = 0 /\ stopping' = TRUE
        /\ cutIn' = (waiters # <<>> /\ (cutIn \/ CommandsIn("woken") # {}))
        /\ UNCHANGED <<command, inFlight, waiters, cooled, aborted>>
    BY <1>2 DEF stopIfIdle, stopNow, BeginStop, NoneInFlight
  <2>2. RunningCommands = {} BY <2>1, <1>1, CountSlots DEF SlotsExact, RunningCommands
  <2>3. (waiters # <<>>) => cutIn' BY <2>1, <2>2, <1>1 DEF WaiterHasWaker, RunningCommands
  <2>4. ActivityTypeOK' /\ SlotsExact' /\ StopSparesCommands'
    BY <2>1, <2>2, <1>1 DEF ActivityTypeOK, SlotsExact, StopSparesCommands, RunningCommands, CommandsIn
  <2>5. WaiterHasWaker' /\ Waiting' = Waiting BY <2>1, <2>3 DEF WaiterHasWaker, Waiting, CommandsIn
  <2> QED BY <2>1, <2>3, <2>4, <2>5, <1>1 DEF ActivityInv
<1>3. ASSUME NEW failed \in BOOLEAN, StopSettles(failed) PROVE ActivityInv'
  <2>1. /\ stopping' = FALSE /\ cooled' = (cooled /\ ~failed)
        /\ command' = [c \in Commands |-> IF command[c] = "onStop" THEN "woken" ELSE command[c]]
        /\ UNCHANGED <<inFlight, waiters, aborted, cutIn>>
    BY <1>3 DEF StopSettles
  <2>2. RunningCommands' = RunningCommands /\ Waiting' = Waiting /\ Woken \subseteq Woken'
    BY <2>1, <1>1 DEF RunningCommands, Waiting, Woken, CommandsIn, ActivityTypeOK
  <2>3. ActivityTypeOK' BY <2>1, <1>1 DEF ActivityTypeOK
  <2>4. SlotsExact' /\ StopSparesCommands' /\ WaiterHasWaker'
    BY <2>1, <2>2, <1>1 DEF SlotsExact, StopSparesCommands, WaiterHasWaker, RunningCommands, Woken
  <2> QED BY <2>1, <2>2, <2>3, <2>4, <1>1 DEF ActivityInv
<1>4. CASE Cool
  <2>1. cooled' = TRUE /\ UNCHANGED <<command, inFlight, waiters, stopping, aborted, cutIn>>
    BY <1>4 DEF Cool
  <2> QED BY <2>1, <1>1 DEF ActivityInv, ActivityTypeOK, SlotsExact, StopSparesCommands,
    WaiterHasWaker, Waiting, CommandsIn
<1> QED BY <1>2, <1>3, <1>4 DEF StoppingNext

----------------------------------------
(* Both together: a step of a call changes the pool, the container, or     *)
(* both, and either invariant holds on its own.                            *)

AdmissionInv == PoolInv /\ ActivityInv

\* What is not touched stays.
LEMMA PoolStutters == ASSUME PoolInv, UNCHANGED poolVars PROVE PoolInv'
  BY DEF PoolInv, poolVars, PoolTypeOK, PermitsExact, Holders, Queued, Root

\* What does not touch the slots keeps their part of the invariant.
LEMMA ActivityStutters == ASSUME ActivityInv, UNCHANGED activityVars PROVE ActivityInv'
  BY DEF ActivityInv, activityVars, ActivityTypeOK, SlotsExact, StopSparesCommands,
    WaiterHasWaker, Waiting, CommandsIn

\* The abort of a call reaches commands, or none.
LEMMA AbortReachesKeeps ==
    ASSUME ActivityInv, NEW c \in Calls, AbortReaches(c) PROVE ActivityInv'
<1>1. Reached(c) \subseteq Commands BY DirectAssumption DEF Reached
<1> QED BY <1>1, AbortKeeps, ActivityStutters DEF AbortReaches

\* The invariant of admission holds at first.
LEMMA AdmissionInvInit == Init => AdmissionInv
<1> SUFFICES ASSUME Init PROVE AdmissionInv OBVIOUS
<1> USE PoolLimitsAssumption, ConcurrencyAssumption
<1>1. /\ call = [c \in Calls |-> "idle"] /\ active = 0 /\ waiting = <<>>
      /\ permit = {} /\ cancelled = {} /\ expired = {}
      /\ command = [c \in Commands |-> "idle"] /\ inFlight = 0 /\ waiters = <<>>
      /\ stopping = FALSE /\ cooled = TRUE /\ aborted = {} /\ cutIn = FALSE
  BY DEF Init, PoolInit, ActivityInit
<1>2. /\ <<>> \in Seq(Calls) /\ <<>> \in Seq(Commands) /\ DOMAIN <<>> = {}
      /\ IsFiniteSet({}) /\ Cardinality({}) = 0 /\ 0 \in Nat
  BY EmptySeq, FS_EmptySet
<1>3. IsInjective(<<>>) /\ ToSet(<<>>) = {} BY <1>2 DEF IsInjective, ToSet
<1>4. Holders = {} /\ Queued = {} /\ Waiting = {} /\ CommandsIn("running") = {}
  BY <1>1 DEF Holders, Queued, Waiting, CommandsIn
<1>5. PoolTypeOK /\ PermitsExact BY <1>1, <1>2, <1>4 DEF PoolTypeOK, PermitsExact
<1>6. PoolInv BY <1>1, <1>2, <1>3, <1>4, <1>5 DEF PoolInv
<1>7. command \in [Commands -> {"idle", "waiting", "onStop", "woken", "running"}] BY <1>1
<1>8. ActivityTypeOK BY <1>1, <1>2, <1>7 DEF ActivityTypeOK
<1>9. SlotsExact
  <2>1. Cardinality(CommandsIn("running")) = 0 BY <1>2, <1>4
  <2>2. 0 <= MAX_CONCURRENT OBVIOUS
  <2> QED BY <1>1, <2>1, <2>2 DEF SlotsExact
<1>10. StopSparesCommands /\ WaiterHasWaker BY <1>1 DEF StopSparesCommands, WaiterHasWaker
<1> QED BY <1>1, <1>2, <1>3, <1>4, <1>6, <1>8, <1>9, <1>10 DEF AdmissionInv, ActivityInv

\* No step breaks the invariant of admission.
LEMMA AdmissionInvStep == AdmissionInv /\ [Next]_vars => AdmissionInv'
<1> SUFFICES ASSUME AdmissionInv, [Next]_vars PROVE AdmissionInv' OBVIOUS
<1> USE DEF AdmissionInv
<1>1. CASE UNCHANGED vars BY <1>1, PoolStutters, ActivityStutters DEF vars
<1>2. ASSUME NEW c \in Calls, PoolStep(c) PROVE AdmissionInv'
  BY <1>2, PoolInvStep, ActivityStutters DEF PoolStep
<1>3. ASSUME NEW c \in Calls, RunCommand(c) PROVE AdmissionInv'
  BY <1>3, AdmitKeeps, PoolStutters, DirectAssumption DEF RunCommand
<1>4. ASSUME NEW c \in Calls, ToolReturns(c) PROVE AdmissionInv'
  <2>1. /\ Finish(c) /\ aborted' = aborted \ {c}
        /\ UNCHANGED <<command, inFlight, waiters, stopping, cooled, cutIn>>
    BY <1>4 DEF ToolReturns
  <2>2. ActivityInv'
    BY <2>1 DEF ActivityInv, ActivityTypeOK, SlotsExact, StopSparesCommands, WaiterHasWaker,
      Waiting, CommandsIn
  <2> QED BY <2>1, <2>2, PoolInvStep
<1>5. ASSUME NEW c \in Calls, CancelCall(c) PROVE AdmissionInv'
  BY <1>5, PoolInvStep, AbortReachesKeeps DEF CancelCall
<1>6. ASSUME NEW c \in Calls, DeadlinePasses(c) PROVE AdmissionInv'
  BY <1>6, PoolInvStep, AbortReachesKeeps DEF DeadlinePasses
<1>7. ASSUME NEW c \in Commands, CommandEnds(c) PROVE AdmissionInv'
  BY <1>7, EndKeeps, PoolStutters DEF CommandEnds
<1>8. ASSUME NEW c \in Commands, WaitExpires(c) PROVE AdmissionInv'
  BY <1>8, AbortKeeps, PoolStutters DEF WaitExpires
<1>9. ASSUME NEW c \in Direct, DirectStep(c) PROVE AdmissionInv'
  <2>1. c \in Commands /\ PoolInv' BY <1>9, DirectAssumption, PoolStutters DEF DirectStep
  <2>2. CASE NewSignal(c)
    <3>1. aborted' = aborted \ {c} /\ UNCHANGED <<command, inFlight, waiters, stopping, cooled, cutIn>>
      BY <2>2 DEF NewSignal
    <3>2. ActivityInv'
      BY <3>1 DEF ActivityInv, ActivityTypeOK, SlotsExact, StopSparesCommands, WaiterHasWaker,
        Waiting, CommandsIn
    <3> QED BY <2>1, <3>2
  <2> QED BY <1>9, <2>1, <2>2, AdmitKeeps, AbortKeeps DEF DirectStep
<1>10. CASE StoppingNext /\ UNCHANGED poolVars BY <1>10, StoppingKeeps, PoolStutters
<1> QED BY <1>1, <1>2, <1>3, <1>4, <1>5, <1>6, <1>7, <1>8, <1>9, <1>10 DEF Next

\* The permits and slots taken are those of the calls and commands that hold them,
\* and the lines are those who wait, for any number of either (short-tool-pool.ts,
\* container-activity.ts).
THEOREM AdmissionInvariant == Spec => []AdmissionInv
<1> QED BY AdmissionInvInit, AdmissionInvStep, PTL DEF Spec

\* Permits and slots are counted exactly and handed on, holders can finish and
\* stops spare commands, for any number of calls and commands: what MCTools
\* checks of short-tool-pool.ts and container-activity.ts.
THEOREM AdmissionCorrect == Spec => []AdmissionIsExact
<1>1. AdmissionInv => AdmissionIsExact
  <2> SUFFICES ASSUME AdmissionInv PROVE HoldersCanFinish
    BY DEF AdmissionInv, PoolInv, ActivityInv, AdmissionIsExact, AdmissionTypeOK
  <2> SUFFICES ASSUME NEW c \in Holders, NEW d \in Children(c), call[d] = "queued" PROVE FALSE
    BY DEF HoldersCanFinish
  <2>1. d \in Calls /\ Parent[d] = c /\ c \in Calls
    BY DEF Children, AdmissionInv, PoolInv, PoolTypeOK, Holders
  <2>2. Parent[d] = None BY <2>1 DEF AdmissionInv, PoolInv, Root
  <2> QED BY <2>1, <2>2, CallsAssumption
<1> QED BY <1>1, AdmissionInvariant, PTL

\* Permits go to the head of the line: no newcomer overtakes a waiter
\* (short-tool-pool.ts).
THEOREM PermitsAreFifo == Spec => FifoPermits
<1> DEFINE Granted == \A c \in Calls : call'[c] = "granted" /\ call[c] # "granted"
                                          => waiting = <<>> \/ c = Head(waiting)
<1>1. ASSUME AdmissionInv, NEW c \in Calls,
             \/ Bypass(c) \/ acquire(c) \/ Resume(c) \/ Finish(c)
             \/ QueueDeadline(c) \/ Cancel(c) \/ ExecutionDeadline(c)
      PROVE  Granted
  <2>1. /\ call \in [Calls -> {"idle", "queued", "granted", "executing"}]
        /\ waiting # <<>> => active = Capacity
    BY <1>1 DEF AdmissionInv, PoolInv, PoolTypeOK, PermitsExact
  <2>2. ASSUME release(c) PROVE Granted BY <2>1, <2>2 DEF release, Settle
  <2>3. CASE Bypass(c) \/ ExecutionDeadline(c) BY <2>1, <2>3 DEF Bypass, ExecutionDeadline
  <2>4. CASE acquire(c) BY <2>1, <2>4, PoolLimitsAssumption DEF acquire
  <2>5. CASE Resume(c) BY <2>1, <2>2, <2>5 DEF Resume
  <2>6. CASE Finish(c) BY <2>1, <2>2, <2>6 DEF Finish, Settle
  <2>7. CASE QueueDeadline(c) BY <2>1, <2>7 DEF QueueDeadline, Leave, Settle
  <2>8. CASE Cancel(c) BY <2>1, <2>8 DEF Cancel, Leave, Settle
  <2> QED BY <1>1, <2>3, <2>4, <2>5, <2>6, <2>7, <2>8
<1>2. AdmissionInv /\ [Next]_vars => [Granted]_poolVars
  <2> SUFFICES ASSUME AdmissionInv, [Next]_vars, ~UNCHANGED poolVars PROVE Granted OBVIOUS
  <2>1. PICK c \in Calls : \/ Bypass(c) \/ acquire(c) \/ Resume(c) \/ Finish(c)
                            \/ QueueDeadline(c) \/ Cancel(c) \/ ExecutionDeadline(c)
    BY DEF Next, vars, PoolStep, RunCommand, ToolReturns, CancelCall, DeadlinePasses,
      CommandEnds, WaitExpires, DirectStep
  <2> QED BY <1>1, <2>1
<1> QED BY <1>2, AdmissionInvariant, PTL DEF Spec, FifoPermits

----------------------------------------
(* Where commands run.  Under automatic routing one command at a time is   *)
(* between taking its marks and its answer, because every link before its  *)
(* own is done; whatever moves the counters meanwhile is its own doing, a  *)
(* file tool's, or that of an attempt that outlived its deadline.          *)

RunRecord == [at : {"new", "waiting", "mkdir", "light", "lingering", "container", "rerun", "done"},
              rev : Nat, mark : Nat, wrote : BOOLEAN, crossed : BOOLEAN, over : BOOLEAN,
              expired : BOOLEAN, effects : Nat]
OutcomeRecord == [runtime : {"none", "light", "container"}, miss : BOOLEAN, retried : BOOLEAN,
                  settled : BOOLEAN, late : BOOLEAN]

RoutingTypeOK ==
  /\ policy \in {"auto", "light", "container"}
  /\ nature \in [Commands0 -> [needs : {"light", "loud", "silent"}, writes : BOOLEAN]]
  /\ run \in [Commands0 -> RunRecord] /\ outcome \in [Commands0 -> OutcomeRecord]
  /\ turns \in Seq([of : Commands0, done : BOOLEAN])
  /\ revision \in Nat /\ boundary \in Nat /\ elsewhere \in Nat

\* What a command has written and crossed.
WritesOK(c) ==
  /\ run[c].at \in {"new", "waiting", "mkdir", "container"} =>
       run[c].effects = 0 /\ ~run[c].wrote /\ ~run[c].crossed
  /\ run[c].at = "rerun" => run[c].effects = 0
  /\ run[c].at \in {"light", "lingering"} => run[c].effects = IF run[c].wrote THEN 1 ELSE 0
  /\ run[c].effects <= 1
  /\ run[c].at = "lingering" \/ run[c].at = "light" => ~run[c].crossed \/ nature[c].needs = "silent"

\* Its link in the chain of turns.
HasLink(c) == \E i \in DOMAIN turns : turns[i].of = c
LinkOK(c) ==
  policy = "auto" =>
    /\ run[c].at \in {"waiting", "mkdir", "light", "lingering"} => HasLink(c)
    /\ \A i \in DOMAIN turns : turns[i].of = c =>
         /\ run[c].at \in {"waiting", "mkdir", "light"} => ~turns[i].done
         /\ run[c].at = "lingering" /\ ~run[c].over /\ ~run[c].expired => ~turns[i].done
         /\ run[c].at \in {"mkdir", "light", "lingering"} => \A j \in 1..(i - 1) : turns[j].done
TurnsOK ==
  /\ \A i, j \in DOMAIN turns : turns[i].of = turns[j].of => i = j
  /\ \A i \in DOMAIN turns : run[turns[i].of].at # "new"
  /\ \A c \in Commands0 : LinkOK(c)

Lingered(c) == \E d \in Commands0 \ {c} : run[d].at = "lingering" /\ run[d].expired
OthersWrote == elsewhere > 0 \/ \E d \in Commands0 : run[d].effects > 0

\* What the marks of a light attempt tell.
MarksOK(c) ==
  /\ run[c].at \in {"light", "lingering"} /\ policy = "auto" =>
       /\ run[c].rev <= revision /\ run[c].mark <= boundary
       /\ run[c].wrote => revision > run[c].rev
       /\ run[c].crossed => boundary > run[c].mark
  /\ run[c].at = "light" /\ policy = "auto" =>
       /\ boundary > run[c].mark => run[c].crossed \/ Lingered(c)
       /\ revision > run[c].rev => OthersWrote
  /\ run[c].at = "rerun" => nature[c].needs # "light" \/ Lingered(c)
  /\ run[c].at \in {"waiting", "mkdir", "rerun"} => policy = "auto"
  /\ run[c].at \in {"light", "lingering"} => policy # "container"

RoutingInv ==
  /\ RoutingTypeOK /\ TurnsOK
  /\ \A c \in Commands0 : WritesOK(c) /\ MarksOK(c)
  /\ MissIsNeverHidden /\ BlameIsItsOwn /\ MissHasACause

\* The record of c becomes one with these fields; no other changes.
Becomes(c, at, rev, mark, wrote, crossed, over, outlived, effects) ==
  /\ run' \in [Commands0 -> RunRecord]
  /\ \A d \in Commands0 \ {c} : run'[d] = run[d]
  /\ run'[c].at = at /\ run'[c].rev = rev /\ run'[c].mark = mark /\ run'[c].wrote = wrote
  /\ run'[c].crossed = crossed /\ run'[c].over = over /\ run'[c].expired = outlived
  /\ run'[c].effects = effects
KeepsBut(c, at, wrote, crossed, over, outlived, effects) ==
  Becomes(c, at, run[c].rev, run[c].mark, wrote, crossed, over, outlived, effects)
MovesTo(c, at) == KeepsBut(c, at, run[c].wrote, run[c].crossed, run[c].over, run[c].expired, run[c].effects)
IsFinished(c, effects) == Becomes(c, "done", 0, 0, FALSE, FALSE, FALSE, FALSE, effects)
Answers0(c, runtime, miss, retried, plain, late) ==
  /\ outcome' \in [Commands0 -> OutcomeRecord]
  /\ \A d \in Commands0 \ {c} : outcome'[d] = outcome[d]
  /\ outcome'[c].runtime = runtime /\ outcome'[c].miss = miss /\ outcome'[c].retried = retried
  /\ outcome'[c].settled = plain /\ outcome'[c].late = late

\* Writing the record or the answer of one command leaves the others' alone.
LEMMA RecordsMove ==
  ASSUME RoutingTypeOK, NEW c \in Commands0
  PROVE  /\ \A r \in RunRecord : Set0(c, r) =>
              Becomes(c, r.at, r.rev, r.mark, r.wrote, r.crossed, r.over, r.expired, r.effects)
         /\ \A r \in OutcomeRecord : outcome' = [outcome EXCEPT ![c] = r] =>
              Answers0(c, r.runtime, r.miss, r.retried, r.settled, r.late)
<1>1. run \in [Commands0 -> RunRecord] /\ outcome \in [Commands0 -> OutcomeRecord]
  BY DEF RoutingTypeOK
<1>2. ASSUME NEW r \in RunRecord, Set0(c, r)
      PROVE  Becomes(c, r.at, r.rev, r.mark, r.wrote, r.crossed, r.over, r.expired, r.effects)
  <2>1. run' \in [Commands0 -> RunRecord] /\ run'[c] = r /\ \A d \in Commands0 \ {c} : run'[d] = run[d]
    BY <1>1, <1>2 DEF Set0
  <2> QED BY <2>1 DEF Becomes
<1>3. ASSUME NEW r \in OutcomeRecord, outcome' = [outcome EXCEPT ![c] = r]
      PROVE  Answers0(c, r.runtime, r.miss, r.retried, r.settled, r.late)
  <2>1. /\ outcome' \in [Commands0 -> OutcomeRecord] /\ outcome'[c] = r
        /\ \A d \in Commands0 \ {c} : outcome'[d] = outcome[d]
    BY <1>1, <1>3
  <2> QED BY <2>1 DEF Answers0
<1> QED BY <1>2, <1>3

\* The records that the actions write.
LEMMA RecordsAre ==
  ASSUME RoutingTypeOK, NEW c \in Commands0
  PROVE  /\ \A s \in {"waiting", "container", "light", "mkdir", "lingering"} :
              Set0(c, [run[c] EXCEPT !.at = s]) => MovesTo(c, s)
         /\ Set0(c, [run[c] EXCEPT !.at = "rerun", !.over = TRUE]) =>
              KeepsBut(c, "rerun", run[c].wrote, run[c].crossed, TRUE, run[c].expired, run[c].effects)
         /\ Set0(c, [run[c] EXCEPT !.over = TRUE]) =>
              KeepsBut(c, run[c].at, run[c].wrote, run[c].crossed, TRUE, run[c].expired, run[c].effects)
         /\ Set0(c, [run[c] EXCEPT !.expired = TRUE]) =>
              KeepsBut(c, run[c].at, run[c].wrote, run[c].crossed, run[c].over, TRUE, run[c].effects)
         /\ Set0(c, [run[c] EXCEPT !.crossed = TRUE]) =>
              KeepsBut(c, run[c].at, run[c].wrote, TRUE, run[c].over, run[c].expired, run[c].effects)
         /\ Set0(c, [run[c] EXCEPT !.wrote = TRUE, !.effects = @ + 1]) =>
              KeepsBut(c, run[c].at, TRUE, run[c].crossed, run[c].over, run[c].expired, run[c].effects + 1)
         /\ Set0(c, [run[c] EXCEPT !.at = "mkdir", !.rev = revision]) =>
              Becomes(c, "mkdir", revision, run[c].mark, run[c].wrote, run[c].crossed, run[c].over,
                      run[c].expired, run[c].effects)
         /\ Set0(c, [run[c] EXCEPT !.at = "light", !.rev = revision + 1, !.mark = boundary]) =>
              Becomes(c, "light", revision + 1, boundary, run[c].wrote, run[c].crossed, run[c].over,
                      run[c].expired, run[c].effects)
         /\ Set0(c, Finished(c)) => IsFinished(c, run[c].effects)
         /\ Set0(c, [Finished(c) EXCEPT !.effects = IF nature[c].writes THEN @ + 1 ELSE @]) =>
              IsFinished(c, IF nature[c].writes THEN run[c].effects + 1 ELSE run[c].effects)
<1> USE DEF KeepsBut, MovesTo, IsFinished
<1> DEFINE r == run[c]
<1>1. r \in RunRecord /\ revision \in Nat /\ boundary \in Nat BY DEF RoutingTypeOK
<1> HIDE DEF r
<1>2. ASSUME NEW s \in {"waiting", "container", "light", "mkdir", "lingering"}
      PROVE  [r EXCEPT !.at = s] \in RunRecord /\ [r EXCEPT !.at = s] =
        [at |-> s, rev |-> r.rev, mark |-> r.mark, wrote |-> r.wrote, crossed |-> r.crossed,
         over |-> r.over, expired |-> r.expired, effects |-> r.effects]
  BY <1>1 DEF RunRecord
<1>3. ASSUME NEW s \in {"waiting", "container", "light", "mkdir", "lingering"}, Set0(c, [r EXCEPT !.at = s])
      PROVE  Becomes(c, s, r.rev, r.mark, r.wrote, r.crossed, r.over, r.expired, r.effects)
  BY <1>2, <1>3, RecordsMove
<1>4. ASSUME Set0(c, [r EXCEPT !.at = "rerun", !.over = TRUE])
      PROVE  Becomes(c, "rerun", r.rev, r.mark, r.wrote, r.crossed, TRUE, r.expired, r.effects)
  <2> DEFINE x == [r EXCEPT !.at = "rerun", !.over = TRUE]
  <2>1. x \in RunRecord BY <1>1 DEF RunRecord
  <2>2. x.at = "rerun" /\ x.rev = r.rev /\ x.mark = r.mark /\ x.effects = r.effects
    BY <1>1 DEF RunRecord
  <2>3. x.wrote = r.wrote /\ x.crossed = r.crossed /\ x.over = TRUE /\ x.expired = r.expired
    BY <1>1 DEF RunRecord
  <2> HIDE DEF x
  <2> QED BY <2>1, <2>2, <2>3, <1>4, RecordsMove DEF x
<1>5. ASSUME Set0(c, [r EXCEPT !.over = TRUE])
      PROVE  Becomes(c, r.at, r.rev, r.mark, r.wrote, r.crossed, TRUE, r.expired, r.effects)
  <2> DEFINE x == [r EXCEPT !.over = TRUE]
  <2>1. x \in RunRecord BY <1>1 DEF RunRecord
  <2>2. x.at = r.at /\ x.rev = r.rev /\ x.mark = r.mark /\ x.effects = r.effects
    BY <1>1 DEF RunRecord
  <2>3. x.wrote = r.wrote /\ x.crossed = r.crossed /\ x.over = TRUE /\ x.expired = r.expired
    BY <1>1 DEF RunRecord
  <2> HIDE DEF x
  <2> QED BY <2>1, <2>2, <2>3, <1>5, RecordsMove DEF x
<1>6. ASSUME Set0(c, [r EXCEPT !.expired = TRUE])
      PROVE  Becomes(c, r.at, r.rev, r.mark, r.wrote, r.crossed, r.over, TRUE, r.effects)
  <2> DEFINE x == [r EXCEPT !.expired = TRUE]
  <2>1. x \in RunRecord BY <1>1 DEF RunRecord
  <2>2. x.at = r.at /\ x.rev = r.rev /\ x.mark = r.mark /\ x.effects = r.effects
    BY <1>1 DEF RunRecord
  <2>3. x.wrote = r.wrote /\ x.crossed = r.crossed /\ x.over = r.over /\ x.expired = TRUE
    BY <1>1 DEF RunRecord
  <2> HIDE DEF x
  <2> QED BY <2>1, <2>2, <2>3, <1>6, RecordsMove DEF x
<1>7. ASSUME Set0(c, [r EXCEPT !.crossed = TRUE])
      PROVE  Becomes(c, r.at, r.rev, r.mark, r.wrote, TRUE, r.over, r.expired, r.effects)
  <2> DEFINE x == [r EXCEPT !.crossed = TRUE]
  <2>1. x \in RunRecord BY <1>1 DEF RunRecord
  <2>2. x.at = r.at /\ x.rev = r.rev /\ x.mark = r.mark /\ x.effects = r.effects
    BY <1>1 DEF RunRecord
  <2>3. x.wrote = r.wrote /\ x.crossed = TRUE /\ x.over = r.over /\ x.expired = r.expired
    BY <1>1 DEF RunRecord
  <2> HIDE DEF x
  <2> QED BY <2>1, <2>2, <2>3, <1>7, RecordsMove DEF x
<1>8. ASSUME Set0(c, [r EXCEPT !.wrote = TRUE, !.effects = @ + 1])
      PROVE  Becomes(c, r.at, r.rev, r.mark, TRUE, r.crossed, r.over, r.expired, r.effects + 1)
  <2> DEFINE x == [r EXCEPT !.wrote = TRUE, !.effects = @ + 1]
  <2>1. x \in RunRecord
    <3>1. PICK k \in Nat : k = r.effects + 1 BY <1>1 DEF RunRecord
    <3>2. [r EXCEPT !.wrote = TRUE, !.effects = k] \in RunRecord BY <1>1, <3>1 DEF RunRecord
    <3>3. x = [r EXCEPT !.wrote = TRUE, !.effects = k] BY <1>1, <3>1 DEF RunRecord
    <3> QED BY <3>2, <3>3
  <2>2. x.at = r.at /\ x.rev = r.rev /\ x.mark = r.mark /\ x.effects = r.effects + 1
    BY <1>1 DEF RunRecord
  <2>3. x.wrote = TRUE /\ x.crossed = r.crossed /\ x.over = r.over /\ x.expired = r.expired
    BY <1>1 DEF RunRecord
  <2> HIDE DEF x
  <2> QED BY <2>1, <2>2, <2>3, <1>8, RecordsMove DEF x
<1>9. ASSUME Set0(c, [r EXCEPT !.at = "mkdir", !.rev = revision])
      PROVE  Becomes(c, "mkdir", revision, r.mark, r.wrote, r.crossed, r.over, r.expired, r.effects)
  <2> DEFINE x == [r EXCEPT !.at = "mkdir", !.rev = revision]
  <2>1. x \in RunRecord BY <1>1 DEF RunRecord
  <2>2. x.at = "mkdir" /\ x.rev = revision /\ x.mark = r.mark /\ x.effects = r.effects
    BY <1>1 DEF RunRecord
  <2>3. x.wrote = r.wrote /\ x.crossed = r.crossed /\ x.over = r.over /\ x.expired = r.expired
    BY <1>1 DEF RunRecord
  <2> HIDE DEF x
  <2> QED BY <2>1, <2>2, <2>3, <1>9, RecordsMove DEF x
<1>10. ASSUME Set0(c, [r EXCEPT !.at = "light", !.rev = revision + 1, !.mark = boundary])
      PROVE  Becomes(c, "light", revision + 1, boundary, r.wrote, r.crossed, r.over, r.expired, r.effects)
  <2> DEFINE x == [r EXCEPT !.at = "light", !.rev = revision + 1, !.mark = boundary]
  <2>1. x \in RunRecord
    <3>1. PICK k \in Nat : k = revision + 1 BY <1>1 DEF RunRecord
    <3>2. [r EXCEPT !.at = "light", !.rev = k, !.mark = boundary] \in RunRecord
      BY <1>1, <3>1 DEF RunRecord
    <3>3. x = [r EXCEPT !.at = "light", !.rev = k, !.mark = boundary] BY <1>1, <3>1 DEF RunRecord
    <3> QED BY <3>2, <3>3
  <2>2. x.at = "light" /\ x.rev = revision + 1 /\ x.mark = boundary /\ x.effects = r.effects
    BY <1>1 DEF RunRecord
  <2>3. x.wrote = r.wrote /\ x.crossed = r.crossed /\ x.over = r.over /\ x.expired = r.expired
    BY <1>1 DEF RunRecord
  <2> HIDE DEF x
  <2> QED BY <2>1, <2>2, <2>3, <1>10, RecordsMove DEF x
<1>11. ASSUME Set0(c, Finished(c))
      PROVE  Becomes(c, "done", 0, 0, FALSE, FALSE, FALSE, FALSE, r.effects)
  <2> DEFINE x == Finished(c)
  <2>1. x \in RunRecord BY <1>1 DEF RunRecord, Finished, NotRun, r
  <2>2. x.at = "done" /\ x.rev = 0 /\ x.mark = 0 /\ x.effects = r.effects
    BY <1>1 DEF RunRecord, Finished, NotRun, r
  <2>3. x.wrote = FALSE /\ x.crossed = FALSE /\ x.over = FALSE /\ x.expired = FALSE
    BY <1>1 DEF RunRecord, Finished, NotRun, r
  <2> HIDE DEF x
  <2> QED BY <2>1, <2>2, <2>3, <1>11, RecordsMove DEF x
<1>12. ASSUME Set0(c, [Finished(c) EXCEPT !.effects = IF nature[c].writes THEN @ + 1 ELSE @])
      PROVE  Becomes(c, "done", 0, 0, FALSE, FALSE, FALSE, FALSE, (IF nature[c].writes THEN r.effects + 1 ELSE r.effects))
  <2> DEFINE x == [Finished(c) EXCEPT !.effects = IF nature[c].writes THEN @ + 1 ELSE @]
  <2>1. x \in RunRecord
    <3>1. PICK k \in Nat : k = (IF nature[c].writes THEN r.effects + 1 ELSE r.effects)
      BY <1>1 DEF RunRecord
    <3>2. [Finished(c) EXCEPT !.effects = k] \in RunRecord
      BY <1>1, <3>1 DEF RunRecord, Finished, NotRun, r
    <3>3. x = [Finished(c) EXCEPT !.effects = k] BY <1>1, <3>1 DEF RunRecord, Finished, NotRun, r
    <3> QED BY <3>2, <3>3
  <2>2. x.at = "done" /\ x.rev = 0 /\ x.mark = 0 /\ x.effects = (IF nature[c].writes THEN r.effects + 1 ELSE r.effects)
    BY <1>1 DEF RunRecord, Finished, NotRun, r
  <2>3. x.wrote = FALSE /\ x.crossed = FALSE /\ x.over = FALSE /\ x.expired = FALSE
    BY <1>1 DEF RunRecord, Finished, NotRun, r
  <2> HIDE DEF x
  <2> QED BY <2>1, <2>2, <2>3, <1>12, RecordsMove DEF x
<1> QED BY <1>3, <1>4, <1>5, <1>6, <1>7, <1>8, <1>9, <1>10, <1>11, <1>12 DEF r

\* The turns of the chain when c gives its own up.
LinkRecord == [of : Commands0, done : BOOLEAN]
Released(c) ==
  /\ turns' \in Seq(LinkRecord) /\ DOMAIN turns' = DOMAIN turns
  /\ \A i \in DOMAIN turns :
       /\ turns'[i].of = turns[i].of
       /\ turns[i].of = c => turns'[i].done
       /\ turns[i].of # c => turns'[i] = turns[i]

\* A command has one link in the line of the light shell, and releases that.
LEMMA ReleaseIsOwn ==
  ASSUME RoutingTypeOK, TurnsOK, NEW c \in Commands0, HasLink(c)
  PROVE  /\ Link(c) \in DOMAIN turns /\ turns[Link(c)].of = c
         /\ \A i \in DOMAIN turns : turns[i].of = c => i = Link(c)
         /\ ReleaseTurn(c) => Released(c)
<1>1. Link(c) \in DOMAIN turns /\ turns[Link(c)].of = c BY DEF HasLink, Link
<1>2. \A i \in DOMAIN turns : turns[i].of = c => i = Link(c) BY <1>1 DEF TurnsOK
<1>3. turns \in Seq(LinkRecord) BY DEF RoutingTypeOK, LinkRecord
<1>4. ASSUME ReleaseTurn(c) PROVE Released(c)
  <2> DEFINE l == Link(c)  x == [turns[l] EXCEPT !.done = TRUE]
  <2>1. turns[l] \in LinkRecord BY <1>1, <1>3
  <2>2. x \in LinkRecord /\ x.of = c /\ x.done = TRUE BY <1>1, <2>1 DEF LinkRecord
  <2>3. turns' = [turns EXCEPT ![l] = x] BY <1>4 DEF ReleaseTurn
  <2> HIDE DEF x, l
  <2>0. l \in 1..Len(turns) /\ DOMAIN turns = 1..Len(turns) BY <1>1, <1>3 DEF l
  <2>4. turns' \in Seq(LinkRecord) /\ DOMAIN turns' = DOMAIN turns
    BY <2>2, <2>3, <1>3, <2>0, ExceptSeq
  <2>5. \A i \in DOMAIN turns : turns'[i] = IF i = l THEN x ELSE turns[i] BY <2>3, <1>3
  <2>6. l \in DOMAIN turns /\ turns[l].of = c /\ \A i \in DOMAIN turns : turns[i].of = c => i = l
    BY <1>1, <1>2 DEF l
  <2> QED BY <2>2, <2>4, <2>5, <2>6 DEF Released
<1> QED BY <1>1, <1>2, <1>4

\* Under automatic routing one command is between its turn and its answer, and
\* an attempt that was left running and is not over keeps the next one out.
LEMMA OneAttempt ==
  ASSUME RoutingTypeOK, TurnsOK, policy = "auto", NEW c \in Commands0, NEW d \in Commands0,
         run[c].at \in {"mkdir", "light"},
         \/ run[d].at \in {"mkdir", "light"}
         \/ run[d].at = "lingering" /\ ~run[d].over /\ ~run[d].expired
  PROVE  c = d
<1>1. PICK i \in DOMAIN turns : turns[i].of = c BY DEF TurnsOK, LinkOK, HasLink
<1>2. PICK j \in DOMAIN turns : turns[j].of = d BY DEF TurnsOK, LinkOK, HasLink
<1>3. ~turns[i].done /\ ~turns[j].done BY <1>1, <1>2 DEF TurnsOK, LinkOK
<1>4. (\A k \in 1..(i - 1) : turns[k].done) /\ (\A k \in 1..(j - 1) : turns[k].done)
  BY <1>1, <1>2 DEF TurnsOK, LinkOK
<1>5. i \in Nat /\ j \in Nat /\ i >= 1 /\ j >= 1 BY DEF RoutingTypeOK
<1>6. i = j BY <1>3, <1>4, <1>5
<1> QED BY <1>1, <1>2, <1>6

\* What each action does, without EXCEPT.
KeepsCounters == revision' = revision /\ boundary' = boundary /\ elsewhere' = elsewhere
KeepsGiven == policy' = policy /\ nature' = nature

SubmitDoes(c) ==
  /\ run[c].at = "new" /\ KeepsGiven /\ KeepsCounters /\ outcome' = outcome
  /\ \/ MovesTo(c, "container") /\ turns' = turns
     \/ policy = "light" /\ MovesTo(c, "light") /\ turns' = turns
     \/ /\ policy = "auto" /\ MovesTo(c, "waiting")
        /\ turns' = Append(turns, [of |-> c, done |-> FALSE])
TurnGivenUpDoes(c) ==
  /\ run[c].at = "waiting" /\ KeepsGiven /\ KeepsCounters /\ Released(c)
  /\ IsFinished(c, run[c].effects) /\ Answers0(c, "light", FALSE, FALSE, FALSE, FALSE)
TurnComesDoes(c) ==
  /\ run[c].at = "waiting" /\ KeepsGiven /\ KeepsCounters /\ turns' = turns /\ outcome' = outcome
  /\ \A i \in DOMAIN turns : turns[i].of = c => \A j \in 1..(i - 1) : turns[j].done
  /\ Becomes(c, "mkdir", revision, run[c].mark, run[c].wrote, run[c].crossed, run[c].over,
             run[c].expired, run[c].effects)
StartsLightDoes(c) ==
  /\ run[c].at = "mkdir" /\ KeepsGiven /\ turns' = turns /\ outcome' = outcome
  /\ revision' = revision + 1 /\ boundary' = boundary /\ elsewhere' = elsewhere
  /\ Becomes(c, "light", revision + 1, boundary, run[c].wrote, run[c].crossed, run[c].over,
             run[c].expired, run[c].effects)
LightWritesDoes(c) ==
  /\ Attempting(c) /\ ~run[c].wrote /\ KeepsGiven /\ turns' = turns /\ outcome' = outcome
  /\ revision' = revision + 1 /\ boundary' = boundary /\ elsewhere' = elsewhere
  /\ KeepsBut(c, run[c].at, TRUE, run[c].crossed, run[c].over, run[c].expired, run[c].effects + 1)
CrossesDoes(c) ==
  /\ Attempting(c) /\ crossesBoundary(c) /\ KeepsGiven /\ turns' = turns /\ outcome' = outcome
  /\ revision' = revision /\ boundary' = boundary + 1 /\ elsewhere' = elsewhere
  /\ KeepsBut(c, run[c].at, run[c].wrote, TRUE, run[c].over, run[c].expired, run[c].effects)
LightEndsDoes(c) ==
  /\ run[c].at = "light" /\ RunsToItsEnd(c) /\ KeepsGiven /\ KeepsCounters
  /\ IF policy = "light" THEN turns' = turns ELSE Released(c)
  /\ \/ /\ policy # "light" /\ Missed(c) /\ leftWorkspaceUnchanged(c) /\ outcome' = outcome
        /\ KeepsBut(c, "rerun", run[c].wrote, run[c].crossed, TRUE, run[c].expired, run[c].effects)
     \/ \E inTime \in BOOLEAN :
          /\ ~(policy # "light" /\ Missed(c) /\ leftWorkspaceUnchanged(c) /\ inTime)
          /\ IsFinished(c, run[c].effects)
          /\ Answers0(c, "light", policy # "light" /\ Missed(c), FALSE, TRUE, ~inTime)
LightStoppedDoes(c) ==
  /\ run[c].at = "light" /\ KeepsGiven /\ KeepsCounters
  /\ Answers0(c, "light", FALSE, FALSE, FALSE, FALSE)
  /\ \/ /\ IsFinished(c, run[c].effects)
        /\ IF policy = "light" THEN turns' = turns ELSE Released(c)
     \/ MovesTo(c, "lingering") /\ turns' = turns
LingeringEndsDoes(c) ==
  /\ run[c].at = "lingering" /\ ~run[c].over /\ KeepsGiven /\ KeepsCounters
  /\ turns' = turns /\ outcome' = outcome
  /\ \/ KeepsBut(c, run[c].at, run[c].wrote, run[c].crossed, TRUE, run[c].expired, run[c].effects)
     \/ KeepsBut(c, run[c].at, run[c].wrote, run[c].crossed, run[c].over, TRUE, run[c].effects)
LingeringReleasesDoes(c) ==
  /\ lingeringSettled(c) /\ KeepsGiven /\ KeepsCounters /\ Released(c)
  /\ run' = run /\ outcome' = outcome
ContainerRunsDoes(c) ==
  /\ run[c].at \in {"container", "rerun"} /\ KeepsGiven /\ turns' = turns
  /\ boundary' = boundary /\ elsewhere' = elsewhere
  /\ \/ /\ IsFinished(c, IF nature[c].writes THEN run[c].effects + 1 ELSE run[c].effects)
        /\ revision' = IF nature[c].writes THEN revision + 1 ELSE revision
        /\ Answers0(c, "container", FALSE, run[c].at = "rerun", TRUE, FALSE)
     \/ /\ IsFinished(c, run[c].effects) /\ revision' = revision
        /\ Answers0(c, "container", FALSE, run[c].at = "rerun", FALSE, FALSE)

\* Each action does just that.
LEMMA RoutingMoves ==
  ASSUME RoutingInv, NEW c \in Commands0
  PROVE  /\ Submit(c) => SubmitDoes(c)
         /\ TurnGivenUp(c) => TurnGivenUpDoes(c)
         /\ TurnComes(c) => TurnComesDoes(c)
         /\ StartsLight(c) => StartsLightDoes(c)
         /\ LightWrites(c) => LightWritesDoes(c)
         /\ Crosses(c) => CrossesDoes(c)
         /\ LightEnds(c) => LightEndsDoes(c)
         /\ LightStopped(c) => LightStoppedDoes(c)
         /\ LingeringEnds(c) => LingeringEndsDoes(c)
         /\ LingeringReleases(c) => LingeringReleasesDoes(c)
         /\ ContainerRuns(c) => ContainerRunsDoes(c)
<1> USE DEF KeepsGiven, KeepsCounters, given, counters, SubmitDoes, TurnGivenUpDoes, TurnComesDoes, StartsLightDoes, LightWritesDoes, CrossesDoes,
           LightEndsDoes, LightStoppedDoes, LingeringEndsDoes, LingeringReleasesDoes, ContainerRunsDoes
<1>1. RoutingTypeOK /\ TurnsOK /\ MarksOK(c) /\ policy \in {"auto", "light", "container"}
  BY DEF RoutingInv, RoutingTypeOK
<1>2. \A rt \in {"none", "light", "container"}, mi, re, st, la \in BOOLEAN :
        outcome' = [outcome EXCEPT ![c] = [runtime |-> rt, miss |-> mi, retried |-> re, settled |-> st, late |-> la]]
          => Answers0(c, rt, mi, re, st, la)
  <2> TAKE rt \in {"none", "light", "container"}, mi, re, st, la \in BOOLEAN
  <2> DEFINE o == [runtime |-> rt, miss |-> mi, retried |-> re, settled |-> st, late |-> la]
  <2>1. o \in OutcomeRecord /\ o.runtime = rt /\ o.miss = mi /\ o.retried = re /\ o.settled = st /\ o.late = la
    BY DEF OutcomeRecord
  <2> HIDE DEF o
  <2>2. ASSUME outcome' = [outcome EXCEPT ![c] = o] PROVE Answers0(c, rt, mi, re, st, la)
    BY <1>1, <2>1, <2>2, RecordsMove
  <2> QED BY <2>2 DEF o
<1>3. \A rt \in {"none", "light", "container"}, mi, re, st \in BOOLEAN :
        Answer0(c, rt, mi, re, st) => Answers0(c, rt, mi, re, st, FALSE)
  BY <1>2 DEF Answer0
<1>4. policy = "auto" /\ run[c].at \in {"waiting", "mkdir", "light", "lingering"} => HasLink(c)
  BY <1>1 DEF TurnsOK, LinkOK
<1>5. ASSUME Submit(c) PROVE SubmitDoes(c)
  <2>1. run[c].at = "new" /\ KeepsGiven /\ KeepsCounters /\ outcome' = outcome BY <1>5 DEF Submit
  <2>2. PICK route \in routeBashCommand(c) :
          CASE route = "container" -> Set0(c, [run[c] EXCEPT !.at = "container"]) /\ UNCHANGED turns
            [] policy = "light"    -> Set0(c, [run[c] EXCEPT !.at = "light"]) /\ UNCHANGED turns
            [] OTHER -> /\ Set0(c, [run[c] EXCEPT !.at = "waiting"])
                        /\ turns' = Append(turns, [of |-> c, done |-> FALSE])
    BY <1>5 DEF Submit
  <2>3. route \in {"light", "container"} /\ (policy # "auto" => route = policy)
    BY <1>1 DEF routeBashCommand
  <2>4. CASE route = "container"
    <3>1. Set0(c, [run[c] EXCEPT !.at = "container"]) /\ turns' = turns BY <2>2, <2>3, <2>4
    <3> QED BY <3>1, <2>1, <1>1, RecordsAre
  <2>5. CASE route # "container" /\ policy = "light"
    <3>1. Set0(c, [run[c] EXCEPT !.at = "light"]) /\ turns' = turns BY <2>2, <2>5
    <3> QED BY <3>1, <2>1, <2>5, <1>1, RecordsAre
  <2>6. CASE route # "container" /\ policy # "light"
    <3>1. Set0(c, [run[c] EXCEPT !.at = "waiting"]) /\ turns' = Append(turns, [of |-> c, done |-> FALSE])
      BY <2>2, <2>6
    <3>2. policy = "auto" BY <1>1, <2>3, <2>6
    <3> QED BY <3>1, <3>2, <2>1, <1>1, RecordsAre
  <2> QED BY <2>4, <2>5, <2>6
<1>6. TurnGivenUp(c) => TurnGivenUpDoes(c)
  BY <1>1, <1>3, <1>4, RecordsAre, ReleaseIsOwn DEF TurnGivenUp, MarksOK
<1>7. TurnComes(c) => TurnComesDoes(c)
  BY <1>1, <1>4, RecordsAre, ReleaseIsOwn DEF TurnComes, MarksOK, previousDone
<1>8. StartsLight(c) => StartsLightDoes(c) BY <1>1, RecordsAre DEF StartsLight, workspaceRevision
<1>9. LightWrites(c) => LightWritesDoes(c) BY <1>1, RecordsAre DEF LightWrites
<1>10. Crosses(c) => CrossesDoes(c) BY <1>1, RecordsAre DEF Crosses
<1>11. ASSUME run[c].at = "light", IF policy = "light" THEN UNCHANGED turns ELSE ReleaseTurn(c)
       PROVE  IF policy = "light" THEN turns' = turns ELSE Released(c)
  BY <1>1, <1>4, <1>11, ReleaseIsOwn DEF MarksOK
<1>12. ASSUME LightEnds(c) PROVE LightEndsDoes(c)
  <2>1. /\ run[c].at = "light" /\ RunsToItsEnd(c) /\ KeepsGiven /\ KeepsCounters
        /\ IF policy = "light" THEN turns' = turns ELSE Released(c)
    BY <1>12, <1>11 DEF LightEnds
  <2>2. PICK inTime \in BOOLEAN :
          IF policy # "light" /\ Missed(c) /\ leftWorkspaceUnchanged(c) /\ inTime
          THEN Set0(c, [run[c] EXCEPT !.at = "rerun", !.over = TRUE]) /\ UNCHANGED outcome
          ELSE /\ Set0(c, Finished(c))
               /\ outcome' = [outcome EXCEPT ![c] = [runtime |-> "light", miss |-> policy # "light" /\ Missed(c),
                                                     retried |-> FALSE, settled |-> TRUE, late |-> ~inTime]]
    BY <1>12 DEF LightEnds
  <2>3. CASE policy # "light" /\ Missed(c) /\ leftWorkspaceUnchanged(c) /\ inTime
    <3>1. Set0(c, [run[c] EXCEPT !.at = "rerun", !.over = TRUE]) /\ outcome' = outcome BY <2>2, <2>3
    <3> QED BY <2>1, <2>3, <3>1, <1>1, RecordsAre
  <2>4. CASE ~(policy # "light" /\ Missed(c) /\ leftWorkspaceUnchanged(c) /\ inTime)
    <3> DEFINE m == policy # "light" /\ Missed(c)
    <3>1. /\ Set0(c, Finished(c))
          /\ outcome' = [outcome EXCEPT ![c] = [runtime |-> "light", miss |-> m,
                                                retried |-> FALSE, settled |-> TRUE, late |-> ~inTime]]
      BY <2>2, <2>4
    <3>2. m \in BOOLEAN /\ (~inTime) \in BOOLEAN BY Zenon
    <3> HIDE DEF m
    <3>3. Answers0(c, "light", m, FALSE, TRUE, ~inTime) BY <1>2, <3>1, <3>2
    <3>4. IsFinished(c, run[c].effects) BY <1>1, <3>1, RecordsAre
    <3> QED BY <2>1, <2>4, <3>3, <3>4 DEF m
  <2> QED BY <2>3, <2>4
<1>13. LightStopped(c) => LightStoppedDoes(c) BY <1>1, <1>3, <1>11, RecordsAre DEF LightStopped
<1>14. LingeringEnds(c) => LingeringEndsDoes(c) BY <1>1, RecordsAre DEF LingeringEnds
<1>15. LingeringReleases(c) => LingeringReleasesDoes(c)
  BY <1>1, <1>4, ReleaseIsOwn DEF LingeringReleases, lingeringSettled, MarksOK
<1>16. ASSUME ContainerRuns(c) PROVE ContainerRunsDoes(c)
  <2> DEFINE retried == run[c].at = "rerun"
  <2>1. /\ run[c].at \in {"container", "rerun"} /\ KeepsGiven /\ turns' = turns
        /\ boundary' = boundary /\ elsewhere' = elsewhere
    BY <1>16 DEF ContainerRuns
  <2>2. \/ /\ Set0(c, [Finished(c) EXCEPT !.effects = IF nature[c].writes THEN @ + 1 ELSE @])
           /\ revision' = IF nature[c].writes THEN revision + 1 ELSE revision
           /\ Answer0(c, "container", FALSE, retried, TRUE)
        \/ /\ Set0(c, Finished(c)) /\ UNCHANGED revision
           /\ Answer0(c, "container", FALSE, retried, FALSE)
    BY <1>16 DEF ContainerRuns
  <2>3. retried \in BOOLEAN OBVIOUS
  <2> HIDE DEF retried
  <2>4. \/ /\ IsFinished(c, IF nature[c].writes THEN run[c].effects + 1 ELSE run[c].effects)
           /\ revision' = IF nature[c].writes THEN revision + 1 ELSE revision
           /\ Answers0(c, "container", FALSE, retried, TRUE, FALSE)
        \/ /\ IsFinished(c, run[c].effects) /\ revision' = revision
           /\ Answers0(c, "container", FALSE, retried, FALSE, FALSE)
    BY <1>1, <1>3, <2>2, <2>3, RecordsAre
  <2> QED BY <2>1, <2>4 DEF retried
<1> QED BY <1>5, <1>6, <1>7, <1>8, <1>9, <1>10, <1>12, <1>13, <1>14, <1>15, <1>16

\* Only c moves; an attempt that outlived its deadline is never forgotten,
\* and what was written stays written.
OnlyMoves(c) ==
  /\ KeepsGiven /\ run' \in [Commands0 -> RunRecord] /\ outcome' \in [Commands0 -> OutcomeRecord]
  /\ \A d \in Commands0 \ {c} : run'[d] = run[d] /\ outcome'[d] = outcome[d]
  /\ run[c].at = "lingering" => run'[c].at = "lingering"
  /\ run[c].at = "lingering" /\ run[c].expired => run'[c].expired
  /\ run'[c].effects >= run[c].effects
  /\ revision' \in Nat /\ boundary' \in Nat /\ elsewhere' \in Nat
  /\ revision' >= revision /\ boundary' >= boundary /\ elsewhere' >= elsewhere

\* What a command that only moves has left behind, and what others wrote, stays.
LEMMA TracesLast ==
  ASSUME RoutingTypeOK, NEW c \in Commands0, OnlyMoves(c)
  PROVE  (\A d \in Commands0 : Lingered(d) => Lingered(d)') /\ (OthersWrote => OthersWrote')
<1>1. ASSUME NEW d \in Commands0, Lingered(d) PROVE Lingered(d)'
  <2>1. PICK e \in Commands0 \ {d} : run[e].at = "lingering" /\ run[e].expired BY <1>1 DEF Lingered
  <2>2. run'[e].at = "lingering" /\ run'[e].expired BY <2>1 DEF OnlyMoves
  <2> QED BY <2>2 DEF Lingered
<1>2. CASE elsewhere > 0
  <2>1. elsewhere' > 0 BY <1>2 DEF OnlyMoves, RoutingTypeOK
  <2> QED BY <2>1, <1>1 DEF OthersWrote
<1>3. ASSUME NEW e \in Commands0, run[e].effects > 0 PROVE OthersWrote'
  <2>1. run[e].effects \in Nat /\ run'[e].effects \in Nat BY DEF RoutingTypeOK, OnlyMoves, RunRecord
  <2>2. run'[e].effects > 0 BY <1>3, <2>1 DEF OnlyMoves
  <2> QED BY <2>2 DEF OthersWrote
<1> QED BY <1>1, <1>2, <1>3 DEF OthersWrote

\* The properties, command by command.
HiddenOK(c) ==
  policy = "auto" =>
    (outcome[c].runtime = "light" /\ outcome[c].settled /\ ~outcome[c].miss => nature[c].needs = "light")
BlameOK(c) == outcome[c].miss \/ outcome[c].retried => nature[c].needs # "light" \/ Lingered(c)
CauseOK(c) == outcome[c].miss => outcome[c].late \/ OthersWrote
AnswersOK(c) == HiddenOK(c) /\ BlameOK(c) /\ CauseOK(c)

\* The invariant, command by command.
LEMMA CommandByCommand ==
  /\ RoutingInv <=> /\ RoutingTypeOK /\ TurnsOK
                    /\ \A c \in Commands0 : WritesOK(c) /\ MarksOK(c) /\ AnswersOK(c)
  /\ RoutingInv' <=> /\ RoutingTypeOK' /\ TurnsOK'
                     /\ \A c \in Commands0 : WritesOK(c)' /\ MarksOK(c)' /\ AnswersOK(c)'
<1>1. MissIsNeverHidden <=> \A c \in Commands0 : HiddenOK(c) BY DEF MissIsNeverHidden, HiddenOK
<1>2. BlameIsItsOwn <=> \A c \in Commands0 : BlameOK(c) BY DEF BlameIsItsOwn, BlameOK, Lingered
<1>3. MissHasACause <=> \A c \in Commands0 : CauseOK(c) BY DEF MissHasACause, CauseOK, OthersWrote
<1>4. MissIsNeverHidden' <=> \A c \in Commands0 : HiddenOK(c)' BY DEF MissIsNeverHidden, HiddenOK
<1>5. BlameIsItsOwn' <=> \A c \in Commands0 : BlameOK(c)' BY DEF BlameIsItsOwn, BlameOK, Lingered
<1>6. MissHasACause' <=> \A c \in Commands0 : CauseOK(c)' BY DEF MissHasACause, CauseOK, OthersWrote
<1> QED BY <1>1, <1>2, <1>3, <1>4, <1>5, <1>6 DEF RoutingInv, AnswersOK

\* What the others have to show is kept: the counters move for a cause, and
\* while an attempt of the chain is under way no other of the chain moves them.
LEMMA OthersShow ==
  ASSUME RoutingInv, NEW c \in Commands0, OnlyMoves(c),
         revision' > revision => OthersWrote' \/ run[c].at = "mkdir",
         boundary' > boundary => Attempting(c)
  PROVE  \A d \in Commands0 \ {c} : WritesOK(d)' /\ MarksOK(d)' /\ AnswersOK(d)'
<1>1. SUFFICES ASSUME NEW d \in Commands0, d # c PROVE WritesOK(d)' /\ MarksOK(d)' /\ AnswersOK(d)'
  OBVIOUS
<1>2. RoutingTypeOK /\ TurnsOK /\ WritesOK(d) /\ MarksOK(d) /\ AnswersOK(d) BY CommandByCommand
<1>3. run'[d] = run[d] /\ outcome'[d] = outcome[d] /\ policy' = policy /\ nature' = nature
  BY <1>1 DEF OnlyMoves, KeepsGiven
<1>4. (Lingered(d) => Lingered(d)') /\ (OthersWrote => OthersWrote') BY <1>2, TracesLast
<1>5. WritesOK(d)' BY <1>2, <1>3 DEF WritesOK
<1>6. AnswersOK(d)' BY <1>2, <1>3, <1>4 DEF AnswersOK, HiddenOK, BlameOK, CauseOK
<1>7. /\ run[d].rev \in Nat /\ run[d].mark \in Nat /\ revision \in Nat /\ boundary \in Nat
      /\ revision' \in Nat /\ boundary' \in Nat /\ revision' >= revision /\ boundary' >= boundary
  BY <1>2 DEF RoutingTypeOK, RunRecord, OnlyMoves
<1>8. ASSUME run[d].at = "light", policy = "auto", run[c].at = "mkdir" PROVE FALSE
  BY <1>1, <1>2, <1>8, OneAttempt
<1>9. ASSUME run[d].at = "light", policy = "auto", Attempting(c) PROVE Lingered(d)
  <2>1. CASE run[c].at = "lingering" /\ run[c].expired BY <1>1, <2>1 DEF Lingered
  <2>2. CASE run[c].at = "light" \/ (run[c].at = "lingering" /\ ~run[c].over /\ ~run[c].expired)
    BY <1>1, <1>2, <1>9, <2>2, OneAttempt
  <2> QED BY <1>9, <2>1, <2>2 DEF Attempting
<1>10. ASSUME run[d].at = "light", policy = "auto", boundary' > run[d].mark
       PROVE  run[d].crossed \/ Lingered(d)'
  <2>1. CASE boundary > run[d].mark BY <1>2, <1>4, <1>10, <2>1 DEF MarksOK
  <2>2. CASE ~(boundary > run[d].mark)
    <3>1. boundary' > boundary BY <1>7, <1>10, <2>2
    <3> QED BY <3>1, <1>4, <1>9, <1>10
  <2> QED BY <2>1, <2>2
<1>11. ASSUME run[d].at = "light", policy = "auto", revision' > run[d].rev PROVE OthersWrote'
  <2>1. CASE revision > run[d].rev BY <1>2, <1>4, <1>11, <2>1 DEF MarksOK
  <2>2. CASE ~(revision > run[d].rev)
    <3>1. revision' > revision BY <1>7, <1>11, <2>2
    <3> QED BY <3>1, <1>8, <1>11
  <2> QED BY <2>1, <2>2
<1>12. ASSUME run[d].at \in {"light", "lingering"}, policy = "auto"
       PROVE  /\ run[d].rev <= revision' /\ run[d].mark <= boundary'
              /\ run[d].wrote => revision' > run[d].rev
              /\ run[d].crossed => boundary' > run[d].mark
  <2>1. /\ run[d].rev <= revision /\ run[d].mark <= boundary
        /\ run[d].wrote => revision > run[d].rev
        /\ run[d].crossed => boundary > run[d].mark
    BY <1>2, <1>12 DEF MarksOK
  <2> QED BY <2>1, <1>7
<1>13. MarksOK(d)' BY <1>2, <1>3, <1>4, <1>10, <1>11, <1>12 DEF MarksOK
<1> QED BY <1>5, <1>6, <1>13

\* The links of the others are kept, whether c keeps its link, gives it up or
\* chains a new one.
Chained(c) == run[c].at = "new" /\ turns' = Append(turns, [of |-> c, done |-> FALSE])
LinkMoves(c) == turns' = turns \/ Released(c) \/ Chained(c)

\* A command that moves on, with its link where its new place needs it, keeps the line.
LEMMA LinksKept ==
  ASSUME RoutingInv, NEW c \in Commands0, OnlyMoves(c), LinkMoves(c), run'[c].at # "new", LinkOK(c)'
  PROVE  TurnsOK' /\ turns' \in Seq(LinkRecord)
<1>1. RoutingTypeOK /\ TurnsOK /\ turns \in Seq(LinkRecord)
  BY CommandByCommand DEF RoutingTypeOK, LinkRecord
<1>2. \A d \in Commands0 \ {c} : run'[d] = run[d] /\ policy' = policy BY DEF OnlyMoves, KeepsGiven
<1>3. DOMAIN turns = 1..Len(turns) /\ Len(turns) \in Nat BY <1>1
<1>4. \A i \in DOMAIN turns : turns[i].of \in Commands0
  <2>1. \A i \in DOMAIN turns : turns[i] \in LinkRecord BY <1>1
  <2> QED BY <2>1 DEF LinkRecord
<1>5. /\ turns' \in Seq(LinkRecord)
      /\ \A i \in DOMAIN turns : i \in DOMAIN turns' /\ turns'[i].of = turns[i].of
      /\ \A i \in DOMAIN turns : turns[i].of # c => turns'[i] = turns[i]
      /\ \A i \in DOMAIN turns : turns[i].done => turns'[i].done
      /\ \A i \in DOMAIN turns' \ DOMAIN turns : turns'[i].of = c
      /\ \A i, j \in DOMAIN turns' : turns'[i].of = turns'[j].of => i = j
  <2>1. CASE turns' = turns BY <2>1, <1>1 DEF TurnsOK
  <2>2. CASE Released(c) BY <2>2, <1>1 DEF TurnsOK, Released
  <2>3. CASE Chained(c)
    <3> DEFINE x == [of |-> c, done |-> FALSE]
    <3>1. x \in LinkRecord /\ x.of = c BY DEF LinkRecord
    <3>2. turns' = Append(turns, x) BY <2>3 DEF Chained
    <3> HIDE DEF x
    <3>3. /\ turns' \in Seq(LinkRecord) /\ DOMAIN turns' = 1..(Len(turns) + 1)
          /\ \A i \in DOMAIN turns : turns'[i] = turns[i]
          /\ turns'[Len(turns) + 1] = x
      BY <1>1, <1>3, <3>1, <3>2
    <3>4. \A i \in DOMAIN turns : turns[i].of # c BY <1>1, <2>3 DEF TurnsOK, Chained
    <3>5. \A i \in DOMAIN turns' : i \in DOMAIN turns \/ i = Len(turns) + 1 BY <1>3, <3>3
    <3>6. \A i \in DOMAIN turns : i \in DOMAIN turns' BY <1>3, <3>3
    <3> QED BY <3>1, <3>3, <3>4, <3>5, <3>6, <1>1 DEF TurnsOK
  <2> QED BY <2>1, <2>2, <2>3 DEF LinkMoves
<1>6. \A i \in DOMAIN turns' : turns'[i].of # c => i \in DOMAIN turns /\ turns'[i] = turns[i]
  BY <1>5
<1>7. \A i \in DOMAIN turns' : run'[turns'[i].of].at # "new" BY <1>1, <1>2, <1>4, <1>6 DEF TurnsOK
<1>8. ASSUME NEW d \in Commands0, d # c PROVE LinkOK(d)'
  <2>1. LinkOK(d) /\ run'[d] = run[d] /\ policy' = policy BY <1>1, <1>2, <1>8 DEF TurnsOK
  <2>2. HasLink(d) => HasLink(d)' BY <1>5 DEF HasLink
  <2>3. ASSUME NEW i \in DOMAIN turns', turns'[i].of = d
        PROVE  /\ i \in DOMAIN turns /\ turns[i].of = d /\ turns'[i] = turns[i]
               /\ (\A j \in 1..(i - 1) : turns[j].done) => (\A j \in 1..(i - 1) : turns'[j].done)
    <3>1. i \in DOMAIN turns /\ turns'[i] = turns[i] BY <1>6, <1>8, <2>3
    <3>2. \A j \in 1..(i - 1) : j \in DOMAIN turns BY <1>3, <3>1
    <3> QED BY <3>1, <3>2, <1>5, <2>3
  <2> QED BY <2>1, <2>2, <2>3 DEF LinkOK
<1> QED BY <1>5, <1>7, <1>8 DEF TurnsOK

\* The invariant holds before any command is given.
LEMMA RoutingInvInit == RoutingInit => RoutingInv
<1> SUFFICES ASSUME RoutingInit PROVE RoutingInv OBVIOUS
<1>1. NotRun \in RunRecord /\ NoOutcome \in OutcomeRecord
  BY DEF NotRun, RunRecord, NoOutcome, OutcomeRecord
<1>2. RoutingTypeOK BY <1>1, RoutingAssumption DEF RoutingInit, RoutingTypeOK
<1>3. \A c \in Commands0 : run[c] = NotRun /\ outcome[c] = NoOutcome BY DEF RoutingInit
<1>4. turns = <<>> BY DEF RoutingInit
<1>5. TurnsOK BY <1>3, <1>4 DEF TurnsOK, LinkOK, NotRun
<1>6. \A c \in Commands0 : WritesOK(c) /\ MarksOK(c) BY <1>3 DEF WritesOK, MarksOK, NotRun
<1>7. MissIsNeverHidden /\ BlameIsItsOwn /\ MissHasACause
  BY <1>3 DEF MissIsNeverHidden, BlameIsItsOwn, MissHasACause, NoOutcome
<1> QED BY <1>2, <1>5, <1>6, <1>7 DEF RoutingInv

\* One command moves; its own part is kept, and the others' with it.
LEMMA OneCommandMoves ==
  ASSUME RoutingInv, NEW c \in Commands0, OnlyMoves(c), LinkMoves(c),
         revision' > revision => OthersWrote' \/ run[c].at = "mkdir",
         boundary' > boundary => Attempting(c),
         run'[c].at # "new", LinkOK(c)', WritesOK(c)', MarksOK(c)', AnswersOK(c)'
  PROVE  RoutingInv'
<1>1. TurnsOK' /\ turns' \in Seq([of : Commands0, done : BOOLEAN]) BY LinksKept DEF LinkRecord
<1>2. RoutingTypeOK' BY <1>1, CommandByCommand DEF RoutingTypeOK, OnlyMoves, KeepsGiven
<1>3. \A d \in Commands0 \ {c} : WritesOK(d)' /\ MarksOK(d)' /\ AnswersOK(d)' BY OthersShow
<1> QED BY <1>1, <1>2, <1>3, CommandByCommand

\* No step breaks the invariant of routing.
LEMMA RoutingInvStep == RoutingInv /\ [RoutingNext]_routingVars => RoutingInv'
<1> SUFFICES ASSUME RoutingInv, [RoutingNext]_routingVars PROVE RoutingInv' OBVIOUS
<1>1. /\ RoutingTypeOK /\ TurnsOK
      /\ \A c \in Commands0 : WritesOK(c) /\ MarksOK(c) /\ AnswersOK(c) /\ LinkOK(c)
  BY CommandByCommand DEF TurnsOK
<1>2. ASSUME NEW c \in Commands0
      PROVE  /\ run[c] \in RunRecord /\ run[c].effects \in Nat /\ run[c].rev \in Nat /\ run[c].mark \in Nat
             /\ revision \in Nat /\ boundary \in Nat /\ elsewhere \in Nat /\ outcome[c] \in OutcomeRecord
             /\ run \in [Commands0 -> RunRecord] /\ outcome \in [Commands0 -> OutcomeRecord]
  BY <1>1 DEF RoutingTypeOK, RunRecord
<1>3. CASE UNCHANGED routingVars
  <2> USE <1>3 DEF routingVars
  <2>1. RoutingTypeOK' BY <1>1 DEF RoutingTypeOK
  <2>2. TurnsOK' BY <1>1 DEF TurnsOK, LinkOK, HasLink
  <2>3. \A c \in Commands0 : WritesOK(c)' /\ MarksOK(c)' /\ AnswersOK(c)'
    BY <1>1 DEF WritesOK, MarksOK, AnswersOK, HiddenOK, BlameOK, CauseOK, Lingered, OthersWrote
  <2> QED BY <2>1, <2>2, <2>3, CommandByCommand
<1>4. CASE WritesElsewhere
  <2>1. /\ KeepsGiven /\ run' = run /\ outcome' = outcome /\ turns' = turns
        /\ revision' = revision + 1 /\ boundary' = boundary /\ elsewhere' = elsewhere + 1
    BY <1>4 DEF WritesElsewhere, given, KeepsGiven
  <2>2. RoutingTypeOK' BY <1>1, <2>1 DEF RoutingTypeOK, KeepsGiven
  <2>3. TurnsOK' BY <1>1, <2>1 DEF TurnsOK, LinkOK, HasLink, KeepsGiven
  <2>4. OthersWrote' BY <1>1, <2>1 DEF OthersWrote, RoutingTypeOK
  <2>5. \A c \in Commands0 : (Lingered(c) <=> Lingered(c)') BY <2>1 DEF Lingered
  <2>6. ASSUME NEW c \in Commands0 PROVE WritesOK(c)' /\ MarksOK(c)' /\ AnswersOK(c)'
    <3>1. WritesOK(c)' BY <1>1, <2>1 DEF WritesOK, KeepsGiven
    <3>2. MarksOK(c)' BY <1>1, <1>2, <2>1, <2>4, <2>5 DEF MarksOK, KeepsGiven
    <3>3. AnswersOK(c)'
      BY <1>1, <2>1, <2>4, <2>5 DEF AnswersOK, HiddenOK, BlameOK, CauseOK, KeepsGiven
    <3> QED BY <3>1, <3>2, <3>3
  <2> QED BY <2>2, <2>3, <2>6, CommandByCommand
<1> USE DEF Becomes, KeepsBut, MovesTo, IsFinished, Answers0, KeepsCounters
<1>5. ASSUME NEW c \in Commands0, Submit(c) PROVE RoutingInv'
  <2>1. SubmitDoes(c) BY <1>5, RoutingMoves
  <2> USE DEF SubmitDoes
  <2>2. OnlyMoves(c) BY <1>2, <2>1 DEF OnlyMoves
  <2>3. (Lingered(c) => Lingered(c)') /\ (OthersWrote => OthersWrote') BY <1>1, <2>2, TracesLast
  <2>4. LinkMoves(c) /\ run'[c].at # "new" BY <1>1, <2>1 DEF LinkMoves, Chained, MarksOK
  <2>5. LinkOK(c)'
    <3>1. CASE run'[c].at = "waiting" /\ turns' = Append(turns, [of |-> c, done |-> FALSE])
      <4>1. turns \in Seq([of : Commands0, done : BOOLEAN]) /\ [of |-> c, done |-> FALSE] \in [of : Commands0, done : BOOLEAN]
        BY <1>1 DEF RoutingTypeOK
      <4>2. /\ Len(turns) + 1 \in DOMAIN turns' /\ turns'[Len(turns) + 1] = [of |-> c, done |-> FALSE]
            /\ \A i \in DOMAIN turns' : (i \in DOMAIN turns /\ turns'[i] = turns[i]) \/ i = Len(turns) + 1
        BY <3>1, <4>1
      <4>3. \A i \in DOMAIN turns : turns[i].of # c BY <1>1, <2>1 DEF TurnsOK
      <4> QED BY <3>1, <4>2, <4>3 DEF LinkOK, HasLink
    <3>2. CASE policy' # "auto" \/ run'[c].at = "container"
      BY <1>1, <2>1, <3>2 DEF LinkOK, HasLink, TurnsOK
    <3>3. policy' = policy /\ (policy = "light" => policy # "auto") BY <2>1 DEF KeepsGiven
    <3> QED BY <2>1, <3>1, <3>2, <3>3
  <2>6. WritesOK(c)' BY <1>1, <1>2, <2>1 DEF WritesOK, MarksOK, KeepsGiven
  <2>7. MarksOK(c)' BY <1>1, <1>2, <2>1, <2>3 DEF WritesOK, MarksOK, KeepsGiven
  <2>8. AnswersOK(c)'
    BY <1>1, <1>2, <2>1, <2>3 DEF AnswersOK, HiddenOK, BlameOK, CauseOK, KeepsGiven
  <2>9. revision' > revision => OthersWrote' \/ run[c].at = "mkdir" BY <1>2, <2>1 DEF OthersWrote
  <2>10. boundary' > boundary => Attempting(c) BY <1>2, <2>1
  <2> QED BY <2>2, <2>4, <2>5, <2>6, <2>7, <2>8, <2>9, <2>10, OneCommandMoves
<1>6. ASSUME NEW c \in Commands0, TurnGivenUp(c) PROVE RoutingInv'
  <2>1. TurnGivenUpDoes(c) BY <1>6, RoutingMoves
  <2> USE DEF TurnGivenUpDoes
  <2>2. OnlyMoves(c) BY <1>2, <2>1 DEF OnlyMoves
  <2>3. (Lingered(c) => Lingered(c)') /\ (OthersWrote => OthersWrote') BY <1>1, <2>2, TracesLast
  <2>4. LinkMoves(c) /\ run'[c].at # "new" BY <1>1, <2>1 DEF LinkMoves, Chained, MarksOK
  <2>5. LinkOK(c)' BY <1>1, <2>1 DEF LinkOK, HasLink, Released, MarksOK, KeepsGiven
  <2>6. WritesOK(c)' BY <1>1, <1>2, <2>1 DEF WritesOK, MarksOK, KeepsGiven
  <2>7. MarksOK(c)' BY <1>1, <1>2, <2>1, <2>3 DEF WritesOK, MarksOK, KeepsGiven
  <2>8. AnswersOK(c)'
    BY <1>1, <1>2, <2>1, <2>3 DEF AnswersOK, HiddenOK, BlameOK, CauseOK, KeepsGiven, MarksOK
  <2>9. revision' > revision => OthersWrote' \/ run[c].at = "mkdir" BY <1>2, <2>1 DEF OthersWrote
  <2>10. boundary' > boundary => Attempting(c) BY <1>2, <2>1
  <2> QED BY <2>2, <2>4, <2>5, <2>6, <2>7, <2>8, <2>9, <2>10, OneCommandMoves
<1>7. ASSUME NEW c \in Commands0, TurnComes(c) PROVE RoutingInv'
  <2>1. TurnComesDoes(c) BY <1>7, RoutingMoves
  <2> USE DEF TurnComesDoes
  <2>2. OnlyMoves(c) BY <1>2, <2>1 DEF OnlyMoves
  <2>3. (Lingered(c) => Lingered(c)') /\ (OthersWrote => OthersWrote') BY <1>1, <2>2, TracesLast
  <2>4. LinkMoves(c) /\ run'[c].at # "new" BY <1>1, <2>1 DEF LinkMoves, Chained, MarksOK
  <2>5. LinkOK(c)' BY <1>1, <2>1 DEF LinkOK, HasLink, Released, MarksOK, KeepsGiven
  <2>6. WritesOK(c)' BY <1>1, <1>2, <2>1 DEF WritesOK, MarksOK, KeepsGiven
  <2>7. MarksOK(c)' BY <1>1, <1>2, <2>1, <2>3 DEF WritesOK, MarksOK, KeepsGiven
  <2>8. AnswersOK(c)'
    BY <1>1, <1>2, <2>1, <2>3 DEF AnswersOK, HiddenOK, BlameOK, CauseOK, KeepsGiven
  <2>9. revision' > revision => OthersWrote' \/ run[c].at = "mkdir" BY <1>2, <2>1 DEF OthersWrote
  <2>10. boundary' > boundary => Attempting(c) BY <1>2, <2>1
  <2> QED BY <2>2, <2>4, <2>5, <2>6, <2>7, <2>8, <2>9, <2>10, OneCommandMoves
<1>8. ASSUME NEW c \in Commands0, StartsLight(c) PROVE RoutingInv'
  <2>1. StartsLightDoes(c) BY <1>8, RoutingMoves
  <2> USE DEF StartsLightDoes
  <2>2. OnlyMoves(c) BY <1>2, <2>1 DEF OnlyMoves
  <2>3. (Lingered(c) => Lingered(c)') /\ (OthersWrote => OthersWrote') BY <1>1, <2>2, TracesLast
  <2>4. LinkMoves(c) /\ run'[c].at # "new" BY <1>1, <2>1 DEF LinkMoves, Chained, MarksOK
  <2>5. LinkOK(c)' BY <1>1, <2>1 DEF LinkOK, HasLink, Released, MarksOK, KeepsGiven
  <2>6. WritesOK(c)' BY <1>1, <1>2, <2>1 DEF WritesOK, MarksOK, KeepsGiven
  <2>7. MarksOK(c)' BY <1>1, <1>2, <2>1, <2>3 DEF WritesOK, MarksOK, KeepsGiven
  <2>8. AnswersOK(c)'
    BY <1>1, <1>2, <2>1, <2>3 DEF AnswersOK, HiddenOK, BlameOK, CauseOK, KeepsGiven
  <2>9. revision' > revision => OthersWrote' \/ run[c].at = "mkdir" BY <1>2, <2>1 DEF OthersWrote
  <2>10. boundary' > boundary => Attempting(c) BY <1>2, <2>1
  <2> QED BY <2>2, <2>4, <2>5, <2>6, <2>7, <2>8, <2>9, <2>10, OneCommandMoves
<1>9. ASSUME NEW c \in Commands0, LightWrites(c) PROVE RoutingInv'
  <2>1. LightWritesDoes(c) BY <1>9, RoutingMoves
  <2> USE DEF LightWritesDoes, Attempting
  <2>2. OnlyMoves(c) BY <1>2, <2>1 DEF OnlyMoves
  <2>3. (Lingered(c) => Lingered(c)') /\ (OthersWrote => OthersWrote') BY <1>1, <2>2, TracesLast
  <2>4. LinkMoves(c) /\ run'[c].at # "new" BY <1>1, <2>1 DEF LinkMoves, Chained, MarksOK
  <2>5. LinkOK(c)' BY <1>1, <2>1 DEF LinkOK, HasLink, Released, MarksOK, KeepsGiven
  <2>6. WritesOK(c)' BY <1>1, <1>2, <2>1 DEF WritesOK, MarksOK, KeepsGiven
  <2>7. MarksOK(c)'
    <3>1. WritesOK(c) /\ MarksOK(c) BY <1>1
    <3>2. OthersWrote' BY <1>2, <2>1 DEF OthersWrote
    <3> QED BY <3>1, <3>2, <1>2, <2>1, <2>3 DEF MarksOK, KeepsGiven
  <2>8. AnswersOK(c)'
    BY <1>1, <1>2, <2>1, <2>3 DEF AnswersOK, HiddenOK, BlameOK, CauseOK, KeepsGiven
  <2>9. revision' > revision => OthersWrote' \/ run[c].at = "mkdir" BY <1>2, <2>1 DEF OthersWrote
  <2>10. boundary' > boundary => Attempting(c) BY <1>2, <2>1
  <2> QED BY <2>2, <2>4, <2>5, <2>6, <2>7, <2>8, <2>9, <2>10, OneCommandMoves
<1>10. ASSUME NEW c \in Commands0, Crosses(c) PROVE RoutingInv'
  <2>1. CrossesDoes(c) BY <1>10, RoutingMoves
  <2> USE DEF CrossesDoes, Attempting, crossesBoundary
  <2>2. OnlyMoves(c) BY <1>2, <2>1 DEF OnlyMoves
  <2>3. (Lingered(c) => Lingered(c)') /\ (OthersWrote => OthersWrote') BY <1>1, <2>2, TracesLast
  <2>4. LinkMoves(c) /\ run'[c].at # "new" BY <1>1, <2>1 DEF LinkMoves, Chained, MarksOK
  <2>5. LinkOK(c)' BY <1>1, <2>1 DEF LinkOK, HasLink, Released, MarksOK, KeepsGiven
  <2>6. WritesOK(c)' BY <1>1, <1>2, <2>1 DEF WritesOK, MarksOK, KeepsGiven
  <2>7. MarksOK(c)' BY <1>1, <1>2, <2>1, <2>3 DEF WritesOK, MarksOK, KeepsGiven
  <2>8. AnswersOK(c)'
    BY <1>1, <1>2, <2>1, <2>3 DEF AnswersOK, HiddenOK, BlameOK, CauseOK, KeepsGiven
  <2>9. revision' > revision => OthersWrote' \/ run[c].at = "mkdir" BY <1>2, <2>1 DEF OthersWrote
  <2>10. boundary' > boundary => Attempting(c) BY <1>2, <2>1
  <2> QED BY <2>2, <2>4, <2>5, <2>6, <2>7, <2>8, <2>9, <2>10, OneCommandMoves
<1>11. ASSUME NEW c \in Commands0, LightEnds(c) PROVE RoutingInv'
  <2>1. LightEndsDoes(c) BY <1>11, RoutingMoves
  <2> USE DEF LightEndsDoes, RunsToItsEnd, Missed, lightShellCouldNotRun, crossedSince, leftWorkspaceUnchanged
  <2>2. OnlyMoves(c) BY <1>2, <2>1 DEF OnlyMoves
  <2>3. (Lingered(c) => Lingered(c)') /\ (OthersWrote => OthersWrote') BY <1>1, <2>2, TracesLast
  <2>4. LinkMoves(c) /\ run'[c].at # "new" BY <1>1, <2>1 DEF LinkMoves, Chained, MarksOK
  <2>5. LinkOK(c)' BY <1>1, <2>1 DEF LinkOK, HasLink, Released, MarksOK, KeepsGiven
  <2>6. WritesOK(c)'
    <3>1. WritesOK(c) /\ MarksOK(c) /\ run[c].at = "light" /\ policy \in {"auto", "light"}
      BY <1>1, <2>1 DEF MarksOK, RoutingTypeOK
    <3>2. CASE IsFinished(c, run[c].effects) BY <3>1, <3>2, <1>2 DEF WritesOK
    <3>3. CASE /\ policy # "light" /\ Missed(c) /\ leftWorkspaceUnchanged(c)
               /\ KeepsBut(c, "rerun", run[c].wrote, run[c].crossed, TRUE, run[c].expired, run[c].effects)
      <4>1. revision = run[c].rev /\ policy = "auto" BY <3>1, <3>3
      <4>2. ~run[c].wrote BY <3>1, <4>1, <1>2 DEF MarksOK
      <4> QED BY <3>1, <3>3, <4>2, <1>2 DEF WritesOK
    <3> QED BY <2>1, <3>2, <3>3
  <2>7. MarksOK(c)'
    <3>1. CASE IsFinished(c, run[c].effects) BY <3>1 DEF MarksOK
    <3>2. CASE /\ policy # "light" /\ Missed(c)
               /\ KeepsBut(c, "rerun", run[c].wrote, run[c].crossed, TRUE, run[c].expired, run[c].effects)
      <4>1. WritesOK(c) /\ MarksOK(c) /\ policy = "auto"
        BY <1>1, <2>1, <3>2 DEF MarksOK, RoutingTypeOK
      <4>2. nature[c].needs # "light" \/ Lingered(c) BY <2>1, <3>2, <4>1 DEF WritesOK, MarksOK
      <4> QED BY <2>1, <2>3, <3>2, <4>1, <4>2 DEF MarksOK, KeepsGiven
    <3> QED BY <2>1, <3>1, <3>2
  <2>8. AnswersOK(c)'
    <3>1. CASE outcome' = outcome
      BY <1>1, <2>1, <2>3, <3>1 DEF AnswersOK, HiddenOK, BlameOK, CauseOK, KeepsGiven
    <3>2. ASSUME NEW inTime \in BOOLEAN,
                 ~(policy # "light" /\ Missed(c) /\ leftWorkspaceUnchanged(c) /\ inTime),
                 Answers0(c, "light", policy # "light" /\ Missed(c), FALSE, TRUE, ~inTime)
          PROVE  AnswersOK(c)'
      <4>1. /\ WritesOK(c) /\ MarksOK(c) /\ run[c].at = "light" /\ policy \in {"auto", "light"}
            /\ policy' = policy /\ nature' = nature /\ nature[c].needs \in {"light", "loud", "silent"}
        BY <1>1, <2>1 DEF MarksOK, RoutingTypeOK, KeepsGiven
      <4>2. /\ outcome'[c].miss <=> policy = "auto" /\ Missed(c)
            /\ ~outcome'[c].retried /\ (outcome'[c].late <=> ~inTime)
        BY <3>2, <4>1
      <4>3. HiddenOK(c)'
        <5>1. ASSUME policy = "auto", ~Missed(c) PROVE nature[c].needs = "light"
          <6>1. nature[c].needs # "loud" /\ ~(boundary > run[c].mark) BY <5>1
          <6>2. nature[c].needs = "silent" => run[c].crossed BY <2>1
          <6> QED BY <4>1, <5>1, <6>1, <6>2 DEF MarksOK
        <5> QED BY <4>1, <4>2, <5>1 DEF HiddenOK
      <4>4. BlameOK(c)'
        <5>1. policy = "auto" /\ Missed(c) => nature[c].needs # "light" \/ Lingered(c)
          BY <4>1 DEF MarksOK, WritesOK
        <5> QED BY <4>1, <4>2, <5>1, <2>3 DEF BlameOK
      <4>5. CauseOK(c)'
        <5>1. policy = "auto" /\ Missed(c) /\ inTime => OthersWrote
          <6>1. policy = "auto" /\ Missed(c) /\ inTime => revision # run[c].rev BY <3>2
          <6> QED BY <6>1, <4>1, <1>2 DEF MarksOK
        <5> QED BY <4>2, <5>1, <2>3 DEF CauseOK
      <4> QED BY <4>3, <4>4, <4>5 DEF AnswersOK
    <3> QED BY <2>1, <3>1, <3>2
  <2>9. revision' > revision => OthersWrote' \/ run[c].at = "mkdir" BY <1>2, <2>1 DEF OthersWrote
  <2>10. boundary' > boundary => Attempting(c) BY <1>2, <2>1
  <2> QED BY <2>2, <2>4, <2>5, <2>6, <2>7, <2>8, <2>9, <2>10, OneCommandMoves
<1>12. ASSUME NEW c \in Commands0, LightStopped(c) PROVE RoutingInv'
  <2>1. LightStoppedDoes(c) BY <1>12, RoutingMoves
  <2> USE DEF LightStoppedDoes
  <2>2. OnlyMoves(c) BY <1>2, <2>1 DEF OnlyMoves
  <2>3. (Lingered(c) => Lingered(c)') /\ (OthersWrote => OthersWrote') BY <1>1, <2>2, TracesLast
  <2>4. LinkMoves(c) /\ run'[c].at # "new" BY <1>1, <2>1 DEF LinkMoves, Chained, MarksOK
  <2>5. LinkOK(c)' BY <1>1, <2>1 DEF LinkOK, HasLink, Released, MarksOK, KeepsGiven
  <2>6. WritesOK(c)' BY <1>1, <1>2, <2>1 DEF WritesOK, MarksOK, KeepsGiven
  <2>7. MarksOK(c)' BY <1>1, <1>2, <2>1, <2>3 DEF WritesOK, MarksOK, KeepsGiven
  <2>8. AnswersOK(c)'
    BY <1>1, <1>2, <2>1, <2>3 DEF AnswersOK, HiddenOK, BlameOK, CauseOK, KeepsGiven, MarksOK
  <2>9. revision' > revision => OthersWrote' \/ run[c].at = "mkdir" BY <1>2, <2>1 DEF OthersWrote
  <2>10. boundary' > boundary => Attempting(c) BY <1>2, <2>1
  <2> QED BY <2>2, <2>4, <2>5, <2>6, <2>7, <2>8, <2>9, <2>10, OneCommandMoves
<1>13. ASSUME NEW c \in Commands0, LingeringEnds(c) PROVE RoutingInv'
  <2>1. LingeringEndsDoes(c) BY <1>13, RoutingMoves
  <2> USE DEF LingeringEndsDoes
  <2>2. OnlyMoves(c) BY <1>2, <2>1 DEF OnlyMoves
  <2>3. (Lingered(c) => Lingered(c)') /\ (OthersWrote => OthersWrote') BY <1>1, <2>2, TracesLast
  <2>4. LinkMoves(c) /\ run'[c].at # "new" BY <1>1, <2>1 DEF LinkMoves, Chained, MarksOK
  <2>5. LinkOK(c)' BY <1>1, <2>1 DEF LinkOK, HasLink, Released, MarksOK, KeepsGiven
  <2>6. WritesOK(c)' BY <1>1, <1>2, <2>1 DEF WritesOK, MarksOK, KeepsGiven
  <2>7. MarksOK(c)' BY <1>1, <1>2, <2>1, <2>3 DEF WritesOK, MarksOK, KeepsGiven
  <2>8. AnswersOK(c)'
    BY <1>1, <1>2, <2>1, <2>3 DEF AnswersOK, HiddenOK, BlameOK, CauseOK, KeepsGiven
  <2>9. revision' > revision => OthersWrote' \/ run[c].at = "mkdir" BY <1>2, <2>1 DEF OthersWrote
  <2>10. boundary' > boundary => Attempting(c) BY <1>2, <2>1
  <2> QED BY <2>2, <2>4, <2>5, <2>6, <2>7, <2>8, <2>9, <2>10, OneCommandMoves
<1>14. ASSUME NEW c \in Commands0, LingeringReleases(c) PROVE RoutingInv'
  <2>1. LingeringReleasesDoes(c) BY <1>14, RoutingMoves
  <2> USE DEF LingeringReleasesDoes, lingeringSettled
  <2>2. OnlyMoves(c) BY <1>2, <2>1 DEF OnlyMoves
  <2>3. (Lingered(c) => Lingered(c)') /\ (OthersWrote => OthersWrote') BY <1>1, <2>2, TracesLast
  <2>4. LinkMoves(c) /\ run'[c].at # "new" BY <1>1, <2>1 DEF LinkMoves, Chained, MarksOK
  <2>5. LinkOK(c)' BY <1>1, <2>1, SMTT(30) DEF LinkOK, HasLink, Released, MarksOK, KeepsGiven
  <2>6. WritesOK(c)' BY <1>1, <1>2, <2>1 DEF WritesOK, MarksOK, KeepsGiven
  <2>7. MarksOK(c)' BY <1>1, <1>2, <2>1, <2>3 DEF WritesOK, MarksOK, KeepsGiven
  <2>8. AnswersOK(c)'
    BY <1>1, <1>2, <2>1, <2>3 DEF AnswersOK, HiddenOK, BlameOK, CauseOK, KeepsGiven
  <2>9. revision' > revision => OthersWrote' \/ run[c].at = "mkdir" BY <1>2, <2>1 DEF OthersWrote
  <2>10. boundary' > boundary => Attempting(c) BY <1>2, <2>1
  <2> QED BY <2>2, <2>4, <2>5, <2>6, <2>7, <2>8, <2>9, <2>10, OneCommandMoves
<1>15. ASSUME NEW c \in Commands0, ContainerRuns(c) PROVE RoutingInv'
  <2>1. ContainerRunsDoes(c) BY <1>15, RoutingMoves
  <2> USE DEF ContainerRunsDoes
  <2>2. OnlyMoves(c) BY <1>2, <2>1 DEF OnlyMoves
  <2>3. (Lingered(c) => Lingered(c)') /\ (OthersWrote => OthersWrote') BY <1>1, <2>2, TracesLast
  <2>4. LinkMoves(c) /\ run'[c].at # "new" BY <1>1, <2>1 DEF LinkMoves, Chained, MarksOK
  <2>5. LinkOK(c)' BY <1>1, <2>1 DEF LinkOK, HasLink, Released, MarksOK, KeepsGiven
  <2>6. WritesOK(c)'
    <3>1. run[c].effects = 0 BY <1>1, <2>1 DEF WritesOK
    <3>2. run'[c].at = "done" /\ run'[c].effects \in {0, 1} BY <2>1, <3>1
    <3> QED BY <3>2 DEF WritesOK
  <2>7. MarksOK(c)'
    <3>1. run'[c].at = "done" BY <2>1
    <3> QED BY <3>1 DEF MarksOK
  <2>8. AnswersOK(c)'
    <3>1. /\ outcome'[c].runtime = "container" /\ outcome'[c].miss = FALSE
          /\ outcome'[c].retried = (run[c].at = "rerun") /\ nature' = nature
      BY <2>1 DEF KeepsGiven
    <3>2. run[c].at = "rerun" => nature[c].needs # "light" \/ Lingered(c)' BY <1>1, <2>3 DEF MarksOK
    <3> QED BY <3>1, <3>2 DEF AnswersOK, HiddenOK, BlameOK, CauseOK
  <2>9. revision' > revision => OthersWrote' \/ run[c].at = "mkdir" BY <1>2, <2>1 DEF OthersWrote
  <2>10. boundary' > boundary => Attempting(c) BY <1>2, <2>1
  <2> QED BY <2>2, <2>4, <2>5, <2>6, <2>7, <2>8, <2>9, <2>10, OneCommandMoves
<1> QED BY <1>3, <1>4, <1>5, <1>6, <1>7, <1>8, <1>9, <1>10, <1>11, <1>12, <1>13, <1>14, <1>15 DEF RoutingNext

\* The routing invariant: one attempt of the chain at a time, marks that
\* tell what it did itself, effects counted once (instance.ts
\* runShellCommand, light-shell-fallback.ts).
THEOREM RoutingInvariant == RoutingSpec => []RoutingInv
<1> QED BY RoutingInvInit, RoutingInvStep, PTL DEF RoutingSpec

\* What a command did in the light shell is never done again in the
\* container, a miss is rerun or reported, blamed on the command that
\* caused it, and left to the agent only for a cause, whatever the number
\* of commands and of writes elsewhere (light-shell-fallback.ts).
THEOREM RoutingCorrect == RoutingSpec => []RoutingIsFaithful
<1>1. RoutingInv => RoutingIsFaithful BY DEF RoutingInv, RoutingIsFaithful, EffectsOnce, WritesOK
<1> QED BY <1>1, RoutingInvariant, PTL

----------------------------------------
(* The MCP servers: a name has tools of the address it is configured with, *)
(* unless a restart came between the two halves of a save; the flows that  *)
(* were started and not come back to have not sent their code.             *)

Server == [url : Urls \cup {NoUrl}, auth : authTypes, policy : policyModes, endpoints : BOOLEAN]
Flow == [id : Nat, name : Names, url : Urls]

ServersTyped ==
  /\ configs \in [Names -> Server] /\ cache \subseteq [Names -> Server]
  /\ catalog \in [Names -> Urls \cup {NoUrl}] /\ registered \in [Names -> Urls \cup {NoUrl}]
  /\ probing \subseteq [name : Names, url : Urls \cup {NoUrl}]
  /\ flowsOpen \subseteq Flow /\ flows \in 0..MaxFlows
  /\ exchanged \in [1..MaxFlows -> Nat]

FlowsOK ==
  /\ \A i \in 1..MaxFlows : i > flows => exchanged[i] = 0
  /\ \A f \in flowsOpen : f.id \in 1..flows /\ exchanged[f.id] = 0
  /\ \A f, g \in flowsOpen : f = g

ServersInv == ServersTyped /\ FlowsOK /\ ToolsAreTheServers /\ CodeSentOnce

\* What a save or a flow writes into a record keeps its address and policy.
LEMMA ServerRecords ==
  /\ NoServer \in Server /\ NoServer.url = NoUrl
  /\ \A n \in Names : Settings[n] \subseteq Server
  /\ \A r \in Server : LET x == [r EXCEPT !.endpoints = FALSE]
                       IN  x \in Server /\ x.url = r.url /\ x.policy = r.policy
  /\ \A r \in Server : LET x == [r EXCEPT !.auth = "oauth", !.endpoints = TRUE]
                       IN  x \in Server /\ x.url = r.url /\ x.policy = r.policy
<1>1. NoServer \in Server /\ NoServer.url = NoUrl BY DEF NoServer, Server, authTypes, policyModes
<1>2. ASSUME NEW n \in Names PROVE Settings[n] \subseteq Server
  <2>1. Records \subseteq Server BY DEF Records, Server
  <2> QED BY <2>1, ServersAssumption
<1>3. ASSUME NEW r \in Server PROVE LET x == [r EXCEPT !.endpoints = FALSE]
             IN  x \in Server /\ x.url = r.url /\ x.policy = r.policy
  BY DEF Server
<1>4. ASSUME NEW r \in Server PROVE LET x == [r EXCEPT !.auth = "oauth", !.endpoints = TRUE]
             IN  x \in Server /\ x.url = r.url /\ x.policy = r.policy
  BY DEF Server, authTypes
<1> QED BY <1>1, <1>2, <1>3, <1>4

\* A save gives one name what was chosen and keeps address and policy of the
\* others; an authorization keeps them of all.
LEMMA SavesAre ==
  ASSUME NEW n \in Names, NEW c \in Server, configs \in [Names -> Server]
  PROVE  /\ validated(n, c) \in [Names -> Server] /\ validated(n, c)[n] = c
         /\ \A m \in Names \ {n} : /\ validated(n, c)[m].url = configs[m].url
                                   /\ validated(n, c)[m].policy = configs[m].policy
<1>1. \A m \in Names : validated(n, c)[m] = IF m = n THEN c ELSE [configs[m] EXCEPT !.endpoints = FALSE]
  BY DEF validated
<1>2. \A m \in Names : LET x == [configs[m] EXCEPT !.endpoints = FALSE]
                       IN  x \in Server /\ x.url = configs[m].url /\ x.policy = configs[m].policy
  BY ServerRecords
<1>3. validated(n, c) \in [Names -> Server] BY <1>2 DEF validated
<1> QED BY <1>1, <1>2, <1>3

\* An authorization changes how a server is reached, not its address or policy.
LEMMA FlowsMark ==
  ASSUME NEW n \in Names, configs \in [Names -> Server],
         configs' = [configs EXCEPT ![n].auth = "oauth", ![n].endpoints = TRUE]
  PROVE  /\ configs' \in [Names -> Server]
         /\ \A m \in Names : configs'[m].url = configs[m].url /\ configs'[m].policy = configs[m].policy
<1> DEFINE r == [configs[n] EXCEPT !.auth = "oauth", !.endpoints = TRUE]
<1>1. r \in Server /\ r.url = configs[n].url /\ r.policy = configs[n].policy BY ServerRecords
<1>2. configs' = [configs EXCEPT ![n] = r] OBVIOUS
<1> HIDE DEF r
<1> QED BY <1>1, <1>2

\* The invariant of the servers holds at first.
LEMMA ServersInvInit == McpInit => ServersInv
<1> SUFFICES ASSUME McpInit PROVE ServersInv OBVIOUS
<1>1. /\ \A n \in Names : configs[n] = NoServer /\ catalog[n] = NoUrl /\ registered[n] = NoUrl
      /\ configs \in [Names -> Server] /\ cache = {configs} /\ probing = {} /\ flowsOpen = {}
      /\ flows = 0 /\ exchanged \in [1..MaxFlows -> Nat] /\ \A i \in 1..MaxFlows : exchanged[i] = 0
      /\ catalog \in [Names -> Urls \cup {NoUrl}] /\ registered \in [Names -> Urls \cup {NoUrl}]
  BY ServerRecords DEF McpInit
<1>2. ServersTyped BY <1>1, ServersAssumption DEF ServersTyped
<1>3. ToolsAreTheServers BY <1>1 DEF ToolsAreTheServers
<1> QED BY <1>1, <1>2, <1>3 DEF ServersInv, FlowsOK, CodeSentOnce

\* The steps that leave the flows alone.
FlowsStay == flowsOpen' = flowsOpen /\ flows' = flows /\ exchanged' = exchanged

\* No step lets a flow that may still come back have sent its code.
LEMMA FlowsStep ==
  ASSUME ServersInv, McpNext
  PROVE  /\ FlowsOK' /\ CodeSentOnce' /\ flowsOpen' \subseteq Flow /\ flows' \in 0..MaxFlows
         /\ exchanged' \in [1..MaxFlows -> Nat]
<1>0. /\ FlowsOK /\ CodeSentOnce /\ flowsOpen \subseteq Flow /\ flows \in 0..MaxFlows /\ MaxFlows \in Nat
      /\ exchanged \in [1..MaxFlows -> Nat]
  BY ServersAssumption DEF ServersInv, ServersTyped
<1>1. CASE FlowsStay BY <1>0, <1>1 DEF FlowsStay, FlowsOK, CodeSentOnce
<1>2. ASSUME NEW n \in Names, startOAuthFlow(n)
      PROVE  /\ FlowsOK' /\ CodeSentOnce' /\ flowsOpen' \subseteq Flow /\ flows' \in 0..MaxFlows
             /\ exchanged' \in [1..MaxFlows -> Nat]
  <2>1. PICK u \in Urls : flowsOpen' = {[id |-> flows + 1, name |-> n, url |-> u]}
    BY <1>2 DEF startOAuthFlow
  <2>2. flows < MaxFlows /\ flows' = flows + 1 /\ exchanged' = exchanged BY <1>2 DEF startOAuthFlow
  <2>3. flows + 1 \in 1..MaxFlows /\ exchanged[flows + 1] = 0 BY <1>0, <2>2 DEF FlowsOK
  <2> DEFINE x == [id |-> flows + 1, name |-> n, url |-> u]
  <2>4. x \in Flow /\ x.id = flows + 1 BY <1>0 DEF Flow
  <2> HIDE DEF x
  <2>5. flowsOpen' = {x} BY <2>1 DEF x
  <2>6. FlowsOK' BY <1>0, <2>2, <2>3, <2>4, <2>5 DEF FlowsOK
  <2> QED BY <1>0, <2>2, <2>3, <2>4, <2>5, <2>6 DEF CodeSentOnce
<1>3. ASSUME NEW f \in flowsOpen, completeOAuthFlow(f)
      PROVE  /\ FlowsOK' /\ CodeSentOnce' /\ flowsOpen' \subseteq Flow /\ flows' \in 0..MaxFlows
             /\ exchanged' \in [1..MaxFlows -> Nat]
  <2>1. flowsOpen' = {} /\ flows' = flows BY <1>3 DEF completeOAuthFlow, burn
  <2>2. exchanged' = exchanged \/ exchanged' = [exchanged EXCEPT ![f.id] = @ + 1]
    BY <1>3 DEF completeOAuthFlow
  <2>3. f.id \in 1..flows /\ f.id \in 1..MaxFlows /\ exchanged[f.id] = 0 BY <1>0 DEF FlowsOK
  <2>4. /\ exchanged' \in [1..MaxFlows -> Nat] /\ exchanged'[f.id] <= 1
        /\ \A i \in 1..MaxFlows : i # f.id => exchanged'[i] = exchanged[i]
    <3>1. CASE exchanged' = exchanged BY <1>0, <2>3, <3>1
    <3>2. CASE exchanged' = [exchanged EXCEPT ![f.id] = @ + 1] BY <1>0, <2>3, <3>2
    <3> QED BY <2>2, <3>1, <3>2
  <2> QED BY <1>0, <2>1, <2>3, <2>4 DEF FlowsOK, CodeSentOnce
<1>4. FlowsStay \/ (\E n \in Names : startOAuthFlow(n)) \/ (\E f \in flowsOpen : completeOAuthFlow(f))
  BY DEF McpNext, FlowsStay, restart, installEdgeMcpServers, setMcpServers, saveInterrupted,
    setMcpToken, clearMcpToken, startProbe, tokenExpires, startRefresh, resolvePolicy, probed,
    probeFailed, tokensArrive, exchangeFails, refreshed, refreshRefused
<1> QED BY <1>1, <1>2, <1>3, <1>4

\* The tools of the names and the cached policies, step by step.
ToolsStay == configs' = configs /\ catalog' = catalog /\ registered' = registered /\ interrupted' = interrupted
ToolsTyped ==
  /\ configs \in [Names -> Server] /\ cache \subseteq [Names -> Server]
  /\ catalog \in [Names -> Urls \cup {NoUrl}] /\ registered \in [Names -> Urls \cup {NoUrl}]
  /\ probing \subseteq [name : Names, url : Urls \cup {NoUrl}]

\* No step leaves tools of another address than the one configured.
LEMMA ToolsStep ==
  ASSUME ServersInv, McpNext PROVE ToolsTyped' /\ ToolsAreTheServers'
<1> DEFINE Goal == ToolsTyped' /\ ToolsAreTheServers'
<1>0. ToolsTyped /\ ToolsAreTheServers /\ ServersTyped BY DEF ServersInv, ServersTyped, ToolsTyped
<1>1. CASE ToolsStay /\ cache' \in {cache, {configs}} /\ probing' \in {probing, {}}
  <2>1. ToolsTyped' BY <1>0, <1>1 DEF ToolsTyped, ToolsStay
  <2> QED BY <2>1, <1>0, <1>1 DEF ToolsAreTheServers, ToolsStay
<1>2. ASSUME restart PROVE Goal
  <2>1. /\ configs' = configs /\ catalog' = catalog /\ interrupted' = interrupted
        /\ cache' = {configs} /\ probing' = {}
        /\ registered' = [n \in Names |-> IF configs[n] = NoServer THEN NoUrl ELSE catalog[n]]
    BY <1>2 DEF restart, installEdgeMcpServers
  <2>2. registered' \in [Names -> Urls \cup {NoUrl}] /\ \A n \in Names : registered'[n] \in {NoUrl, catalog[n]}
    BY <1>0, <2>1 DEF ToolsTyped
  <2>3. ToolsTyped' BY <1>0, <2>1, <2>2 DEF ToolsTyped
  <2> QED BY <1>0, <2>1, <2>2, <2>3 DEF ToolsAreTheServers
<1>3. ASSUME NEW n \in Names, setMcpServers(n) PROVE Goal
  <2>1. PICK c \in Saved(n) :
          /\ configs' = validated(n, c)
          /\ IF Changed(n, c) /\ Configured(n)
             THEN disposeServer(n) /\ clearServer(n)
             ELSE UNCHANGED <<registered, catalog, token, refresh>>
    BY <1>3 DEF setMcpServers
  <2>2. c \in Server BY ServerRecords DEF Saved
  <2>3. /\ configs' \in [Names -> Server] /\ configs'[n] = c
        /\ \A m \in Names \ {n} : configs'[m].url = configs[m].url
    BY <1>0, <2>1, <2>2, SavesAre, ZenonT(60) DEF ToolsTyped
  <2>4. cache' = {} /\ probing' = probing /\ interrupted' = interrupted BY <1>3 DEF setMcpServers
  <2>5. CASE Changed(n, c) /\ Configured(n)
    <3>1. registered' = [registered EXCEPT ![n] = NoUrl] /\ catalog' = [catalog EXCEPT ![n] = NoUrl]
      BY <2>1, <2>5 DEF disposeServer, clearServer
    <3>2. ToolsTyped' BY <1>0, <2>3, <2>4, <3>1 DEF ToolsTyped
    <3>3. \A m \in Names \ interrupted : {registered'[m], catalog'[m]} \subseteq {NoUrl, configs'[m].url}
      BY <1>0, <2>3, <3>1 DEF ToolsTyped, ToolsAreTheServers
    <3> QED BY <3>2, <3>3, <2>4 DEF ToolsAreTheServers
  <2>6. CASE ~(Changed(n, c) /\ Configured(n))
    <3>1. registered' = registered /\ catalog' = catalog BY <2>1, <2>6
    <3>2. configs[n].url = c.url \/ configs[n].url = NoUrl
      BY <2>6, ServerRecords DEF Changed, Configured
    <3>3. \A m \in Names \ interrupted : {registered[m], catalog[m]} \subseteq {NoUrl, configs'[m].url}
      BY <1>0, <2>3, <3>2 DEF ToolsAreTheServers
    <3>4. ToolsTyped' BY <1>0, <2>3, <2>4, <3>1 DEF ToolsTyped
    <3> QED BY <3>1, <3>3, <3>4, <2>4 DEF ToolsAreTheServers
  <2> QED BY <2>5, <2>6
<1>4. ASSUME NEW n \in Names, saveInterrupted(n) PROVE Goal
  <2>1. PICK c \in Saved(n) : configs' = validated(n, c) BY <1>4 DEF saveInterrupted
  <2>2. c \in Server BY ServerRecords DEF Saved
  <2>3. /\ configs' \in [Names -> Server]
        /\ \A m \in Names \ {n} : configs'[m].url = configs[m].url
    BY <1>0, <2>1, <2>2, SavesAre, ZenonT(60) DEF ToolsTyped
  <2>4. /\ interrupted' = interrupted \cup {n} /\ catalog' = catalog /\ cache' = {configs'} /\ probing' = {}
        /\ registered' = [m \in Names |-> IF configs'[m] = NoServer THEN NoUrl ELSE catalog[m]]
    BY <1>4 DEF saveInterrupted, installEdgeMcpServers
  <2>5. registered' \in [Names -> Urls \cup {NoUrl}] /\ \A m \in Names : registered'[m] \in {NoUrl, catalog[m]}
    BY <1>0, <2>4 DEF ToolsTyped
  <2>6. ToolsTyped' BY <1>0, <2>3, <2>4, <2>5 DEF ToolsTyped
  <2>7. \A m \in Names \ interrupted' : {registered'[m], catalog'[m]} \subseteq {NoUrl, configs'[m].url}
    BY <1>0, <2>3, <2>4, <2>5 DEF ToolsAreTheServers
  <2> QED BY <2>4, <2>6, <2>7 DEF ToolsAreTheServers
<1>5. ASSUME NEW n \in Names, startProbe(n) PROVE Goal
  <2>1. ToolsStay /\ cache' = cache /\ probing' = {[name |-> n, url |-> configs[n].url]}
    BY <1>5 DEF startProbe, ToolsStay
  <2>2. configs[n].url \in Urls \cup {NoUrl} BY <1>0 DEF ToolsTyped, Server
  <2>3. ToolsTyped' BY <1>0, <2>1, <2>2 DEF ToolsTyped, ToolsStay
  <2> QED BY <1>0, <2>1, <2>3 DEF ToolsAreTheServers, ToolsStay
<1>6. ASSUME NEW p \in probing, probed(p) PROVE Goal
  <2>1. p.name \in Names /\ p.url \in Urls \cup {NoUrl} /\ configs[p.name].url = p.url
    BY <1>0, <1>6 DEF probed, Current, ToolsTyped
  <2>2. /\ catalog' = [catalog EXCEPT ![p.name] = p.url] /\ registered' = [registered EXCEPT ![p.name] = p.url]
        /\ configs' = configs /\ cache' = {configs} /\ probing' = {} /\ interrupted' = interrupted
    BY <1>6 DEF probed
  <2>3. ToolsTyped' BY <1>0, <2>1, <2>2 DEF ToolsTyped
  <2>4. \A m \in Names \ interrupted : {registered'[m], catalog'[m]} \subseteq {NoUrl, configs[m].url}
    BY <1>0, <2>1, <2>2 DEF ToolsAreTheServers, ToolsTyped
  <2> QED BY <2>2, <2>3, <2>4 DEF ToolsAreTheServers
<1>7. ASSUME NEW n \in Names, startOAuthFlow(n) PROVE Goal
  <2>1. /\ catalog' = catalog /\ registered' = registered /\ interrupted' = interrupted
        /\ cache' = cache /\ probing' = probing
        /\ configs' = configs \/ configs' = [configs EXCEPT ![n].auth = "oauth", ![n].endpoints = TRUE]
    BY <1>7 DEF startOAuthFlow
  <2>2. /\ configs' \in [Names -> Server]
        /\ \A m \in Names : configs'[m].url = configs[m].url /\ configs'[m].policy = configs[m].policy
    <3>1. configs \in [Names -> Server] BY <1>0 DEF ToolsTyped
    <3> QED BY <2>1, <3>1, FlowsMark
  <2>3. ToolsTyped' BY <1>0, <2>1, <2>2 DEF ToolsTyped
  <2> QED BY <1>0, <2>1, <2>2, <2>3 DEF ToolsAreTheServers
<1>8. \/ ToolsStay /\ cache' \in {cache, {configs}} /\ probing' \in {probing, {}}
      \/ restart \/ \E n \in Names : setMcpServers(n) \/ saveInterrupted(n) \/ startProbe(n) \/ startOAuthFlow(n)
      \/ \E p \in probing : probed(p)
  BY DEF McpNext, ToolsStay, setMcpToken, clearMcpToken, tokenExpires, startRefresh,
    resolvePolicy, probeFailed, completeOAuthFlow, tokensArrive, exchangeFails, refreshed,
    refreshRefused
<1> QED BY <1>1, <1>2, <1>3, <1>4, <1>5, <1>6, <1>7, <1>8

\* No step breaks the invariant of the servers.
LEMMA ServersInvStep == ServersInv /\ [McpNext]_mcpVars => ServersInv'
<1>1. ASSUME ServersInv, McpNext PROVE ServersInv'
  BY <1>1, FlowsStep, ToolsStep DEF ServersInv, ServersTyped, ToolsTyped
<1>2. ASSUME ServersInv, UNCHANGED mcpVars PROVE ServersInv'
  BY <1>2 DEF mcpVars, ServersInv, ServersTyped, FlowsOK, ToolsAreTheServers, CodeSentOnce
<1> QED BY <1>1, <1>2

\* The tools of a server are those of the address it has, the cached
\* policy is the one saved, and an authorization code is sent once,
\* whatever is saved while a probe or a flow is under way
\* (edge-mcp-manager.ts, edge-mcp-oauth.ts, session-store.ts).
THEOREM ServersCorrect == McpSpec => []ServersAreTheirOwn
<1>1. ServersInv => ServersAreTheirOwn BY DEF ServersInv, ServersAreTheirOwn
<1> QED BY <1>1, ServersInvInit, ServersInvStep, PTL DEF McpSpec

----------------------------------------
(* The direct shell: a run at work is the one its id names, and close      *)
(* waits for all that are; an event that says "truncated" is one of a run  *)
(* that the limit ended.                                                   *)

TrueEvents == {e \in [name : {"stdout", "stderr", "exit"}, code : {0, 1, 126, 130}, truncated : BOOLEAN, was : BOOLEAN] :
                 e.truncated = e.was}
TrueExits == {e \in [code : {0, 1, 126, 130}, truncated : BOOLEAN, was : BOOLEAN, given : BOOLEAN] : e.truncated = e.was}

ShellTyped ==
  /\ closed \in {"open", "closing", "closed"} /\ executions \in [Ids -> Runs \cup {NoRun}]
  /\ idOf \in [Runs -> Ids \cup {NoRun}] /\ done \in [Runs -> BOOLEAN]
  /\ stream \in [Runs -> {"none", "open", "closed", "cancelled"}]
  /\ events \in [Runs -> Seq(TrueEvents)] /\ told \in [Runs -> TrueExits]
  /\ disposals \subseteq Ids \X Runs
RunsNamed ==
  \A r \in Runs : /\ stream[r] # "none" => idOf[r] \in Ids
                  /\ Running(r) => /\ closed = "open" => executions[idOf[r]] = r
                                   /\ closed = "closing" => r \in closing
                                   /\ closed # "closed"
DirectInv == ShellTyped /\ RunsNamed

\* The events made of a result, or of a refusal, are true of it.
LEMMA TrueEventsAre ==
  ASSUME NEW result \in Results
  PROVE  /\ shellExecEvents(result) \in Seq(TrueEvents)
         /\ \A b \in {1, 130} : <<Output("stderr"), Exit(b, FALSE, FALSE)>> \in Seq(TrueEvents)
<1>1. Output("stdout") \in TrueEvents /\ Output("stderr") \in TrueEvents BY DEF TrueEvents, Output
<1>2. \A b \in {1, 130} : Exit(b, FALSE, FALSE) \in TrueEvents BY DEF TrueEvents, Exit
<1>3. Exit(result.code, hitDirectOutputLimit(result), result.limited) \in TrueEvents
  <2>1. result.code \in {0, 126} /\ result.limited \in BOOLEAN /\ (result.limited => result.code = 126)
    BY DEF Results, Answers
  <2>2. hitDirectOutputLimit(result) = result.limited
    BY <2>1 DEF hitDirectOutputLimit, OwnDiagnostic, internalDiagnostic
  <2> QED BY <2>1, <2>2 DEF TrueEvents, Exit
<1>4. \A e, f \in TrueEvents : <<e>> \in Seq(TrueEvents) /\ <<e, f>> \in Seq(TrueEvents) OBVIOUS
<1>5. <<>> \in Seq(TrueEvents) /\ \A s, t \in Seq(TrueEvents) : s \o t \in Seq(TrueEvents) OBVIOUS
<1>6. shellExecEvents(result) \in Seq(TrueEvents)
  <2> DEFINE a == IF result.stdout THEN <<Output("stdout")>> ELSE <<>>
             b == IF result.printed \/ result.limited THEN <<Output("stderr")>> ELSE <<>>
             e == <<Exit(result.code, hitDirectOutputLimit(result), result.limited)>>
  <2>1. a \in Seq(TrueEvents) /\ b \in Seq(TrueEvents) /\ e \in Seq(TrueEvents)
    BY <1>1, <1>3, <1>4, <1>5
  <2>2. shellExecEvents(result) = a \o b \o e BY DEF shellExecEvents
  <2> HIDE DEF a, b, e
  <2> QED BY <2>1, <2>2, <1>5
<1> QED BY <1>1, <1>2, <1>4, <1>6

\* The invariant of the direct shell holds at first.
LEMMA DirectInvInit == DirectInit => DirectInv
<1> SUFFICES ASSUME DirectInit PROVE DirectInv OBVIOUS
<1>1. NoExit \in TrueExits BY DEF NoExit, TrueExits
<1>2. <<>> \in Seq(TrueEvents) OBVIOUS
<1>3. ShellTyped BY <1>1, <1>2 DEF DirectInit, ShellTyped
<1> QED BY <1>3 DEF DirectInit, DirectInv, RunsNamed, Running

\* A run that has not ended keeps its id, whatever is forgotten.
LEMMA ForgettingIsItsOwn ==
  ASSUME ShellTyped, NEW id \in Ids, NEW r \in Runs, executions' = deleteExecution(id, r)
  PROVE  /\ executions' \in [Ids -> Runs \cup {NoRun}]
         /\ \A i \in Ids : executions[i] # r => executions'[i] = executions[i]
BY DEF ShellTyped, deleteExecution, forgetItself

\* No step breaks the invariant of the direct shell.
LEMMA DirectInvStep == DirectInv /\ [DirectNext]_shellVars => DirectInv'
<1> SUFFICES ASSUME DirectInv, [DirectNext]_shellVars PROVE DirectInv' OBVIOUS
<1>1. ShellTyped /\ RunsNamed BY DEF DirectInv
<1> USE DEF Running
<1>2. CASE UNCHANGED shellVars BY <1>1, <1>2 DEF shellVars, DirectInv, ShellTyped, RunsNamed
<1>3. ASSUME NEW id \in Ids, exec(id) PROVE DirectInv'
  <2>1. PICK r \in Runs : /\ stream[r] = "none"
                          /\ stream' = [stream EXCEPT ![r] = "open"] /\ idOf' = [idOf EXCEPT ![r] = id]
                          /\ executions' = [executions EXCEPT ![id] = r]
    BY <1>3 DEF exec
  <2>2. /\ closed = "open" /\ executions[id] = NoRun /\ closed' = closed /\ done' = done /\ events' = events
        /\ told' = told /\ disposals' = disposals /\ closing' = closing
    BY <1>3 DEF exec
  <2>3. ShellTyped' BY <1>1, <2>1, <2>2 DEF ShellTyped
  <2>4. RunsNamed' BY <1>1, <2>1, <2>2, ShellAssumption DEF ShellTyped, RunsNamed
  <2> QED BY <2>3, <2>4 DEF DirectInv
<1>4. ASSUME UNCHANGED <<closed, executions, idOf, done, events, told, closing>>,
             stream' = stream \/ \E r \in Runs : stream[r] = "open" /\ stream' = [stream EXCEPT ![r] = "cancelled"],
             disposals' \subseteq Ids \X Runs
      PROVE  DirectInv'
  <2>1. stream' \in [Runs -> {"none", "open", "closed", "cancelled"}] /\ \A r \in Runs : stream'[r] # "none" => stream[r] # "none"
    BY <1>1, <1>4 DEF ShellTyped
  <2>2. ShellTyped' BY <1>1, <1>4, <2>1 DEF ShellTyped
  <2>3. RunsNamed' BY <1>1, <1>4, <2>1 DEF RunsNamed
  <2> QED BY <2>2, <2>3 DEF DirectInv
<1>5. ASSUME NEW id \in Ids, killExec(id) \/ disposeExec(id) PROVE DirectInv'
  <2>1. executions[id] \in Runs BY <1>1, <1>5 DEF killExec, disposeExec, ShellTyped
  <2>2. disposals' \subseteq Ids \X Runs
    BY <1>1, <1>5, <2>1 DEF killExec, disposeExec, Dispose, ShellTyped
  <2>3. UNCHANGED <<closed, executions, idOf, done, events, told, closing, stream>>
    BY <1>5 DEF killExec, disposeExec
  <2> QED BY <1>4, <2>2, <2>3
<1>6. ASSUME NEW r \in Runs, cancel(r) PROVE DirectInv'
  <2>1. idOf[r] \in Ids BY <1>1, <1>6 DEF cancel, RunsNamed
  <2>2. disposals' \subseteq Ids \X Runs BY <1>1, <1>6, <2>1 DEF cancel, Dispose, ShellTyped
  <2>3. /\ UNCHANGED <<closed, executions, idOf, done, events, told, closing>>
        /\ stream[r] = "open" /\ stream' = [stream EXCEPT ![r] = "cancelled"]
    BY <1>6 DEF cancel
  <2> QED BY <1>4, <2>2, <2>3
<1>7. ASSUME NEW r \in Runs, runShell(r) PROVE DirectInv'
  <2>1. /\ done' = [done EXCEPT ![r] = TRUE]
        /\ UNCHANGED <<closed, executions, idOf, signal, stream, told, disposals, closing>>
    BY <1>7 DEF runShell
  <2>2. PICK s \in Seq(TrueEvents) : events' = [events EXCEPT ![r] = s]
    <3>1. CASE \E result \in Results : events' = [events EXCEPT ![r] = shellExecEvents(result)]
      BY <3>1, TrueEventsAre
    <3>2. CASE events' = [events EXCEPT ![r] = <<Output("stderr"), Exit(IF signal[r] THEN 130 ELSE 1, FALSE, FALSE)>>]
      <4>1. PICK result : result \in Results
        <5> DEFINE a == [stdout |-> FALSE, code |-> 0, printed |-> FALSE, limited |-> FALSE]
        <5>1. a \in Answers /\ a.limited = FALSE BY DEF Answers
        <5> HIDE DEF a
        <5> QED BY <5>1 DEF Results
      <4> QED BY <3>2, <4>1, TrueEventsAre
    <3> QED BY <1>7, <3>1, <3>2 DEF runShell
  <2>3. ShellTyped' BY <1>1, <2>1, <2>2 DEF ShellTyped
  <2>4. RunsNamed' BY <1>1, <2>1 DEF ShellTyped, RunsNamed
  <2> QED BY <2>3, <2>4 DEF DirectInv
<1>8. ASSUME NEW r \in Runs, executionEvents(r) PROVE DirectInv'
  <2> DEFINE event == Head(events[r])
  <2>1. stream[r] = "open" /\ done[r] /\ events[r] \in Seq(TrueEvents) /\ events[r] # <<>>
    BY <1>1, <1>8 DEF executionEvents, ShellTyped
  <2>2. event \in TrueEvents /\ Tail(events[r]) \in Seq(TrueEvents) BY <2>1
  <2>3. UNCHANGED <<closed, idOf, signal, done, disposals, closing>> /\ events' = [events EXCEPT ![r] = Tail(@)]
    BY <1>8 DEF executionEvents
  <2>4. events' \in [Runs -> Seq(TrueEvents)] BY <1>1, <2>2, <2>3 DEF ShellTyped
  <2> DEFINE x == [code |-> event.code, truncated |-> event.truncated, was |-> event.was, given |-> TRUE]
  <2>5. x \in TrueExits BY <2>2 DEF TrueEvents, TrueExits
  <2>6. CASE event.name = "exit"
    <3>1. /\ stream' = [stream EXCEPT ![r] = "closed"] /\ executions' = deleteExecution(idOf[r], r)
          /\ told' = [told EXCEPT ![r] = x]
      BY <1>8, <2>6 DEF executionEvents
    <3> HIDE DEF x, event
    <3>2. idOf[r] \in Ids BY <1>1, <2>1 DEF RunsNamed
    <3>3. /\ executions' \in [Ids -> Runs \cup {NoRun}]
          /\ \A i \in Ids : executions[i] # r => executions'[i] = executions[i]
      BY <1>1, <3>1, <3>2, ForgettingIsItsOwn
    <3>4. ShellTyped' BY <1>1, <2>3, <2>4, <2>5, <3>1, <3>3 DEF ShellTyped
    <3>5. RunsNamed' BY <1>1, <2>1, <2>3, <3>1, <3>3 DEF ShellTyped, RunsNamed
    <3> QED BY <3>4, <3>5 DEF DirectInv
  <2>7. CASE event.name # "exit"
    <3>1. UNCHANGED <<stream, executions, told>> BY <1>8, <2>7 DEF executionEvents
    <3> HIDE DEF x, event
    <3>2. ShellTyped' BY <1>1, <2>3, <2>4, <3>1 DEF ShellTyped
    <3>3. RunsNamed' BY <1>1, <2>3, <3>1 DEF RunsNamed
    <3> QED BY <3>2, <3>3 DEF DirectInv
  <2> QED BY <2>6, <2>7
<1>9. CASE Disposed
  <2>1. PICK d \in disposals : done[d[2]] /\ disposals' = disposals \ {d} /\ executions' = deleteExecution(d[1], d[2])
    BY <1>9 DEF Disposed
  <2>2. UNCHANGED <<closed, idOf, signal, done, events, stream, told, closing>> BY <1>9 DEF Disposed
  <2>3. d[1] \in Ids /\ d[2] \in Runs BY <1>1 DEF ShellTyped
  <2>4. /\ executions' \in [Ids -> Runs \cup {NoRun}]
        /\ \A i \in Ids : executions[i] # d[2] => executions'[i] = executions[i]
    BY <1>1, <2>1, <2>3, ForgettingIsItsOwn
  <2>5. ShellTyped' BY <1>1, <2>1, <2>2, <2>4 DEF ShellTyped
  <2>6. RunsNamed' BY <1>1, <2>1, <2>2, <2>4 DEF ShellTyped, RunsNamed
  <2> QED BY <2>5, <2>6 DEF DirectInv
<1>10. CASE close
  <2>1. /\ closed = "open" /\ closed' = "closing" /\ closing' = Listed
        /\ UNCHANGED <<executions, idOf, done, events, stream, told, disposals>>
    BY <1>10 DEF close
  <2>2. \A r \in Runs : Running(r) => r \in Listed
    BY <1>1, <2>1, ShellAssumption DEF RunsNamed, Listed
  <2>3. ShellTyped' BY <1>1, <2>1 DEF ShellTyped
  <2>4. RunsNamed' BY <1>1, <2>1, <2>2 DEF RunsNamed
  <2> QED BY <2>3, <2>4 DEF DirectInv
<1>11. CASE Closed
  <2>1. /\ closed = "closing" /\ closed' = "closed" /\ executions' = [i \in Ids |-> NoRun]
        /\ \A r \in closing : done[r]
        /\ UNCHANGED <<idOf, signal, done, events, stream, told, disposals, closing>>
    BY <1>11 DEF Closed
  <2>2. ShellTyped' BY <1>1, <2>1 DEF ShellTyped
  <2>3. RunsNamed' BY <1>1, <2>1 DEF RunsNamed
  <2> QED BY <2>2, <2>3 DEF DirectInv
<1> QED BY <1>2, <1>3, <1>5, <1>6, <1>7, <1>8, <1>9, <1>10, <1>11 DEF DirectNext

\* Once close returns no command is at work on the workspace, and an exit
\* says "truncated" exactly when the interpreter's limit ended the
\* command, for any ids, disposals and cancelled streams (direct-shell.ts).
THEOREM DirectShellCorrect == DirectSpec => []DirectShellTells
<1>1. DirectInv => DirectShellTells
  BY DEF DirectInv, ShellTyped, RunsNamed, TrueExits, DirectShellTells, ClosedIsQuiet, TruncationIsReal
<1> QED BY <1>1, DirectInvInit, DirectInvStep, PTL DEF DirectSpec
=============================================================================
