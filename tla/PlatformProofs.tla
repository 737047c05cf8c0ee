--------------------------- MODULE PlatformProofs ---------------------------
(***************************************************************************)
(* Proofs about the deployment, for any installers, releases, sockets,     *)
(* namespaces, pages, working directories, tasks and limits: reminders,    *)
(* the installer, the start, the storage unit, downlinks, settings, the    *)
(* settings page and skills, each with an inductive invariant of its own.  *)
(* The last part puts them together for the deployment as a whole.         *)
(***************************************************************************)
EXTENDS MCPlatform, LineLemmas

----------------------------------------
(* Reminders: the inductive invariant. *)

\* The saved deliveries of a task that was delivered total times: the newest
\* ones, without a gap and in the order of their times.
HistoryOK(h, total, trimmed) ==
    \E a \in 0..total :
        /\ {d.seq : d \in h} = a..(total - 1) /\ Cardinality(h) = total - a
        /\ total > 0 => a < total
        /\ total - a <= RetentionRecords
        /\ trimmed <=> a > 0
        /\ \A d \in h : d.at <= now
        /\ \A d, e \in h : (d.seq = e.seq => d = e) /\ (d.seq < e.seq => d.at <= e.at)
HistoriesStand == \A t \in Tasks : HistoryOK(history[t], count[t], pruned[t])

\* Identities are made from due times that have come.
KeysFollow ==
    \A t \in Tasks : lastKey[t] <= now /\ (status[t] = "active" => lastKey[t] < due[t])

\* Where a drive stands, against the claimed input.
DriveFollows ==
    /\ driving \in {"running", "closing", "claimed"} => running # None
    /\ driving \in {"dispatching", "claiming"} => running = None
    /\ running \notin paused

\* The two parts of DueHasWake.
WakeStands ==
    \A t \in Candidates : WakeBy(Max({WakeOf(t), now + MAIN_WAKE_MS})) \/ TaskSession[t] \in unwoken
WakeComes == unwoken # {} => WakeIsComing \/ cut

ScheduleInv ==
    /\ ScheduleTypeOK /\ StoreBounded /\ HistoriesStand /\ KeysFollow /\ DriveFollows
    /\ WakeStands /\ WakeComes

----------------------------------------
(* The least and the greatest. *)

\* Every limit is a number, and not zero.
LEMMA Limits ==
    /\ MAX_ACTIVE_SCHEDULES \in Nat /\ MAX_ENDED_SCHEDULES \in Nat
    /\ RetentionRecords \in Nat /\ RetentionRecords > 0 /\ RetentionTime \in Nat
    /\ MAIN_QUEUE_LIMIT \in Nat /\ MAIN_WAKE_MS \in Nat /\ MAIN_WAKE_MS > 0
    /\ MaxTime \in Nat /\ MaxTime > 0 /\ LastInstant \in Nat
    /\ \A period \in Periods : period \in Nat /\ period > 0
  BY ScheduleLimitsAssumption

\* A set of numbers has a least one.
LEMMA MinIs ==
    ASSUME NEW S, S \subseteq Nat, S # {}
    PROVE  Min(S) \in S /\ Min(S) \in Nat /\ \A n \in S : Min(S) <= n
<1>1. \E n \in S : \A m \in S : n <= m BY LeastNumber
<1> QED BY <1>1 DEF Min

\* The greater of two numbers.
LEMMA MaxOfTwo ==
    ASSUME NEW a \in Int, NEW b \in Int PROVE Max({a, b}) = IF a >= b THEN a ELSE b
<1>1. \E x \in {a, b} : \A y \in {a, b} : x >= y OBVIOUS
<1>2. Max({a, b}) \in {a, b} /\ \A y \in {a, b} : Max({a, b}) >= y BY <1>1 DEF Max
<1> HIDE DEF Max
<1> QED BY <1>2

\* The greatest of a stretch of numbers that begins with -1, or follows it.
LEMMA MaxOfStretch ==
    ASSUME NEW a \in Nat, NEW n \in Nat, a < n \/ n = 0
    PROVE  Max((a..(n - 1)) \cup {-1}) = n - 1
<1> DEFINE S == (a..(n - 1)) \cup {-1}
<1>1. n - 1 \in S /\ \A y \in S : n - 1 >= y OBVIOUS
<1>2. Max(S) \in S /\ \A y \in S : Max(S) >= y
  <2> HIDE DEF S
  <2> QED BY <1>1 DEF Max
<1>3. \A y \in S : y \in Int OBVIOUS
<1> HIDE DEF S
<1>4. Max(S) \in Int /\ Max(S) >= n - 1 /\ n - 1 >= Max(S) BY <1>1, <1>2, <1>3
<1> QED BY <1>4 DEF S

----------------------------------------
(* Counting the queued inputs. *)

\* The rows of a queue are counted by session and place.
LEMMA RowsCounted ==
    ASSUME NEW w \in [Sessions -> 0..MAIN_QUEUE_LIMIT]
    PROVE  /\ IsFiniteSet(QueuedRows(w)) /\ Cardinality(QueuedRows(w)) \in Nat
           /\ \A s \in Sessions : w[s] <= Cardinality(QueuedRows(w))
<1> USE Limits
<1>1. QueuedRows(w) \subseteq Sessions \X (1..MAIN_QUEUE_LIMIT) BY DEF QueuedRows
<1>2. IsFiniteSet(Sessions) /\ IsFiniteSet(1..MAIN_QUEUE_LIMIT) BY TasksAssumption, FS_Interval
<1>3. IsFiniteSet(Sessions \X (1..MAIN_QUEUE_LIMIT)) BY <1>2, FS_Product
<1>4. IsFiniteSet(QueuedRows(w)) BY <1>1, <1>3, FS_Subset
<1>5. Cardinality(QueuedRows(w)) \in Nat BY <1>4, FS_CardinalityType
<1>6. ASSUME NEW s \in Sessions PROVE w[s] <= Cardinality(QueuedRows(w))
  <2> DEFINE f == [k \in 1..w[s] |-> <<s, k>>]
  <2>1. w[s] \in Nat /\ IsFiniteSet(1..w[s]) /\ Cardinality(1..w[s]) = w[s]
    <3>1. w[s] \in Nat OBVIOUS
    <3> QED BY <3>1, FS_Interval
  <2>2. f \in Injection(1..w[s], QueuedRows(w)) BY DEF Injection, IsInjective, QueuedRows
  <2>3. Cardinality(1..w[s]) <= Cardinality(QueuedRows(w))
    <3> HIDE DEF f
    <3> QED BY <2>2, <1>4, FS_Injection
  <2> QED BY <2>1, <2>3
<1> QED BY <1>4, <1>5, <1>6

\* An input that is queued is one row more.
LEMMA RowAdded ==
    ASSUME NEW w \in [Sessions -> 0..MAIN_QUEUE_LIMIT], NEW s \in Sessions
    PROVE  Cardinality(QueuedRows([w EXCEPT ![s] = @ + 1])) = Cardinality(QueuedRows(w)) + 1
<1>1. QueuedRows([w EXCEPT ![s] = @ + 1]) = QueuedRows(w) \cup {<<s, w[s] + 1>>}
  <2> DEFINE v == [w EXCEPT ![s] = @ + 1]
  <2>1. \A other \in Sessions : v[other] = IF other = s THEN w[other] + 1 ELSE w[other] OBVIOUS
  <2>2. 1..(w[s] + 1) = (1..w[s]) \cup {w[s] + 1} /\ \A other \in Sessions : w[other] \in Nat
    BY Limits
  <2>3. \A other \in Sessions : {other} \X (1..v[other]) = ({other} \X (1..w[other])) \cup (IF other = s THEN {<<s, w[s] + 1>>} ELSE {})
    BY <2>1, <2>2
  <2> HIDE DEF v
  <2>4. QueuedRows(v) \subseteq QueuedRows(w) \cup {<<s, w[s] + 1>>} BY <2>3 DEF QueuedRows
  <2>5. QueuedRows(w) \subseteq QueuedRows(v) /\ <<s, w[s] + 1>> \in QueuedRows(v)
    BY <2>3 DEF QueuedRows
  <2> QED BY <2>4, <2>5 DEF v
<1>2. <<s, w[s] + 1>> \notin QueuedRows(w) BY Limits DEF QueuedRows
<1>3. IsFiniteSet(QueuedRows(w)) BY RowsCounted
<1>4. Cardinality(QueuedRows(w) \cup {<<s, w[s] + 1>>}) = Cardinality(QueuedRows(w)) + 1
  <2>1. PICK H, row : H = QueuedRows(w) /\ row = <<s, w[s] + 1>> OBVIOUS
  <2>2. IsFiniteSet(H) /\ row \notin H BY <1>2, <1>3, <2>1
  <2>3. Cardinality(H \cup {row}) = Cardinality(H) + 1 BY ONLY <2>2, FS_AddElement
  <2> QED BY <2>1, <2>3
<1> QED BY <1>1, <1>4

\* One that leaves the queue is one row less.
LEMMA RowTaken ==
    ASSUME NEW w \in [Sessions -> 0..MAIN_QUEUE_LIMIT], NEW s \in Sessions, w[s] > 0
    PROVE  Cardinality(QueuedRows([w EXCEPT ![s] = @ - 1])) = Cardinality(QueuedRows(w)) - 1
<1> DEFINE v == [w EXCEPT ![s] = @ - 1]
<1>1. v \in [Sessions -> 0..MAIN_QUEUE_LIMIT] /\ w = [v EXCEPT ![s] = @ + 1]
  <2>1. w[s] \in Nat /\ w[s] <= MAIN_QUEUE_LIMIT /\ MAIN_QUEUE_LIMIT \in Nat /\ w[s] - 1 \in 0..MAIN_QUEUE_LIMIT
    BY Limits
  <2>2. v[s] = w[s] - 1 /\ v \in [Sessions -> 0..MAIN_QUEUE_LIMIT] BY <2>1
  <2>3. v[s] + 1 = w[s] BY <2>1, <2>2
  <2> QED BY <2>2, <2>3
<1> HIDE DEF v
<1>2. Cardinality(QueuedRows(w)) = Cardinality(QueuedRows(v)) + 1 BY <1>1, RowAdded
<1>3. Cardinality(QueuedRows(v)) \in Nat BY <1>1, RowsCounted
<1> QED BY <1>2, <1>3 DEF v

----------------------------------------
(* The next occurrence. *)

\* Every stretch of a period's length has an occurrence.
LEMMA OccurrenceInStretch ==
    ASSUME NEW period \in Nat, period > 0, NEW m \in Nat, NEW d \in Nat
    PROVE  \E n \in (m + 1)..(m + period) : (n - d) % period = 0
<1> DEFINE x == m - d
           quotient == x \div period
           r == x % period
           n == m + period - r
<1>1. x \in Int /\ quotient \in Int /\ r \in 0..(period - 1) OBVIOUS
<1>2. x = (period * quotient) + r BY <1>1
<1>3. \A k \in Int : (period * k) % period = 0 OBVIOUS
<1>4. period * (quotient + 1) = (period * quotient) + period /\ (period * (quotient + 1)) % period = 0
  BY <1>1, <1>3
<1> HIDE DEF quotient, r
<1>5. n \in (m + 1)..(m + period) BY <1>1
<1>6. n - d = ((period * quotient) + r) + period - r BY <1>1, <1>2
<1>7. period * quotient \in Int BY <1>1
<1>8. n - d = period * (quotient + 1) BY <1>1, <1>4, <1>6, <1>7
<1> QED BY <1>4, <1>5, <1>8

\* The next occurrence is after now.
LEMMA OccurrenceIsLater ==
    ASSUME ScheduleTypeOK, NEW t \in Tasks, rule[t] # 0
    PROVE  NextOccurrence(t) \in Nat /\ NextOccurrence(t) > now
<1> DEFINE S == {n \in (now + 1)..(now + rule[t]) : (n - due[t]) % rule[t] = 0}
<1>1. now \in Nat /\ due[t] \in Nat /\ rule[t] \in Nat /\ rule[t] > 0 BY Limits DEF ScheduleTypeOK
<1>2. S # {} BY <1>1, OccurrenceInStretch
<1>3. S \subseteq Nat /\ \A n \in S : n > now BY <1>1
<1> HIDE DEF S
<1>4. Min(S) \in S /\ Min(S) \in Nat BY <1>2, <1>3, MinIs
<1> QED BY <1>3, <1>4 DEF S, NextOccurrence

----------------------------------------
(* The history of a task. *)

\* Deliveries with a stretch of numbers, each its own, are as many.
LEMMA DeliveriesCounted ==
    ASSUME NEW h, NEW a \in Nat, NEW n \in Nat, a <= n,
           {d.seq : d \in h} = a..(n - 1), \A d, e \in h : d.seq = e.seq => d = e
    PROVE  Cardinality(h) = n - a
<1> DEFINE f == [k \in a..(n - 1) |-> CHOOSE d \in h : d.seq = k]
<1>1. \A k \in a..(n - 1) : f[k] \in h /\ f[k].seq = k
  <2> SUFFICES ASSUME NEW k \in a..(n - 1) PROVE f[k] \in h /\ f[k].seq = k OBVIOUS
  <2>1. \E d \in h : d.seq = k OBVIOUS
  <2> QED BY <2>1
<1>2. \A d \in h : d.seq \in a..(n - 1) OBVIOUS
<1>3. f \in [a..(n - 1) -> h] BY <1>1
<1> HIDE DEF f
<1>4. f \in Bijection(a..(n - 1), h)
  BY <1>1, <1>2, <1>3 DEF Bijection, Injection, Surjection, IsInjective
<1>5. IsFiniteSet(a..(n - 1)) /\ Cardinality(a..(n - 1)) = n - a BY FS_Interval
<1> QED BY <1>4, <1>5, FS_Bijection DEF ExistsBijection

\* A delivery is appended to its task's history, and what that drops are its
\* oldest ones.
LEMMA DeliverySaved ==
    ASSUME ScheduleTypeOK, NEW t \in Tasks, HistoryOK(history[t], count[t], pruned[t])
    PROVE  /\ Kept(t) \in SUBSET [seq : Nat, at : 1..MaxTime]
           /\ HistoryOK(Kept(t), count[t] + 1, pruned[t] \/ Kept(t) # Saved(t))
<1> DEFINE h == history[t]
           c == count[t]
           last == [seq |-> c, at |-> now]
<1>1. PICK a \in 0..c :
        /\ {d.seq : d \in h} = a..(c - 1) /\ (c > 0 => a < c) /\ (pruned[t] <=> a > 0)
        /\ \A d \in h : d.at <= now
        /\ \A d, e \in h : (d.seq = e.seq => d = e) /\ (d.seq < e.seq => d.at <= e.at)
  BY DEF HistoryOK
<1>2. /\ c \in Nat /\ a \in Nat /\ now \in 1..MaxTime /\ MaxTime \in Nat
      /\ RetentionRecords \in Nat /\ RetentionRecords > 0 /\ RetentionTime \in Nat
      /\ pruned[t] \in BOOLEAN
  BY Limits DEF ScheduleTypeOK
<1>3. \A d \in h : d \in [seq : Nat, at : 1..MaxTime] /\ d.seq \in Nat /\ d.at \in Nat /\ d.seq \in a..(c - 1)
  BY <1>1, Limits DEF ScheduleTypeOK
<1>4. NextSeq(t) = c
  <2>1. Max((a..(c - 1)) \cup {-1}) = c - 1 BY <1>1, <1>2, MaxOfStretch
  <2>2. NextSeq(t) = Max({d.seq : d \in h} \cup {-1}) + 1 BY DEF NextSeq
  <2>3. {d.seq : d \in h} \cup {-1} = (a..(c - 1)) \cup {-1} BY <1>1
  <2>4. NextSeq(t) = (c - 1) + 1 BY ONLY <2>1, <2>2, <2>3
  <2> HIDE DEF c
  <2> QED BY <1>2, <2>4
<1>5. Saved(t) = h \cup {last} BY <1>4 DEF Saved
<1>6. Kept(t) = {d \in h \cup {last} : d.seq > c - RetentionRecords /\ d.at >= now - RetentionTime}
  BY <1>4, <1>5 DEF Kept
<1>7. last \in [seq : Nat, at : 1..MaxTime] /\ last.seq = c /\ last.at = now BY <1>2
<1> HIDE DEF h, c, last
<1>8. /\ \A d \in h \cup {last} : d.seq \in a..c /\ d.at \in Nat /\ d.at <= now
      /\ \A d, e \in h \cup {last} : (d.seq = e.seq => d = e) /\ (d.seq < e.seq => d.at <= e.at)
  BY <1>1, <1>2, <1>3, <1>7
<1>9. last \in Kept(t) BY <1>2, <1>6, <1>7
<1> DEFINE K == Kept(t)
           seqs == {d.seq : d \in K}
<1>10. K \subseteq h \cup {last} BY <1>6
<1>11. seqs \subseteq Nat /\ c \in seqs BY <1>2, <1>7, <1>8, <1>9, <1>10
<1>12. PICK b \in seqs : \A k \in seqs : b <= k
  <2> HIDE DEF seqs
  <2> QED BY <1>11, LeastNumber
<1>13. PICK e \in K : e.seq = b BY <1>12
<1>14. b \in Nat /\ b <= c /\ a <= b /\ b > c - RetentionRecords /\ e.at >= now - RetentionTime
  BY <1>2, <1>6, <1>8, <1>10, <1>11, <1>12, <1>13
<1>15. seqs = b..c
  <2>1. ASSUME NEW k \in b..c PROVE k \in seqs
    <3>1. PICK d \in h \cup {last} : d.seq = k
      <4>1. k \in Nat /\ (k = c \/ k \in a..(c - 1)) BY <1>2, <1>14
      <4> QED BY <1>1, <1>7, <4>1
    <3>2. d.at >= e.at BY <1>8, <1>10, <1>13, <1>14, <3>1
    <3>3. d.at \in Nat /\ e.at \in Nat BY <1>8, <1>10
    <3>4. d \in K BY <1>2, <1>6, <1>14, <3>1, <3>2, <3>3
    <3> QED BY <3>1, <3>4
  <2>2. ASSUME NEW d \in K PROVE d.seq \in b..c
    <3>1. d.seq \in Nat /\ d.seq <= c /\ d.seq \in seqs BY <1>2, <1>8, <1>10
    <3> QED BY <1>2, <1>12, <1>14, <3>1
  <2> QED BY <2>1, <2>2
<1>16. Cardinality(K) = (c + 1) - b
  <2> DEFINE m == c + 1
  <2>1. {d.seq : d \in K} = b..(m - 1) /\ \A d, g \in K : d.seq = g.seq => d = g
    BY <1>2, <1>8, <1>10, <1>15
  <2>2. b \in Nat /\ m \in Nat /\ b <= m BY <1>2, <1>14
  <2> HIDE DEF K, seqs, m
  <2>3. Cardinality(K) = m - b BY ONLY <2>1, <2>2, DeliveriesCounted
  <2> QED BY <2>3 DEF m
<1>17. (pruned[t] \/ K # Saved(t)) <=> b > 0
  <2>1. CASE a > 0 BY <1>1, <1>2, <1>14, <2>1
  <2>2. CASE ~(a > 0) /\ b > 0
    <3>1. a = 0 /\ c > 0 BY <1>2, <1>14, <2>2
    <3>2. 0 \in a..(c - 1) BY <1>2, <3>1
    <3>3. PICK d \in h : d.seq = 0 BY <1>1, <3>2
    <3>4. d \in Saved(t) /\ d \notin K BY <1>5, <1>12, <1>14, <2>2, <3>3
    <3> QED BY <2>2, <3>4
  <2>3. CASE ~(a > 0) /\ ~(b > 0)
    <3>1. ~pruned[t] BY <1>1, <1>2, <2>3
    <3>2. \A d \in h \cup {last} : d \in K
      <4> SUFFICES ASSUME NEW d \in h \cup {last} PROVE d \in K OBVIOUS
      <4>1. d.seq \in b..c BY <1>2, <1>8, <1>14, <2>3
      <4>2. PICK g \in K : g.seq = d.seq BY <1>15, <4>1
      <4> QED BY <1>8, <1>10, <4>2
    <3>3. K = Saved(t) BY <1>5, <1>10, <3>2
    <3> QED BY <2>3, <3>1, <3>3
  <2> QED BY <2>1, <2>2, <2>3
<1>18. HistoryOK(K, c + 1, pruned[t] \/ K # Saved(t))
  <2>1. b \in 0..(c + 1) /\ {d.seq : d \in K} = b..((c + 1) - 1) /\ (c + 1 > 0 => b < c + 1)
    BY <1>2, <1>14, <1>15
  <2>2. (c + 1) - b <= RetentionRecords BY <1>2, <1>14
  <2>3. \A d \in K : d.at <= now BY <1>8, <1>10
  <2>4. \A d, g \in K : (d.seq = g.seq => d = g) /\ (d.seq < g.seq => d.at <= g.at) BY <1>8, <1>10
  <2> HIDE DEF K
  <2> QED BY <1>16, <1>17, <2>1, <2>2, <2>3, <2>4 DEF HistoryOK
<1>19. K \in SUBSET [seq : Nat, at : 1..MaxTime] BY <1>3, <1>7, <1>10
<1> QED BY <1>18, <1>19 DEF c

----------------------------------------
(* The two ways the alarm is set. *)

AlarmTypes == alarm \in Nat \cup {None} /\ unwoken \subseteq Sessions /\ cut \in BOOLEAN

\* What the alarm is computed from.
TimesOK ==
    /\ due \in [Tasks -> Nat] /\ retry \in [Sessions -> Nat] /\ now \in 1..MaxTime
    /\ waitingInputs \in [Sessions -> 0..MAIN_QUEUE_LIMIT] /\ running \in Sessions \cup {None}

\* Somebody is candidate for the earliest time.
LEMMA NextDueIs ==
    TimesOK => /\ \A t \in Candidates : WakeOf(t) \in Nat
               /\ Candidates # {} => NextDue \in Nat /\ \A t \in Candidates : NextDue <= WakeOf(t)
<1> SUFFICES ASSUME TimesOK
             PROVE  /\ \A t \in Candidates : WakeOf(t) \in Nat
                    /\ Candidates # {} => NextDue \in Nat /\ \A t \in Candidates : NextDue <= WakeOf(t)
  OBVIOUS
<1>1. ASSUME NEW t \in Candidates PROVE WakeOf(t) \in Nat
  <2>1. t \in Tasks /\ TaskSession[t] \in Sessions BY TasksAssumption DEF Candidates, TasksIn
  <2>2. due[t] \in Nat /\ retry[TaskSession[t]] \in Nat BY <2>1 DEF TimesOK
  <2> QED BY <2>2, MaxOfTwo DEF WakeOf
<1>2. ASSUME Candidates # {} PROVE NextDue \in Nat /\ \A t \in Candidates : NextDue <= WakeOf(t)
  <2> DEFINE S == {WakeOf(t) : t \in Candidates}
  <2>1. S \subseteq Nat /\ S # {} BY <1>1, <1>2
  <2> HIDE DEF S
  <2>2. Min(S) \in Nat /\ \A n \in S : Min(S) <= n BY <2>1, MinIs
  <2> QED BY <2>2 DEF NextDue, S
<1> QED BY <1>1, <1>2

\* scheduleMainWake sets an alarm for every candidate.
LEMMA MainWakeMeant ==
    ASSUME TimesOK, NEW a, a = (IF WakeTimes = {} THEN None ELSE Min(WakeTimes))
    PROVE  /\ a \in Nat \cup {None}
           /\ \A t \in Candidates : a # None /\ a <= Max({WakeOf(t), now + MAIN_WAKE_MS})
<1> USE Limits
<1>1. now \in Nat BY DEF TimesOK
<1>2. /\ Delay(driving # "idle") \in Nat /\ Delay(driving # "idle") <= now + MAIN_WAKE_MS
      /\ Delay(driving # "idle" \/ running # None) \in Nat
      /\ Delay(driving # "idle" \/ running # None) <= now + MAIN_WAKE_MS
  BY <1>1 DEF Delay
<1>3. \A t \in Candidates : /\ Max({NextDue, Delay(driving # "idle")}) \in Nat
                            /\ Max({NextDue, Delay(driving # "idle")}) <= Max({WakeOf(t), now + MAIN_WAKE_MS})
  <2> SUFFICES ASSUME NEW t \in Candidates
               PROVE  /\ Max({NextDue, Delay(driving # "idle")}) \in Nat
                      /\ Max({NextDue, Delay(driving # "idle")}) <= Max({WakeOf(t), now + MAIN_WAKE_MS})
    OBVIOUS
  <2>1. PICK n, w, d, m : /\ n = NextDue /\ w = WakeOf(t) /\ d = Delay(driving # "idle")
                          /\ m = now + MAIN_WAKE_MS
    OBVIOUS
  <2>2. n \in Nat /\ w \in Nat /\ n <= w BY <2>1, NextDueIs
  <2>3. d \in Nat /\ m \in Nat /\ d <= m BY <2>1, <1>1, <1>2
  <2>4. Max({n, d}) = (IF n >= d THEN n ELSE d) /\ Max({w, m}) = (IF w >= m THEN w ELSE m)
    BY <2>2, <2>3, MaxOfTwo
  <2>5. Max({n, d}) \in Nat /\ Max({n, d}) <= Max({w, m}) BY ONLY <2>2, <2>3, <2>4
  <2> QED BY <2>1, <2>5
<1>4. WakeTimes \subseteq Nat BY <1>2, <1>3 DEF WakeTimes
<1>5. WakeTimes # {} => a \in Nat /\ \A n \in WakeTimes : a <= n BY <1>4, MinIs
<1>6. WakeTimes = {} => a = None OBVIOUS
<1>7. None \notin Nat BY TasksAssumption
<1>8. ASSUME NEW t \in Candidates PROVE a # None /\ a <= Max({WakeOf(t), now + MAIN_WAKE_MS})
  <2>1. PICK n : n = Max({NextDue, Delay(driving # "idle")}) OBVIOUS
  <2>2. n \in WakeTimes BY <2>1 DEF WakeTimes
  <2>3. PICK m : m = Max({WakeOf(t), now + MAIN_WAKE_MS}) OBVIOUS
  <2>4. m \in Nat BY <1>1, <2>3, NextDueIs, MaxOfTwo
  <2>5. n \in Nat /\ n <= m BY <1>3, <2>1, <2>3
  <2>6. a \in Nat /\ a <= n BY <1>5, <2>2
  <2> QED BY <1>7, <2>3, <2>4, <2>5, <2>6
<1> QED BY <1>5, <1>6, <1>8

\* What armScheduleWake aims at.
TargetMeant ==
    /\ Candidates # {} => ArmTarget \in Nat
    /\ \A t \in Candidates : WakeOf(t) \in Nat /\ ArmTarget <= WakeOf(t)
    /\ Pending > 0 => ArmTarget \in Nat

\* It is not later than any candidate.
LEMMA ArmTargetIs == TimesOK => TargetMeant
<1> SUFFICES ASSUME TimesOK PROVE TargetMeant OBVIOUS
<1> USE Limits
<1> DEFINE S == {NextDue : t \in Candidates} \cup (IF Pending > 0 THEN {now + MAIN_WAKE_MS} ELSE {})
<1>1. now + MAIN_WAKE_MS \in Nat BY DEF TimesOK
<1>2. S \subseteq Nat BY <1>1, NextDueIs
<1>3. /\ Candidates # {} \/ Pending > 0 => S # {}
      /\ Candidates # {} => NextDue \in S
  OBVIOUS
<1> HIDE DEF S
<1>4. S # {} => Min(S) \in Nat /\ \A n \in S : Min(S) <= n BY <1>2, MinIs
<1>5. ArmTarget = Min(S) BY DEF ArmTarget, S
<1>6. ASSUME NEW t \in Candidates PROVE Min(S) <= WakeOf(t)
  <2>1. NextDue \in Nat /\ WakeOf(t) \in Nat /\ NextDue <= WakeOf(t) BY NextDueIs
  <2>2. Min(S) \in Nat /\ Min(S) <= NextDue BY <1>3, <1>4
  <2> QED BY <2>1, <2>2
<1> QED BY <1>3, <1>4, <1>5, <1>6, NextDueIs DEF TargetMeant

\* armScheduleWake leaves a wake for every candidate.
LEMMA ArmStands ==
    ASSUME ScheduleInv, TimesOK', armScheduleWake, UNCHANGED <<now, handler>>
    PROVE  AlarmTypes' /\ WakeStands' /\ WakeComes'
<1> USE Limits
<1>1. /\ Candidates' # {} => ArmTarget' \in Nat
      /\ \A t \in Candidates' : WakeOf(t)' \in Nat /\ ArmTarget' <= WakeOf(t)'
      /\ Pending' > 0 => ArmTarget' \in Nat
  <2>1. TargetMeant' BY ArmTargetIs, PTL
  <2> QED BY <2>1 DEF TargetMeant
<1>2. alarm \in Nat \cup {None} /\ None \notin Nat /\ now \in Nat /\ unwoken' = {} /\ cut' \in BOOLEAN
  BY TasksAssumption DEF ScheduleInv, ScheduleTypeOK, armScheduleWake
<1>3. CASE Candidates' # {} \/ Pending' > 0
  <2>1. PICK target : target = ArmTarget' OBVIOUS
  <2>2. target \in Nat BY <1>1, <1>3, <2>1
  <2>3. alarm' = IF alarm = None \/ target < alarm THEN Max({now + 1, target}) ELSE alarm
    BY <1>3, <2>1 DEF armScheduleWake
  <2>4. Max({now + 1, target}) = IF now + 1 >= target THEN now + 1 ELSE target
    BY <1>2, <2>2, MaxOfTwo
  <2>5. alarm' \in Nat /\ (alarm' <= target \/ alarm' = now + 1) BY <1>2, <2>2, <2>3, <2>4
  <2>6. ASSUME NEW t \in Candidates' PROVE alarm' <= Max({WakeOf(t)', now + MAIN_WAKE_MS})
    <3>1. PICK w \in Nat : w = WakeOf(t)' BY <1>1
    <3>2. target <= w BY <1>1, <2>1, <3>1
    <3>3. Max({w, now + MAIN_WAKE_MS}) = IF w >= now + MAIN_WAKE_MS THEN w ELSE now + MAIN_WAKE_MS
      BY <1>2, MaxOfTwo
    <3>4. alarm' <= Max({w, now + MAIN_WAKE_MS}) BY <1>2, <2>2, <2>5, <3>2, <3>3
    <3> QED BY <3>1, <3>4
  <2> QED BY <1>2, <2>5, <2>6 DEF AlarmTypes, WakeStands, WakeBy, WakeComes
<1>4. CASE ~(Candidates' # {} \/ Pending' > 0)
  <2>1. alarm' = alarm /\ Candidates' = {} BY <1>4 DEF armScheduleWake
  <2> QED BY <1>2, <2>1 DEF AlarmTypes, WakeStands, WakeComes
<1> QED BY <1>3, <1>4

----------------------------------------
(* The steps of the drive and of the queue. *)

StoreTypes ==
    /\ status \in [Tasks -> {"none", "active", "ended"}]
    /\ rule \in [Tasks -> Periods \cup {0}] /\ due \in [Tasks -> Nat]
    /\ history \in [Tasks -> SUBSET [seq : Nat, at : 1..MaxTime]] /\ pruned \in [Tasks -> BOOLEAN]
    /\ retry \in [Sessions -> Nat] /\ now \in 1..MaxTime
    /\ lastKey \in [Tasks -> Nat] /\ count \in [Tasks -> Nat]
QueueTypes ==
    /\ waitingInputs \in [Sessions -> 0..MAIN_QUEUE_LIMIT] /\ Pending <= MAIN_QUEUE_LIMIT
    /\ paused \subseteq Sessions
    /\ running \in Sessions \cup {None} /\ claim \in {"live", "stale", "resumed"}
DriveTypes ==
    /\ driving \in {"idle", "closing", "dispatching", "claiming", "claimed", "running"}
    /\ handler \in {"none", "driving", "waking"} /\ call \in {"none", "input", "drive"}
StoreInv == StoreTypes /\ StoreBounded /\ HistoriesStand /\ KeysFollow

\* The invariant by what the steps touch.
LEMMA ScheduleInvIs ==
    ScheduleInv <=> /\ StoreInv /\ QueueTypes /\ DriveTypes /\ AlarmTypes /\ DriveFollows
                    /\ WakeStands /\ WakeComes
  BY DEF ScheduleInv, ScheduleTypeOK, StoreInv, StoreTypes, QueueTypes, DriveTypes, AlarmTypes

\* The parts after a step make the invariant after it.
LEMMA Together ==
    ASSUME StoreInv', QueueTypes', DriveTypes', AlarmTypes', DriveFollows', WakeStands', WakeComes'
    PROVE  ScheduleInv'
  BY DEF ScheduleInv, ScheduleTypeOK, StoreInv, StoreTypes, QueueTypes, DriveTypes, AlarmTypes

\* What the alarm is computed from is typed.
LEMMA TimesAreTyped == StoreTypes /\ QueueTypes => TimesOK
  BY DEF StoreTypes, QueueTypes, TimesOK

\* A step that leaves the tasks and the clock keeps what is stored.
LEMMA StoreStays ==
    ASSUME StoreInv, UNCHANGED <<taskVars, savedVars, retry, now>> PROVE StoreInv'
<1>1. UNCHANGED <<status, rule, due, history, pruned, retry, now, lastKey, count>>
  BY DEF taskVars, savedVars
<1> QED BY <1>1 DEF StoreInv, StoreTypes, StoreBounded, HistoriesStand, HistoryOK, KeysFollow, TasksIn, ActiveOf

\* Where nothing is queued, unpaused or freed, the queue and the drive's place in it stay.
LEMMA QueueStays ==
    ASSUME QueueTypes, UNCHANGED queueVars PROVE QueueTypes' /\ UNCHANGED <<running, paused>>
  BY DEF QueueTypes, queueVars, Pending

\* scheduleMainWake has all wakes set.
LEMMA MainWakeStands ==
    ASSUME TimesOK, scheduleMainWake, UNCHANGED <<status, due, retry, now, paused>>
    PROVE  AlarmTypes' /\ WakeStands' /\ WakeComes'
<1>1. alarm' = (IF WakeTimes = {} THEN None ELSE Min(WakeTimes)) /\ unwoken' = {} /\ cut' = FALSE
  BY DEF scheduleMainWake
<1>2. /\ alarm' \in Nat \cup {None}
      /\ \A t \in Candidates : alarm' # None /\ alarm' <= Max({WakeOf(t), now + MAIN_WAKE_MS})
  BY <1>1, MainWakeMeant
<1>3. Candidates' = Candidates /\ \A t \in Candidates : WakeOf(t)' = WakeOf(t)
  BY DEF Candidates, TasksIn, WakeOf
<1> QED BY <1>1, <1>2, <1>3 DEF AlarmTypes, WakeStands, WakeComes, WakeBy

\* The alarm of a candidate, or of the recovery wake, is the alarm of a later time.
LEMMA WakeByLater ==
    ASSUME NEW time \in Nat, NEW later \in Nat, time <= later, alarm \in Nat \cup {None}, WakeBy(time)
    PROVE  WakeBy(later)
<1>1. None \notin Nat BY TasksAssumption
<1> QED BY <1>1 DEF WakeBy

\* A step that leaves the alarm and the times of tasks keeps the wakes, when new
\* candidates are of sessions just unpaused.
LEMMA WakesStay ==
    ASSUME AlarmTypes, WakeStands, UNCHANGED <<alarm, now>>, handler # "none" => handler' # "none",
           unwoken \subseteq unwoken',
           \A t \in Candidates' : \/ TaskSession[t] \in unwoken'
                                  \/ t \in Candidates /\ WakeOf(t)' = WakeOf(t)
    PROVE  WakeStands'
  BY DEF WakeStands, WakeBy

\* A step of the drive or the queue that pauses at most.
LEMMA PausesStay ==
    ASSUME AlarmTypes, WakeStands, UNCHANGED <<status, due, retry, alarm, now, unwoken>>,
           handler # "none" => handler' # "none", paused \subseteq paused' PROVE WakeStands'
<1>1. \A t \in Candidates' : t \in Candidates /\ WakeOf(t)' = WakeOf(t)
  BY DEF Candidates, TasksIn, WakeOf
<1> QED BY <1>1, WakesStay

\* A wake that fails keeps the alarm, or is of a handler that is delivered again.
LEMMA CutStands ==
    ASSUME TimesOK, AlarmTypes, WakeStands, WakeIsCut, NEW handling \in BOOLEAN, Redelivered(handling),
           handler # "none" => handling \/ handler' # "none", UNCHANGED <<status, due, retry, now, paused>>
    PROVE  AlarmTypes' /\ WakeStands' /\ WakeComes'
<1>1. now \in Nat /\ None \notin Nat BY TasksAssumption, Limits DEF TimesOK
<1>2. /\ alarm' = IF handling /\ alarm = None THEN now ELSE alarm
      /\ unwoken' = unwoken /\ cut' = (cut \/ unwoken # {})
  BY DEF Redelivered, WakeIsCut
<1>3. AlarmTypes' /\ WakeComes' BY <1>1, <1>2 DEF AlarmTypes, WakeComes
<1>4. Candidates' = Candidates /\ \A t \in Candidates : WakeOf(t)' = WakeOf(t)
  BY DEF Candidates, TasksIn, WakeOf
<1>5. ASSUME NEW time \in Nat, now <= time, WakeBy(time) PROVE WakeBy(time)'
  BY <1>1, <1>2, <1>5 DEF WakeBy, AlarmTypes
<1>6. ASSUME NEW t \in Candidates
      PROVE  /\ Max({WakeOf(t), now + MAIN_WAKE_MS}) \in Nat
             /\ now <= Max({WakeOf(t), now + MAIN_WAKE_MS})
  <2>1. WakeOf(t) \in Nat BY NextDueIs
  <2> QED BY <1>1, <2>1, Limits, MaxOfTwo
<1>7. ASSUME NEW t \in Candidates'
      PROVE  WakeBy(Max({WakeOf(t), now + MAIN_WAKE_MS}))' \/ TaskSession[t] \in unwoken'
  <2>1. t \in Candidates /\ WakeOf(t)' = WakeOf(t) BY <1>4
  <2>2. PICK time \in Nat : time = Max({WakeOf(t), now + MAIN_WAKE_MS}) /\ now <= time BY <1>6, <2>1
  <2>3. WakeBy(time) \/ TaskSession[t] \in unwoken BY <2>1, <2>2 DEF WakeStands
  <2>4. WakeBy(time)' \/ TaskSession[t] \in unwoken BY <1>5, <2>2, <2>3
  <2> QED BY <1>2, <2>1, <2>2, <2>4 DEF WakeBy
<1> QED BY <1>3, <1>7 DEF WakeStands

\* The alarm handler starts a drive, or leaves it to the one under way.
LEMMA AlarmKeeps ==
    ASSUME ScheduleInv, AlarmFires PROVE ScheduleInv'
<1>1. /\ StoreInv /\ QueueTypes /\ DriveTypes /\ AlarmTypes /\ DriveFollows /\ WakeStands /\ WakeComes
  BY ScheduleInvIs
<1>2. StoreInv' /\ QueueTypes' /\ UNCHANGED <<running, paused>>
  BY <1>1, StoreStays, QueueStays DEF AlarmFires
<1>3. alarm' = None /\ handler' \in {"driving", "waking"} /\ UNCHANGED <<call, unwoken, cut>>
  BY DEF AlarmFires
<1>4. DriveTypes' /\ DriveFollows'
  BY <1>1, <1>2, <1>3 DEF AlarmFires, kickMain, DriveTypes, DriveFollows
<1>5. AlarmTypes' /\ WakeStands' /\ WakeComes'
  BY <1>1, <1>3 DEF AlarmTypes, WakeStands, WakeBy, WakeComes, WakeIsComing
<1> QED BY <1>2, <1>4, <1>5, Together

\* The end of a residency frees the claim, and only pauses.
LEMMA FinishTypes ==
    ASSUME QueueTypes, DriveFollows, NEW interrupted \in BOOLEAN, finishResidency(interrupted), running # None
    PROVE  QueueTypes' /\ running' = None /\ paused \subseteq paused' /\ None \notin paused'
<1>1. running \in Sessions /\ running \notin paused /\ None \notin Sessions
  BY TasksAssumption DEF QueueTypes, DriveFollows
<1>2. paused' \subseteq Sessions /\ paused \subseteq paused' BY <1>1 DEF finishResidency, QueueTypes
<1>3. Pending' <= MAIN_QUEUE_LIMIT
  <2>1. Cardinality(QueuedRows(waitingInputs)) \in Nat BY RowsCounted DEF QueueTypes
  <2> QED BY <2>1, Limits DEF Pending, QueueTypes, finishResidency
<1> QED BY <1>1, <1>2, <1>3 DEF QueueTypes, finishResidency

\* A stale claim is closed, or the drive stops before it.
LEMMA CloseKeeps ==
    ASSUME ScheduleInv, CloseStale PROVE ScheduleInv'
<1>1. /\ StoreInv /\ QueueTypes /\ DriveTypes /\ AlarmTypes /\ DriveFollows /\ WakeStands /\ WakeComes
  BY ScheduleInvIs
<1>2. StoreInv' /\ UNCHANGED <<status, due, retry, now, alarm, unwoken, cut, handler>>
  BY <1>1, StoreStays DEF CloseStale, taskVars, alarmVars
<1>3. driving = "closing" /\ running # None BY <1>1 DEF CloseStale, DriveFollows
<1>4. QueueTypes' /\ DriveTypes' /\ DriveFollows' /\ paused \subseteq paused'
      /\ (driving' # "idle" \/ call' # "none")
  <2>1. CASE finishResidency(TRUE) /\ driving' = "dispatching" /\ UNCHANGED call
    <3>1. QueueTypes' /\ running' = None /\ None \notin paused' /\ paused \subseteq paused'
      BY <1>1, <1>3, <2>1, FinishTypes
    <3> QED BY <1>1, <1>2, <2>1, <3>1 DEF DriveTypes, DriveFollows
  <2>2. CASE UNCHANGED queueVars /\ StopDriving
    BY <1>1, <1>2, <2>2, QueueStays DEF StopDriving, DriveTypes, DriveFollows
  <2> QED BY <2>1, <2>2 DEF CloseStale
<1>5. AlarmTypes' /\ WakeStands' /\ WakeComes'
  BY <1>1, <1>2, <1>4, PausesStay DEF AlarmTypes, WakeComes, WakeIsComing
<1> QED BY <1>2, <1>4, <1>5, Together

\* A residency ends and the drive goes on or stops.
LEMMA EndsKeeps ==
    ASSUME ScheduleInv, NEW interrupted \in BOOLEAN, ResidencyEnds(interrupted) PROVE ScheduleInv'
<1>1. /\ StoreInv /\ QueueTypes /\ DriveTypes /\ AlarmTypes /\ DriveFollows /\ WakeStands /\ WakeComes
  BY ScheduleInvIs
<1>2. StoreInv' /\ UNCHANGED <<status, due, retry, now, alarm, unwoken, cut, handler>>
  BY <1>1, StoreStays DEF ResidencyEnds, taskVars, alarmVars
<1>3. driving = "running" /\ running # None /\ finishResidency(interrupted)
  BY <1>1 DEF ResidencyEnds, DriveFollows
<1>4. QueueTypes' /\ running' = None /\ None \notin paused' /\ paused \subseteq paused'
  BY <1>1, <1>3, FinishTypes
<1>5. DriveTypes' /\ DriveFollows' /\ (driving' # "idle" \/ call' # "none")
  BY <1>1, <1>2, <1>4 DEF ResidencyEnds, StopDriving, DriveTypes, DriveFollows
<1>6. AlarmTypes' /\ WakeStands' /\ WakeComes'
  BY <1>1, <1>2, <1>4, <1>5, PausesStay DEF AlarmTypes, WakeComes, WakeIsComing
<1> QED BY <1>2, <1>4, <1>5, <1>6, Together

\* The claim moves one input from its queue to the slot, or the drive stops.
LEMMA ClaimKeeps ==
    ASSUME ScheduleInv, Claim PROVE ScheduleInv'
<1>1. /\ StoreInv /\ QueueTypes /\ DriveTypes /\ AlarmTypes /\ DriveFollows /\ WakeStands /\ WakeComes
  BY ScheduleInvIs
<1>2. StoreInv' /\ UNCHANGED <<status, due, retry, now, alarm, unwoken, cut, handler, paused, claim>>
  BY <1>1, StoreStays DEF Claim, taskVars, alarmVars
<1>3. driving = "claiming" /\ running = None BY <1>1 DEF Claim, DriveFollows
<1>4. QueueTypes' /\ DriveTypes' /\ DriveFollows' /\ (driving' # "idle" \/ call' # "none")
  <2>1. CASE UNCHANGED <<waitingInputs, running>> /\ StopDriving
    BY <1>1, <1>2, <2>1 DEF QueueTypes, Pending, StopDriving, DriveTypes, DriveFollows
  <2>2. ASSUME NEW s \in Sessions \ paused, waitingInputs[s] > 0, running' = s,
               waitingInputs' = [waitingInputs EXCEPT ![s] = @ - 1], driving' = "claimed", UNCHANGED call
        PROVE  QueueTypes' /\ DriveTypes' /\ DriveFollows'
    <3>1. s # None /\ waitingInputs \in [Sessions -> 0..MAIN_QUEUE_LIMIT]
      BY <1>1, TasksAssumption DEF QueueTypes
    <3>2. /\ Cardinality(QueuedRows(waitingInputs)) \in Nat
          /\ Cardinality(QueuedRows(waitingInputs')) = Cardinality(QueuedRows(waitingInputs)) - 1
      BY <2>2, <3>1, RowsCounted, RowTaken
    <3>3. Pending' = Pending BY <1>3, <2>2, <3>1, <3>2 DEF Pending
    <3>4. waitingInputs[s] - 1 \in 0..MAIN_QUEUE_LIMIT BY <2>2, <3>1, Limits
    <3>5. waitingInputs' \in [Sessions -> 0..MAIN_QUEUE_LIMIT] BY <2>2, <3>1, <3>4
    <3> QED BY <1>1, <1>2, <2>2, <3>1, <3>3, <3>5 DEF QueueTypes, DriveTypes, DriveFollows
  <2> QED BY <2>1, <2>2 DEF Claim, StopDriving
<1>5. AlarmTypes' /\ WakeStands' /\ WakeComes'
  BY <1>1, <1>2, <1>4, PausesStay DEF AlarmTypes, WakeComes, WakeIsComing
<1> QED BY <1>2, <1>4, <1>5, Together

\* The wake of a claim, of a drive that has ended, of the handler or of an input is
\* set, or fails.
LEMMA WakesKeep ==
    ASSUME ScheduleInv, Wakes \/ WakeInHandler PROVE ScheduleInv'
<1>1. /\ StoreInv /\ QueueTypes /\ DriveTypes /\ AlarmTypes /\ DriveFollows /\ WakeStands /\ WakeComes
  BY ScheduleInvIs
<1>2. StoreInv' /\ QueueTypes' /\ UNCHANGED <<status, due, retry, now, running, paused>>
  BY <1>1, StoreStays, QueueStays
  DEF Wakes, WakeForInput, WakeForClaim, WakeAfterDrive, WakeInHandler, taskVars
<1>3. DriveTypes' /\ DriveFollows'
  BY <1>1, <1>2 DEF Wakes, WakeForInput, WakeForClaim, WakeAfterDrive, WakeInHandler,
    StopDriving, kickMain, DriveTypes, DriveFollows
<1>4. TimesOK BY <1>1, TimesAreTyped DEF StoreInv
<1>5. CASE scheduleMainWake BY <1>2, <1>3, <1>4, <1>5, MainWakeStands, Together
<1>6. CASE ~scheduleMainWake
  <2>1. WakeIsCut BY <1>6 DEF Wakes, WakeForInput, WakeForClaim, WakeAfterDrive, WakeInHandler
  <2>2. PICK handling \in BOOLEAN :
          Redelivered(handling) /\ (handler # "none" => handling \/ handler' # "none")
    <3>1. ASSUME UNCHANGED <<alarm, handler>> PROVE Redelivered(FALSE) BY <3>1 DEF Redelivered
    <3>2. CASE WakeForInput \/ WakeForClaim BY <1>6, <3>1, <3>2 DEF WakeForInput, WakeForClaim
    <3>3. CASE WakeAfterDrive BY <1>1, <1>6, <3>3 DEF WakeAfterDrive, DriveTypes
    <3>4. CASE WakeInHandler BY <1>6, <3>4 DEF WakeInHandler
    <3> QED BY <3>2, <3>3, <3>4 DEF Wakes
  <2>3. AlarmTypes' /\ WakeStands' /\ WakeComes' BY <1>1, <1>2, <1>4, <2>1, <2>2, CutStands
  <2> QED BY <1>2, <1>3, <2>3, Together
<1> QED BY <1>5, <1>6

\* A message of the user is queued; what it unpauses waits for its wake.
LEMMA InputKeeps ==
    ASSUME ScheduleInv, NEW s \in Sessions, UserInput(s) PROVE ScheduleInv'
<1>1. /\ StoreInv /\ QueueTypes /\ DriveTypes /\ AlarmTypes /\ DriveFollows /\ WakeStands /\ WakeComes
  BY ScheduleInvIs
<1>2. StoreInv' /\ UNCHANGED <<status, due, retry, now, alarm, cut, handler>>
  BY <1>1, StoreStays DEF UserInput, taskVars
<1>3. waitingInputs \in [Sessions -> 0..MAIN_QUEUE_LIMIT] /\ Pending < MAIN_QUEUE_LIMIT
      /\ waitingInputs' = [waitingInputs EXCEPT ![s] = @ + 1]
  <2>1. Cardinality(QueuedRows(waitingInputs)) \in Nat BY <1>1, RowsCounted DEF QueueTypes
  <2> QED BY <1>1, <2>1, Limits DEF QueueTypes, UserInput, Full, Pending
<1>4. /\ Cardinality(QueuedRows(waitingInputs)) \in Nat
      /\ waitingInputs[s] <= Cardinality(QueuedRows(waitingInputs))
      /\ Cardinality(QueuedRows(waitingInputs')) = Cardinality(QueuedRows(waitingInputs)) + 1
  BY <1>3, RowsCounted, RowAdded
<1>5. Pending' = Pending + 1 /\ waitingInputs[s] <= Pending /\ Pending \in Nat
  BY <1>3, <1>4 DEF Pending, UserInput
<1>6. waitingInputs' \in [Sessions -> 0..MAIN_QUEUE_LIMIT] /\ Pending' <= MAIN_QUEUE_LIMIT
  <2>1. waitingInputs[s] + 1 \in 0..MAIN_QUEUE_LIMIT BY <1>3, <1>5, Limits
  <2> QED BY <1>3, <1>5, <2>1, Limits
<1>7. QueueTypes' /\ DriveTypes' /\ DriveFollows'
  BY <1>1, <1>6 DEF QueueTypes, UserInput, DriveTypes, DriveFollows
<1>8. ASSUME NEW t \in Candidates'
      PROVE  TaskSession[t] \in unwoken' \/ (t \in Candidates /\ WakeOf(t)' = WakeOf(t))
  BY <1>2, <1>8, TasksAssumption DEF UserInput, Candidates, TasksIn, WakeOf
<1>9. unwoken' = unwoken \cup (paused \cap {s}) /\ call' = "input" BY DEF UserInput
<1>10. AlarmTypes' /\ WakeStands' /\ WakeComes'
  BY <1>1, <1>2, <1>8, <1>9, WakesStay DEF AlarmTypes, WakeComes, WakeIsComing
<1> QED BY <1>2, <1>7, <1>10, Together

\* A removal may end a pause, and then kicks the drive that sets the wake.
LEMMA RemoveKeeps ==
    ASSUME ScheduleInv, NEW s \in Sessions, RemoveQueued(s) PROVE ScheduleInv'
<1>1. /\ StoreInv /\ QueueTypes /\ DriveTypes /\ AlarmTypes /\ DriveFollows /\ WakeStands /\ WakeComes
  BY ScheduleInvIs
<1>2. StoreInv' /\ UNCHANGED <<status, due, retry, now, alarm, cut, handler, running, claim, call>>
  BY <1>1, StoreStays DEF RemoveQueued, taskVars
<1>3. /\ waitingInputs \in [Sessions -> 0..MAIN_QUEUE_LIMIT] /\ waitingInputs[s] > 0
      /\ waitingInputs' = [waitingInputs EXCEPT ![s] = @ - 1]
  BY <1>1 DEF QueueTypes, RemoveQueued
<1>4. /\ Cardinality(QueuedRows(waitingInputs)) \in Nat
      /\ Cardinality(QueuedRows(waitingInputs')) = Cardinality(QueuedRows(waitingInputs)) - 1
  BY <1>3, RowsCounted, RowTaken
<1>5. waitingInputs' \in [Sessions -> 0..MAIN_QUEUE_LIMIT]
  <2>1. waitingInputs[s] - 1 \in 0..MAIN_QUEUE_LIMIT BY <1>3, Limits
  <2> QED BY <1>3, <2>1
<1>6. Pending' <= MAIN_QUEUE_LIMIT
  <2>1. Pending <= MAIN_QUEUE_LIMIT BY <1>1 DEF QueueTypes
  <2> QED BY <1>2, <1>4, <2>1, Limits DEF Pending
<1>7. paused' \subseteq paused /\ unwoken' = unwoken \cup (paused \ paused') /\ driving' # "idle"
  BY DEF RemoveQueued, kickMain
<1>8. QueueTypes' /\ DriveTypes' /\ DriveFollows'
  BY <1>1, <1>2, <1>5, <1>6, <1>7 DEF RemoveQueued, kickMain, QueueTypes, DriveTypes, DriveFollows
<1>9. ASSUME NEW t \in Candidates'
      PROVE  TaskSession[t] \in unwoken' \/ (t \in Candidates /\ WakeOf(t)' = WakeOf(t))
  BY <1>2, <1>7, <1>9 DEF Candidates, TasksIn, WakeOf
<1>10. AlarmTypes' /\ WakeStands' /\ WakeComes'
  BY <1>1, <1>2, <1>7, <1>9, WakesStay DEF AlarmTypes, QueueTypes, WakeComes, WakeIsComing
<1> QED BY <1>2, <1>8, <1>10, Together

\* A death leaves the alarm, or the delivery of the one that fired.
LEMMA CrashKeeps ==
    ASSUME ScheduleInv, Crash, driving \notin {"dispatching", "claiming"} PROVE ScheduleInv'
<1>1. /\ StoreInv /\ QueueTypes /\ DriveTypes /\ AlarmTypes /\ DriveFollows /\ WakeStands /\ WakeComes
  BY ScheduleInvIs
<1>2. StoreInv' /\ UNCHANGED <<status, due, retry, now, running, paused, waitingInputs>>
  BY <1>1, StoreStays DEF Crash, taskVars
<1>3. QueueTypes' /\ DriveTypes' /\ DriveFollows'
  BY <1>1, <1>2 DEF QueueTypes, Crash, Pending, DriveTypes, DriveFollows
<1>4. TimesOK BY <1>1, TimesAreTyped DEF StoreInv
<1>5. WakeIsCut /\ Redelivered(handler # "none") BY DEF Crash
<1>6. AlarmTypes' /\ WakeStands' /\ WakeComes' BY <1>1, <1>2, <1>4, <1>5, CutStands
<1> QED BY <1>2, <1>3, <1>6, Together

\* Time passes.
LEMMA TickKeeps ==
    ASSUME ScheduleInv, Tick PROVE ScheduleInv'
<1>1. /\ StoreInv /\ QueueTypes /\ DriveTypes /\ AlarmTypes /\ DriveFollows /\ WakeStands /\ WakeComes
  BY ScheduleInvIs
<1>2. /\ now \in 1..MaxTime /\ now' = now + 1 /\ now' \in 1..MaxTime /\ now \in Nat
      /\ UNCHANGED <<status, rule, due, history, pruned, lastKey, count, retry, alarm, unwoken, cut,
                     waitingInputs, paused, running, claim, driving, handler, call>>
  BY <1>1, Limits DEF Tick, StoreInv, StoreTypes, taskVars, savedVars, queueVars, driveVars, alarmVars
<1>3. StoreTypes' /\ StoreBounded'
  BY <1>1, <1>2 DEF StoreInv, StoreTypes, StoreBounded, TasksIn, ActiveOf
<1>4. HistoriesStand'
  <2>1. ASSUME NEW t \in Tasks PROVE HistoryOK(history[t], count[t], pruned[t])'
    <3>1. HistoryOK(history[t], count[t], pruned[t]) BY <1>1 DEF StoreInv, HistoriesStand
    <3>2. \A d \in history[t] : d.at \in Nat BY <1>1, Limits DEF StoreInv, StoreTypes
    <3>3. PICK h, c, period : h = history[t] /\ c = count[t] /\ period = pruned[t] OBVIOUS
    <3>4. PICK a \in 0..c :
            /\ {d.seq : d \in h} = a..(c - 1) /\ Cardinality(h) = c - a
            /\ c > 0 => a < c
            /\ c - a <= RetentionRecords
            /\ period <=> a > 0
            /\ \A d \in h : d.at <= now
            /\ \A d, e \in h : (d.seq = e.seq => d = e) /\ (d.seq < e.seq => d.at <= e.at)
      BY <3>1, <3>3 DEF HistoryOK
    <3>5. \A d \in h : d.at <= now' BY <1>2, <3>2, <3>3, <3>4
    <3>6. HistoryOK(h, c, period)' BY <3>4, <3>5 DEF HistoryOK
    <3> QED BY <1>2, <3>3, <3>6 DEF HistoryOK
  <2> QED BY <2>1 DEF HistoriesStand
<1>5. KeysFollow' BY <1>1, <1>2 DEF StoreInv, StoreTypes, KeysFollow
<1>6. QueueTypes' /\ DriveTypes' /\ DriveFollows' /\ AlarmTypes' /\ WakeComes'
  BY <1>1, <1>2 DEF QueueTypes, DriveTypes, DriveFollows, Pending, AlarmTypes, WakeComes, WakeIsComing
<1>7. WakeStands'
  <2>1. Candidates' = Candidates /\ \A t \in Candidates : WakeOf(t)' = WakeOf(t)
    BY <1>2 DEF Candidates, TasksIn, WakeOf
  <2>2. ASSUME NEW t \in Candidates
        PROVE  WakeBy(Max({WakeOf(t), now + MAIN_WAKE_MS})) => WakeBy(Max({WakeOf(t), now' + MAIN_WAKE_MS}))
    <3>1. WakeOf(t) \in Nat BY <1>1, TimesAreTyped, NextDueIs DEF StoreInv
    <3>2. PICK w, m, n : w = WakeOf(t) /\ m = now + MAIN_WAKE_MS /\ n = now' + MAIN_WAKE_MS OBVIOUS
    <3>3. w \in Nat /\ m \in Nat /\ n \in Nat /\ m <= n BY <1>2, <3>1, <3>2, Limits
    <3>4. Max({w, m}) = (IF w >= m THEN w ELSE m) /\ Max({w, n}) = (IF w >= n THEN w ELSE n)
      BY <3>3, MaxOfTwo
    <3>5. Max({w, m}) \in Nat /\ Max({w, n}) \in Nat /\ Max({w, m}) <= Max({w, n}) BY <3>3, <3>4
    <3>6. WakeBy(Max({w, m})) => WakeBy(Max({w, n})) BY <1>1, <3>5, WakeByLater DEF AlarmTypes
    <3> QED BY <3>2, <3>6
  <2>3. \A t \in Candidates :
          WakeBy(Max({WakeOf(t), now' + MAIN_WAKE_MS})) \/ TaskSession[t] \in unwoken
    BY <1>1, <2>2 DEF WakeStands
  <2> QED BY <1>2, <2>1, <2>3 DEF WakeStands, WakeBy
<1> QED BY <1>3, <1>4, <1>5, <1>6, <1>7, Together DEF StoreInv

----------------------------------------
(* The operations on tasks. *)

\* A task is retimed or created, and the alarm moved forward for it.
LEMMA ArmedKeeps ==
    ASSUME ScheduleInv, StoreInv', armScheduleWake, UNCHANGED <<now, queueVars, driveVars>>
    PROVE  ScheduleInv'
<1>1. /\ StoreInv /\ QueueTypes /\ DriveTypes /\ AlarmTypes /\ DriveFollows /\ WakeStands /\ WakeComes
  BY ScheduleInvIs
<1>2. QueueTypes' /\ DriveTypes' /\ DriveFollows'
  BY <1>1, QueueStays DEF DriveTypes, DriveFollows, driveVars
<1>3. TimesOK' BY <1>2, TimesAreTyped, PTL DEF StoreInv
<1>4. AlarmTypes' /\ WakeStands' /\ WakeComes' BY <1>3, ArmStands DEF driveVars
<1> QED BY <1>2, <1>4, Together

\* A new task is counted among the active ones, and is later than its key.
LEMMA CreateKeeps ==
    ASSUME ScheduleInv, NEW t \in Tasks, NEW period \in Periods \cup {0}, NEW time \in 1..LastInstant,
           Create(t, period, time) PROVE ScheduleInv'
<1>1. StoreInv BY ScheduleInvIs
<1>2. /\ status[t] = "none" /\ time > now /\ Cardinality(TasksIn("active")) < MAX_ACTIVE_SCHEDULES
      /\ status' = [status EXCEPT ![t] = "active"]
      /\ rule' = [rule EXCEPT ![t] = period]
      /\ due' = [due EXCEPT ![t] = time]
      /\ UNCHANGED <<history, pruned, lastKey, count, retry, now>>
  BY DEF Create, FutureRule, savedVars
<1>3. time \in Nat /\ now \in Nat BY <1>1, Limits DEF StoreInv, StoreTypes
<1>4. StoreTypes' BY <1>1, <1>2, <1>3 DEF StoreInv, StoreTypes
<1>5. TasksIn("active")' = TasksIn("active") \cup {t} /\ t \notin TasksIn("active")
  BY <1>1, <1>2 DEF StoreInv, StoreTypes, TasksIn
<1>6. TasksIn("ended")' = TasksIn("ended") BY <1>1, <1>2 DEF StoreInv, StoreTypes, TasksIn
<1>7. StoreBounded'
  <2>1. Cardinality(TasksIn("active") \cup {t}) <= MAX_ACTIVE_SCHEDULES
    <3>1. IsFiniteSet(TasksIn("active")) BY TasksAssumption, FS_Subset DEF TasksIn
    <3>2. Cardinality(TasksIn("active") \cup {t}) = Cardinality(TasksIn("active")) + 1
      BY <1>5, <3>1, FS_AddElement
    <3>3. Cardinality(TasksIn("active")) \in Nat BY <3>1, FS_CardinalityType
    <3> QED BY <1>2, <3>2, <3>3, Limits
  <2>2. \A s \in Sessions : ActiveOf(s) \subseteq ActiveOf(s)' BY <1>5 DEF ActiveOf
  <2> QED BY <1>1, <1>2, <1>5, <1>6, <2>1, <2>2 DEF StoreInv, StoreBounded
<1>8. HistoriesStand' BY <1>1, <1>2 DEF StoreInv, HistoriesStand, HistoryOK
<1>9. KeysFollow' BY <1>1, <1>2, <1>3 DEF StoreInv, StoreTypes, KeysFollow
<1>10. StoreInv' BY <1>4, <1>7, <1>8, <1>9 DEF StoreInv
<1> QED BY <1>10, ArmedKeeps DEF Create

\* A retimed task stays later than its key.
LEMMA UpdateKeeps ==
    ASSUME ScheduleInv, NEW t \in Tasks, NEW period \in Periods \cup {0}, NEW time \in 1..LastInstant,
           Update(t, period, time) PROVE ScheduleInv'
<1>1. StoreInv BY ScheduleInvIs
<1>2. /\ status[t] = "active" /\ time > now
      /\ rule' = [rule EXCEPT ![t] = period]
      /\ due' = [due EXCEPT ![t] = IF period # 0 /\ period = rule[t] THEN @ ELSE time]
      /\ UNCHANGED <<status, history, pruned, lastKey, count, retry, now>>
  BY DEF Update, FutureRule, savedVars
<1>3. time \in Nat /\ now \in Nat BY <1>1, Limits DEF StoreInv, StoreTypes
<1>4. due' \in [Tasks -> Nat] /\ due'[t] \in {due[t], time} /\ \A u \in Tasks : u # t => due'[u] = due[u]
  BY <1>1, <1>2, <1>3 DEF StoreInv, StoreTypes
<1>5. StoreTypes' BY <1>1, <1>2, <1>4 DEF StoreInv, StoreTypes
<1>6. StoreBounded' /\ HistoriesStand'
  BY <1>1, <1>2 DEF StoreInv, StoreBounded, TasksIn, ActiveOf, HistoriesStand, HistoryOK
<1>7. KeysFollow'
  <2>1. \A u \in Tasks : lastKey[u] \in Nat /\ lastKey[u] <= now /\ (status[u] = "active" => lastKey[u] < due[u])
    BY <1>1 DEF StoreInv, StoreTypes, KeysFollow
  <2>2. lastKey[t] < time BY <1>2, <1>3, <2>1
  <2> QED BY <1>2, <1>4, <2>1, <2>2 DEF KeysFollow
<1>8. StoreInv' BY <1>5, <1>6, <1>7 DEF StoreInv
<1> QED BY <1>8, ArmedKeeps DEF Update

\* A task without deliveries has an honest history.
LEMMA NoDeliveries == HistoryOK({}, 0, FALSE)
<1>1. Cardinality({}) = 0 /\ 0 \in 0..0 /\ 0..(0 - 1) = {} BY FS_EmptySet
<1> QED BY <1>1, Limits DEF HistoryOK

\* Tasks of one session are deleted: no wake is lost, and no retry row stays.
LEMMA DeletionKeeps ==
    ASSUME ScheduleInv, NEW s \in Sessions, NEW D \in SUBSET Tasks, \A t \in D : TaskSession[t] = s,
           deleteTasks(D), pruneScheduleRetry(s), UNCHANGED <<alarmVars, now, queueVars, driveVars>>
    PROVE  ScheduleInv'
<1>1. /\ StoreInv /\ QueueTypes /\ DriveTypes /\ AlarmTypes /\ DriveFollows /\ WakeStands /\ WakeComes
  BY ScheduleInvIs
<1>2. /\ \A t \in Tasks : t \in D => /\ status'[t] = "none" /\ history'[t] = {} /\ pruned'[t] = FALSE
                                     /\ rule'[t] = 0 /\ due'[t] = 0 /\ lastKey'[t] = 0 /\ count'[t] = 0
      /\ \A t \in Tasks : t \notin D => /\ status'[t] = status[t] /\ history'[t] = history[t]
                                        /\ pruned'[t] = pruned[t]
                                        /\ rule'[t] = rule[t] /\ due'[t] = due[t] /\ lastKey'[t] = lastKey[t]
                                        /\ count'[t] = count[t]
  BY <1>1 DEF deleteTasks, Cleared, StoreInv, StoreTypes
<1>3. retry' = [retry EXCEPT ![s] = IF ActiveOf(s)' = {} THEN 0 ELSE @] BY DEF pruneScheduleRetry
<1>4. StoreTypes' BY <1>1, <1>3 DEF StoreInv, StoreTypes, deleteTasks, Cleared
<1>5. /\ TasksIn("active")' \subseteq TasksIn("active") /\ TasksIn("ended")' \subseteq TasksIn("ended")
      /\ \A other \in Sessions : other # s => ActiveOf(other)' = ActiveOf(other)
  BY <1>2 DEF TasksIn, ActiveOf
<1>6. StoreBounded'
  <2>1. ASSUME NEW other \in Sessions, retry'[other] # 0 PROVE ActiveOf(other)' # {}
    <3>1. CASE other = s BY <1>1, <1>3, <2>1, <3>1 DEF StoreInv, StoreTypes
    <3>2. CASE other # s BY <1>1, <1>3, <1>5, <2>1, <3>2 DEF StoreInv, StoreTypes, StoreBounded
    <3> QED BY <3>1, <3>2
  <2>2. IsFiniteSet(TasksIn("active")) /\ IsFiniteSet(TasksIn("ended"))
    BY TasksAssumption, FS_Subset DEF TasksIn
  <2>3. /\ Cardinality(TasksIn("active")') <= Cardinality(TasksIn("active"))
        /\ Cardinality(TasksIn("ended")') <= Cardinality(TasksIn("ended"))
    BY <1>5, <2>2, FS_Subset
  <2>4. /\ Cardinality(TasksIn("active")) \in Nat /\ Cardinality(TasksIn("ended")) \in Nat
        /\ Cardinality(TasksIn("active")') \in Nat /\ Cardinality(TasksIn("ended")') \in Nat
    BY <1>5, <2>2, FS_Subset, FS_CardinalityType
  <2>5. Cardinality(TasksIn("active")) <= MAX_ACTIVE_SCHEDULES /\ Cardinality(TasksIn("ended")) <= MAX_ENDED_SCHEDULES
    BY <1>1 DEF StoreInv, StoreBounded
  <2>6. Cardinality(TasksIn("active")') <= MAX_ACTIVE_SCHEDULES /\ Cardinality(TasksIn("ended")') <= MAX_ENDED_SCHEDULES
    BY <2>3, <2>4, <2>5, Limits
  <2> QED BY <2>1, <2>6 DEF StoreBounded
<1>7. HistoriesStand'
  <2> SUFFICES ASSUME NEW t \in Tasks PROVE HistoryOK(history[t], count[t], pruned[t])'
    BY DEF HistoriesStand
  <2>1. CASE t \in D BY <1>2, <2>1, NoDeliveries DEF HistoryOK
  <2>2. CASE t \notin D BY <1>1, <1>2, <2>2 DEF StoreInv, HistoriesStand, HistoryOK
  <2> QED BY <2>1, <2>2
<1>8. KeysFollow' BY <1>1, <1>2, Limits DEF StoreInv, StoreTypes, KeysFollow
<1>9. QueueTypes' /\ DriveTypes' /\ DriveFollows' /\ UNCHANGED <<alarm, unwoken, cut, handler, paused, call, driving>>
  BY <1>1, QueueStays DEF DriveTypes, DriveFollows, queueVars, driveVars, alarmVars
<1>10. AlarmTypes' /\ WakeStands' /\ WakeComes'
  <2>1. ASSUME NEW t \in Candidates' PROVE t \in Candidates /\ WakeOf(t)' = WakeOf(t)
    <3>1. t \in Tasks /\ t \notin D /\ t \in Candidates /\ t \in ActiveOf(TaskSession[t])'
      BY <1>2, <1>9, <2>1 DEF Candidates, TasksIn, ActiveOf
    <3>2. due'[t] = due[t] /\ retry'[TaskSession[t]] = retry[TaskSession[t]]
      BY <1>1, <1>2, <1>3, <3>1 DEF StoreInv, StoreTypes
    <3> QED BY <3>1, <3>2 DEF WakeOf
  <2> QED BY <1>1, <1>9, <2>1, WakesStay DEF AlarmTypes, WakeComes, WakeIsComing
<1>11. StoreInv' BY <1>4, <1>6, <1>7, <1>8 DEF StoreInv
<1> QED BY <1>9, <1>10, <1>11, Together

\* One task is deleted.
LEMMA DeleteKeeps ==
    ASSUME ScheduleInv, NEW t \in Tasks, Delete(t) PROVE ScheduleInv'
<1>1. TaskSession[t] \in Sessions /\ {t} \in SUBSET Tasks /\ \A u \in {t} : TaskSession[u] = TaskSession[t]
  BY TasksAssumption
<1>2. deleteTasks({t}) /\ pruneScheduleRetry(TaskSession[t]) /\ UNCHANGED <<alarmVars, now, queueVars, driveVars>>
  BY DEF Delete
<1> QED BY <1>1, <1>2, DeletionKeeps

\* An archived session loses its active tasks.
LEMMA StopKeeps ==
    ASSUME ScheduleInv, NEW s \in Sessions, SessionStop(s) PROVE ScheduleInv'
<1>1. ActiveOf(s) \in SUBSET Tasks /\ \A u \in ActiveOf(s) : TaskSession[u] = s
  BY DEF ActiveOf, TasksIn
<1>2. deleteTasks(ActiveOf(s)) /\ pruneScheduleRetry(s) /\ UNCHANGED <<alarmVars, now, queueVars, driveVars>>
  BY DEF SessionStop
<1> QED BY <1>1, <1>2, DeletionKeeps

----------------------------------------
(* Delivery. *)

\* What an input delivers is due, active and of its session.
LEMMA GroupsAreDue ==
    ASSUME NEW s \in Sessions, NEW G \in Groups(s)
    PROVE  G \in SUBSET Tasks /\ \A t \in G : t \in Tasks /\ status[t] = "active" /\ TaskSession[t] = s /\ due[t] <= now
<1>1. OneShots(s) \subseteq DueOf(s) BY DEF OneShots
<1>2. G \subseteq DueOf(s) BY <1>1 DEF Groups
<1> QED BY <1>2 DEF DueOf, ActiveOf, TasksIn

\* One more input leaves the queue within its limit.
LEMMA InputFits ==
    ASSUME QueueTypes, ~Full, NEW s \in Sessions, waitingInputs' = [waitingInputs EXCEPT ![s] = @ + 1],
           UNCHANGED <<paused, running, claim>> PROVE QueueTypes'
<1>1. waitingInputs \in [Sessions -> 0..MAIN_QUEUE_LIMIT] BY DEF QueueTypes
<1>2. /\ Cardinality(QueuedRows(waitingInputs)) \in Nat
      /\ waitingInputs[s] <= Cardinality(QueuedRows(waitingInputs))
      /\ Cardinality(QueuedRows(waitingInputs')) = Cardinality(QueuedRows(waitingInputs)) + 1
  BY <1>1, RowsCounted, RowAdded
<1>3. Pending' = Pending + 1 /\ waitingInputs[s] <= Pending /\ Pending \in Nat
  BY <1>1, <1>2 DEF Pending
<1>4. Pending < MAIN_QUEUE_LIMIT BY <1>3, Limits DEF Full
<1>5. waitingInputs[s] + 1 \in 0..MAIN_QUEUE_LIMIT BY <1>1, <1>3, <1>4, Limits
<1>6. waitingInputs' \in [Sessions -> 0..MAIN_QUEUE_LIMIT] /\ Pending' <= MAIN_QUEUE_LIMIT
  BY <1>1, <1>3, <1>4, <1>5, Limits
<1> QED BY <1>6 DEF QueueTypes

\* Among the ended tasks only the newest stay.
LEMMA ExpiryBounds ==
    ASSUME NEW ended \in SUBSET Tasks, NEW last, NEW E \in Expired(ended, last)
    PROVE  E \subseteq ended /\ Cardinality(ended \ E) <= MAX_ENDED_SCHEDULES
<1>1. E \subseteq ended /\ Cardinality(E) = Max({0, Cardinality(ended) - MAX_ENDED_SCHEDULES})
  BY DEF Expired
<1>2. IsFiniteSet(ended) /\ IsFiniteSet(E) BY <1>1, TasksAssumption, FS_Subset
<1>3. Cardinality(ended) \in Nat /\ Cardinality(E) \in Nat BY <1>2, FS_CardinalityType
<1>4. ended \cap E = E BY <1>1
<1>5. Cardinality(ended \ E) = Cardinality(ended) - Cardinality(ended \cap E) BY <1>2, FS_Difference
<1>6. PICK n \in Nat : n = Cardinality(ended) BY <1>3
<1>7. n - MAX_ENDED_SCHEDULES \in Int BY Limits
<1>8. Max({0, n - MAX_ENDED_SCHEDULES}) = IF 0 >= n - MAX_ENDED_SCHEDULES THEN 0 ELSE n - MAX_ENDED_SCHEDULES
  BY <1>7, MaxOfTwo
<1>9. Cardinality(E) = IF 0 >= n - MAX_ENDED_SCHEDULES THEN 0 ELSE n - MAX_ENDED_SCHEDULES
  BY <1>1, <1>6, <1>8
<1>10. Cardinality(ended \ E) = n - Cardinality(E) BY <1>4, <1>5, <1>6
<1>11. n - Cardinality(E) <= MAX_ENDED_SCHEDULES BY <1>9, Limits
<1> QED BY <1>1, <1>10, <1>11

\* A delivery saves itself, ends or moves on its tasks, and keeps the bounds.
LEMMA DeliverKeeps ==
    ASSUME ScheduleInv, NEW s \in Sessions, NEW G \in Groups(s), Deliver(s, G),
           retry' = [retry EXCEPT ![s] = 0], UNCHANGED now
    PROVE  StoreInv' /\ waitingInputs' = [waitingInputs EXCEPT ![s] = @ + 1]
<1> DEFINE goesOn == {t \in G : rule[t] # 0 /\ NextOccurrence(t) <= LastInstant}
           ended  == TasksIn("ended") \cup (G \ goesOn)
           target == [t \in Tasks |-> IF t \in goesOn THEN NextOccurrence(t) ELSE due[t]]
<1>1. PICK first \in Firsts(G) : \E E \in Expired(ended, target) :
            /\ KeyIsNew(first)
            /\ waitingInputs' = [waitingInputs EXCEPT ![s] = @ + 1]
            /\ status' = [t \in Tasks |-> CASE t \in E -> "none"
                                            [] t \in ended \ E -> "ended"
                                            [] OTHER -> status[t]]
            /\ rule' = Cleared(rule, E) /\ due' = Cleared(target, E)
            /\ history' = [t \in Tasks |-> CASE t \in E -> {} [] t \in G \ E -> Kept(t) [] OTHER -> history[t]]
            /\ pruned' = [t \in Tasks |-> /\ t \notin E
                                          /\ pruned[t] \/ (t \in G /\ Kept(t) # Saved(t))]
            /\ lastKey' = Cleared([lastKey EXCEPT ![first] = due[first]], E)
            /\ count' = Cleared([t \in Tasks |-> count[t] + (IF t \in G THEN 1 ELSE 0)], E)
  BY DEF Deliver
<1>2. PICK E \in Expired(ended, target) :
            /\ waitingInputs' = [waitingInputs EXCEPT ![s] = @ + 1]
            /\ status' = [t \in Tasks |-> CASE t \in E -> "none"
                                            [] t \in ended \ E -> "ended"
                                            [] OTHER -> status[t]]
            /\ rule' = Cleared(rule, E) /\ due' = Cleared(target, E)
            /\ history' = [t \in Tasks |-> CASE t \in E -> {} [] t \in G \ E -> Kept(t) [] OTHER -> history[t]]
            /\ pruned' = [t \in Tasks |-> /\ t \notin E
                                          /\ pruned[t] \/ (t \in G /\ Kept(t) # Saved(t))]
            /\ lastKey' = Cleared([lastKey EXCEPT ![first] = due[first]], E)
            /\ count' = Cleared([t \in Tasks |-> count[t] + (IF t \in G THEN 1 ELSE 0)], E)
  BY <1>1
<1>3. ScheduleTypeOK /\ StoreInv /\ StoreTypes /\ StoreBounded /\ HistoriesStand /\ KeysFollow
  BY ScheduleInvIs DEF ScheduleInv, StoreInv
<1>4. /\ G \in SUBSET Tasks
      /\ \A t \in G : t \in Tasks /\ status[t] = "active" /\ TaskSession[t] = s /\ due[t] <= now
  BY GroupsAreDue
<1>5. first \in G BY DEF Firsts
<1>6. \A t \in goesOn : t \in G /\ target[t] \in Nat /\ target[t] > now
  <2> SUFFICES ASSUME NEW t \in goesOn PROVE t \in G /\ target[t] \in Nat /\ target[t] > now OBVIOUS
  <2>1. t \in G /\ t \in Tasks /\ rule[t] # 0 /\ target[t] = NextOccurrence(t) BY <1>4
  <2> QED BY <1>3, <2>1, OccurrenceIsLater
<1>7. \A t \in Tasks \ goesOn : target[t] = due[t] OBVIOUS
<1>8. ended \in SUBSET Tasks /\ \A t \in ended : status[t] = "ended" \/ (t \in G /\ t \notin goesOn)
  BY <1>4 DEF TasksIn
<1>9. target \in [Tasks -> Nat]
  <2>1. \A t \in Tasks : target[t] \in Nat BY <1>3, <1>6, <1>7 DEF StoreTypes
  <2>2. DOMAIN target = Tasks /\ target = [t \in Tasks |-> target[t]] OBVIOUS
  <2> HIDE DEF target
  <2> QED BY <2>1, <2>2
<1>10. \A t \in G : t \in goesOn \/ t \in ended OBVIOUS
<1>11. TasksIn("ended") \subseteq ended OBVIOUS
<1> HIDE DEF goesOn, ended, target
<1>12. E \subseteq ended /\ E \subseteq Tasks /\ Cardinality(ended \ E) <= MAX_ENDED_SCHEDULES
  BY <1>8, ExpiryBounds
<1>13. /\ \A t \in E : /\ status'[t] = "none" /\ rule'[t] = 0 /\ due'[t] = 0 /\ history'[t] = {}
                       /\ pruned'[t] = FALSE /\ lastKey'[t] = 0 /\ count'[t] = 0
       /\ \A t \in Tasks \ E : /\ status'[t] = (IF t \in ended THEN "ended" ELSE status[t])
                               /\ rule'[t] = rule[t] /\ due'[t] = target[t]
                               /\ history'[t] = (IF t \in G THEN Kept(t) ELSE history[t])
                               /\ pruned'[t] = (pruned[t] \/ (t \in G /\ Kept(t) # Saved(t)))
                               /\ lastKey'[t] = (IF t = first THEN due[first] ELSE lastKey[t])
                               /\ count'[t] = count[t] + (IF t \in G THEN 1 ELSE 0)
  BY <1>2, <1>3, <1>4, <1>12 DEF StoreTypes, Cleared
<1>14. \A t \in G : /\ Kept(t) \in SUBSET [seq : Nat, at : 1..MaxTime]
                    /\ HistoryOK(Kept(t), count[t] + 1, pruned[t] \/ Kept(t) # Saved(t))
  <2> SUFFICES ASSUME NEW t \in G
               PROVE  /\ Kept(t) \in SUBSET [seq : Nat, at : 1..MaxTime]
                      /\ HistoryOK(Kept(t), count[t] + 1, pruned[t] \/ Kept(t) # Saved(t))
    OBVIOUS
  <2>1. t \in Tasks /\ HistoryOK(history[t], count[t], pruned[t]) BY <1>3, <1>4 DEF HistoriesStand
  <2> QED BY <1>3, <2>1, DeliverySaved
<1>15. StoreTypes'
  <2>1. /\ status' \in [Tasks -> {"none", "active", "ended"}]
        /\ rule' \in [Tasks -> Periods \cup {0}]
    BY <1>2, <1>3 DEF StoreTypes, Cleared
  <2>2. due' \in [Tasks -> Nat] BY <1>2, <1>9 DEF Cleared
  <2>3. history' \in [Tasks -> SUBSET [seq : Nat, at : 1..MaxTime]]
    BY <1>2, <1>3, <1>14 DEF StoreTypes
  <2>4. pruned' \in [Tasks -> BOOLEAN] /\ retry' \in [Sessions -> Nat] BY <1>2, <1>3 DEF StoreTypes
  <2>5. lastKey' \in [Tasks -> Nat] /\ count' \in [Tasks -> Nat]
    BY <1>2, <1>3, <1>4, <1>5 DEF StoreTypes, Cleared
  <2> QED BY <1>3, <2>1, <2>2, <2>3, <2>4, <2>5 DEF StoreTypes
<1>16. StoreBounded'
  <2>1. TasksIn("active")' \subseteq TasksIn("active") /\ TasksIn("ended")' = ended \ E
    BY <1>8, <1>11, <1>12, <1>13 DEF TasksIn
  <2>2. Cardinality(TasksIn("active")') <= MAX_ACTIVE_SCHEDULES
    <3>1. IsFiniteSet(TasksIn("active")) BY TasksAssumption, FS_Subset DEF TasksIn
    <3>2. Cardinality(TasksIn("active")') <= Cardinality(TasksIn("active")) /\ IsFiniteSet(TasksIn("active")')
      BY <2>1, <3>1, FS_Subset
    <3>3. Cardinality(TasksIn("active")) \in Nat /\ Cardinality(TasksIn("active")') \in Nat
      BY <3>1, <3>2, FS_CardinalityType
    <3> QED BY <1>3, <3>2, <3>3, Limits DEF StoreBounded
  <2>3. ASSUME NEW other \in Sessions, retry'[other] # 0 PROVE ActiveOf(other)' # {}
    <3>1. other # s /\ retry[other] # 0 BY <1>3, <2>3 DEF StoreTypes
    <3>2. PICK u \in ActiveOf(other) : TRUE BY <1>3, <3>1 DEF StoreBounded
    <3>3. u \in Tasks /\ status[u] = "active" /\ TaskSession[u] = other
      BY <3>2 DEF ActiveOf, TasksIn
    <3>4. u \notin ended BY <1>4, <1>8, <3>1, <3>3
    <3>5. status'[u] = "active" BY <1>12, <1>13, <3>3, <3>4
    <3> QED BY <3>3, <3>5 DEF ActiveOf, TasksIn
  <2> QED BY <1>12, <2>1, <2>2, <2>3 DEF StoreBounded
<1>17. HistoriesStand'
  <2> SUFFICES ASSUME NEW t \in Tasks PROVE HistoryOK(history[t], count[t], pruned[t])'
    BY DEF HistoriesStand
  <2>1. CASE t \in E BY <1>13, <2>1, NoDeliveries DEF HistoryOK
  <2>2. CASE t \notin E /\ t \in G
    <3>1. history'[t] = Kept(t) /\ count'[t] = count[t] + 1 /\ pruned'[t] = (pruned[t] \/ Kept(t) # Saved(t))
      BY <1>13, <2>2
    <3>2. PICK h, c, period : h = Kept(t) /\ c = count[t] + 1 /\ period = (pruned[t] \/ Kept(t) # Saved(t))
      OBVIOUS
    <3>3. HistoryOK(h, c, period) /\ history'[t] = h /\ count'[t] = c /\ pruned'[t] = period
      BY <1>14, <2>2, <3>1, <3>2
    <3> QED BY <3>3 DEF HistoryOK
  <2>3. CASE t \notin E /\ t \notin G
    <3>1. history'[t] = history[t] /\ count'[t] = count[t] /\ pruned'[t] = pruned[t]
      BY <1>3, <1>13, <2>3 DEF StoreTypes
    <3> QED BY <1>3, <3>1 DEF HistoriesStand, HistoryOK
  <2> QED BY <2>1, <2>2, <2>3
<1>18. KeysFollow'
  <2> SUFFICES ASSUME NEW t \in Tasks PROVE lastKey'[t] <= now /\ (status'[t] = "active" => lastKey'[t] < due'[t])
    BY DEF KeysFollow
  <2>1. now \in Nat /\ lastKey[t] \in Nat /\ due[t] \in Nat /\ lastKey[t] <= now
    BY <1>3, Limits DEF StoreTypes, KeysFollow
  <2>2. CASE t \in E BY <1>13, <2>1, <2>2
  <2>3. CASE t \notin E /\ t \in G
    <3>1. lastKey'[t] \in {due[t], lastKey[t]} /\ due[t] <= now BY <1>4, <1>13, <2>3
    <3>2. CASE t \in goesOn BY <1>6, <1>13, <2>1, <2>3, <3>1, <3>2
    <3>3. CASE t \in ended BY <1>13, <2>1, <2>3, <3>1, <3>3
    <3> QED BY <1>10, <2>3, <3>2, <3>3
  <2>4. CASE t \notin E /\ t \notin G
    <3>1. lastKey'[t] = lastKey[t] /\ due'[t] = due[t] BY <1>5, <1>6, <1>7, <1>13, <2>4
    <3>2. status'[t] = "active" => status[t] = "active" BY <1>13, <2>4
    <3> QED BY <1>3, <2>1, <3>1, <3>2 DEF KeysFollow
  <2> QED BY <2>2, <2>3, <2>4
<1> QED BY <1>2, <1>15, <1>16, <1>17, <1>18 DEF StoreInv

\* A delivery starts and moves forward no task.
LEMMA DeliveryDefers ==
    ASSUME ScheduleInv, NEW s \in Sessions, \E G \in Groups(s) : Deliver(s, G),
           NEW u \in TasksIn("active")' PROVE u \in TasksIn("active") /\ due[u] <= due'[u]
<1>1. PICK G \in Groups(s) : Deliver(s, G) OBVIOUS
<1> DEFINE goesOn == {t \in G : rule[t] # 0 /\ NextOccurrence(t) <= LastInstant}
           ended  == TasksIn("ended") \cup (G \ goesOn)
           target == [t \in Tasks |-> IF t \in goesOn THEN NextOccurrence(t) ELSE due[t]]
<1>2. PICK E \in Expired(ended, target) :
            /\ status' = [t \in Tasks |-> CASE t \in E -> "none"
                                            [] t \in ended \ E -> "ended"
                                            [] OTHER -> status[t]]
            /\ due' = Cleared(target, E)
  BY <1>1 DEF Deliver
<1>3. u \in Tasks /\ status'[u] = "active" BY DEF TasksIn
<1>4. u \notin E /\ status[u] = "active" /\ due'[u] = target[u] BY <1>2, <1>3 DEF Cleared
<1>5. ScheduleTypeOK /\ due[u] \in Nat /\ now \in Nat
  BY <1>3, Limits DEF ScheduleInv, ScheduleTypeOK
<1>6. u \in G => due[u] <= now BY <1>1, GroupsAreDue
<1>7. u \in goesOn => due[u] <= NextOccurrence(u) BY <1>3, <1>5, <1>6, OccurrenceIsLater
<1> QED BY <1>3, <1>4, <1>5, <1>7 DEF TasksIn

\* After it, and after a retry row, the alarm is still not too late.
LEMMA DispatchStands ==
    ASSUME ScheduleInv, StoreInv', NEW t \in Candidates, WakeOf(t) = NextDue, NextDue <= now,
           NEW time, retry' = [retry EXCEPT ![TaskSession[t]] = time],
           \A u \in TasksIn("active")' : u \in TasksIn("active") /\ due[u] <= due'[u],
           UNCHANGED <<alarm, now, unwoken, handler, paused>>
    PROVE  WakeStands'
<1> SUFFICES ASSUME NEW u \in Candidates'
             PROVE  WakeBy(Max({WakeOf(u), now + MAIN_WAKE_MS}))' \/ TaskSession[u] \in unwoken'
  BY DEF WakeStands
<1>1. /\ StoreInv /\ QueueTypes /\ DriveTypes /\ AlarmTypes /\ DriveFollows /\ WakeStands /\ WakeComes
  BY ScheduleInvIs
<1>2. u \in Candidates /\ due[u] <= due'[u] /\ u \in Tasks /\ TaskSession[u] \in Sessions /\ TaskSession[t] \in Sessions
  BY TasksAssumption DEF Candidates, TasksIn
<1>3. PICK d, r, e, f, m :
        /\ d = due[u] /\ r = retry[TaskSession[u]] /\ e = due'[u] /\ f = retry'[TaskSession[u]]
        /\ m = now + MAIN_WAKE_MS
  OBVIOUS
<1>4. d \in Nat /\ r \in Nat /\ e \in Nat /\ f \in Nat /\ m \in Nat /\ now \in Nat /\ now <= m /\ d <= e
  BY <1>1, <1>2, <1>3, Limits DEF StoreInv, StoreTypes
<1>5. r = f \/ r <= now
  <2>1. CASE TaskSession[u] # TaskSession[t] BY <1>1, <1>2, <1>3, <2>1 DEF StoreInv, StoreTypes
  <2>2. CASE TaskSession[u] = TaskSession[t]
    <3>1. due[t] \in Nat /\ t \in Tasks BY <1>1 DEF Candidates, TasksIn, StoreInv, StoreTypes
    <3>2. WakeOf(t) = IF due[t] >= r THEN due[t] ELSE r
      BY <1>3, <1>4, <2>2, <3>1, MaxOfTwo DEF WakeOf
    <3> QED BY <1>4, <3>1, <3>2
  <2> QED BY <2>1, <2>2
<1>6. /\ WakeOf(u) = (IF d >= r THEN d ELSE r) /\ WakeOf(u)' = (IF e >= f THEN e ELSE f)
  <2>1. Max({d, r}) = (IF d >= r THEN d ELSE r) /\ Max({e, f}) = (IF e >= f THEN e ELSE f)
    BY <1>4, MaxOfTwo
  <2> QED BY <1>3, <2>1 DEF WakeOf
<1>7. PICK w \in Nat, x \in Nat : w = WakeOf(u) /\ x = WakeOf(u)' BY <1>4, <1>6
<1>8. Max({w, m}) = (IF w >= m THEN w ELSE m) /\ Max({x, m}) = (IF x >= m THEN x ELSE m)
  BY <1>4, <1>7, MaxOfTwo
<1>9. Max({w, m}) \in Nat /\ Max({x, m}) \in Nat /\ Max({w, m}) <= Max({x, m})
  BY <1>4, <1>5, <1>6, <1>7, <1>8
<1>10. WakeBy(Max({w, m})) \/ TaskSession[u] \in unwoken BY <1>1, <1>2, <1>3, <1>7 DEF WakeStands
<1>11. WakeBy(Max({x, m})) \/ TaskSession[u] \in unwoken
  BY <1>1, <1>9, <1>10, WakeByLater DEF AlarmTypes
<1> QED BY <1>3, <1>7, <1>11 DEF WakeBy

\* The drive's reminder block delivers, writes the retry row, or finds nothing due.
LEMMA DispatchKeeps ==
    ASSUME ScheduleInv, DispatchDue PROVE ScheduleInv'
<1>1. /\ StoreInv /\ QueueTypes /\ DriveTypes /\ AlarmTypes /\ DriveFollows /\ WakeStands /\ WakeComes
  BY ScheduleInvIs
<1>2. /\ driving = "dispatching" /\ driving' = "claiming" /\ dispatchDueSchedules
      /\ UNCHANGED <<alarm, unwoken, cut, now, paused, running, claim, handler, call>>
  BY DEF DispatchDue, alarmVars
<1>3. DriveTypes' /\ DriveFollows' /\ AlarmTypes' /\ WakeComes'
  BY <1>1, <1>2 DEF DriveTypes, DriveFollows, AlarmTypes, WakeComes, WakeIsComing
<1>4. CASE UNCHANGED <<taskVars, savedVars, retry, waitingInputs>>
  <2>1. StoreInv' BY <1>1, <1>2, <1>4, StoreStays
  <2>2. QueueTypes' BY <1>1, <1>2, <1>4 DEF QueueTypes, Pending
  <2>3. WakeStands' BY <1>1, <1>2, <1>4, PausesStay DEF taskVars
  <2> QED BY <1>3, <2>1, <2>2, <2>3, Together
<1>5. ASSUME NEW t \in Candidates, WakeOf(t) = NextDue, NextDue <= now, ~Full, \E G \in Groups(TaskSession[t]) : Deliver(TaskSession[t], G),
             retry' = [retry EXCEPT ![TaskSession[t]] = 0] PROVE ScheduleInv'
  <2>1. TaskSession[t] \in Sessions BY TasksAssumption DEF Candidates, TasksIn
  <2>2. StoreInv' /\ waitingInputs' = [waitingInputs EXCEPT ![TaskSession[t]] = @ + 1]
    BY <1>2, <1>5, <2>1, DeliverKeeps
  <2>3. QueueTypes' BY <1>1, <1>2, <1>5, <2>1, <2>2, InputFits
  <2>4. ASSUME NEW u \in TasksIn("active")' PROVE u \in TasksIn("active") /\ due[u] <= due'[u]
    BY <1>5, <2>1, <2>4, DeliveryDefers
  <2>5. WakeStands' BY <1>1, <1>2, <1>5, <2>2, <2>4, DispatchStands
  <2> QED BY <1>3, <2>2, <2>3, <2>5, Together
<1>6. ASSUME NEW t \in Candidates, WakeOf(t) = NextDue, NextDue <= now,
             retry' = [retry EXCEPT ![TaskSession[t]] = now + MAIN_WAKE_MS],
             UNCHANGED <<taskVars, savedVars, waitingInputs>>
      PROVE  ScheduleInv'
  <2>1. t \in ActiveOf(TaskSession[t]) BY DEF Candidates, ActiveOf
  <2>2. now + MAIN_WAKE_MS \in Nat BY <1>1, Limits DEF StoreInv, StoreTypes
  <2>3. UNCHANGED <<status, rule, due, history, pruned, lastKey, count, now>>
    BY <1>2, <1>6 DEF taskVars, savedVars
  <2>4. StoreTypes' BY <1>1, <1>6, <2>2, <2>3 DEF StoreInv, StoreTypes
  <2>5. StoreBounded'
    <3>1. \A other \in Sessions : ActiveOf(other)' = ActiveOf(other) /\ (other # TaskSession[t] => retry'[other] = retry[other])
      BY <1>1, <1>6, <2>3 DEF StoreInv, StoreTypes, ActiveOf, TasksIn
    <3>2. TasksIn("active")' = TasksIn("active") /\ TasksIn("ended")' = TasksIn("ended")
      BY <2>3 DEF TasksIn
    <3> QED BY <1>1, <2>1, <3>1, <3>2 DEF StoreInv, StoreBounded
  <2>6. HistoriesStand' /\ KeysFollow'
    BY <1>1, <2>3 DEF StoreInv, HistoriesStand, HistoryOK, KeysFollow
  <2>7. QueueTypes' BY <1>1, <1>2, <1>6 DEF QueueTypes, Pending
  <2>8. StoreInv' BY <2>4, <2>5, <2>6 DEF StoreInv
  <2>9. \A u \in TasksIn("active")' : u \in TasksIn("active") /\ due[u] <= due'[u]
    BY <1>1, <2>3 DEF TasksIn, StoreInv, StoreTypes
  <2>10. WakeStands' BY <1>1, <1>2, <1>6, <2>2, <2>8, <2>9, DispatchStands
  <2> QED BY <1>3, <2>7, <2>8, <2>10, Together
<1>7. Candidates # {} => NextDue \in Nat /\ now \in Nat
  BY <1>1, TimesAreTyped, NextDueIs, Limits DEF StoreInv, StoreTypes
<1>8. Candidates # {} /\ ~(NextDue > now) => NextDue <= now BY <1>7
<1>9. ASSUME ~(Candidates = {} \/ NextDue > now) PROVE ScheduleInv'
  <2>1. NextDue <= now BY <1>8, <1>9
  <2>2. PICK t \in Candidates : WakeOf(t) = NextDue /\
           \/ /\ ~Full
              /\ \E G \in Groups(TaskSession[t]) : Deliver(TaskSession[t], G)
              /\ retry' = [retry EXCEPT ![TaskSession[t]] = 0]
           \/ /\ retry' = [retry EXCEPT ![TaskSession[t]] = now + MAIN_WAKE_MS]
              /\ UNCHANGED <<taskVars, savedVars, waitingInputs>>
    BY <1>2, <1>9 DEF dispatchDueSchedules
  <2> QED BY <1>5, <1>6, <2>1, <2>2
<1> QED BY <1>2, <1>4, <1>9 DEF dispatchDueSchedules

----------------------------------------
(* The invariant and the theorems. *)

\* Nothing is stored or queued at the start.
LEMMA ScheduleInvInit == ScheduleInit => ScheduleInv
<1> SUFFICES ASSUME ScheduleInit PROVE ScheduleInv OBVIOUS
<1> USE Limits
<1>1. QueuedRows(waitingInputs) = {} BY DEF QueuedRows, ScheduleInit
<1>2. Pending = 0 BY <1>1, FS_EmptySet DEF Pending, ScheduleInit
<1>3. QueueTypes /\ DriveTypes /\ AlarmTypes
  <2>1. waitingInputs \in [Sessions -> 0..MAIN_QUEUE_LIMIT] BY DEF ScheduleInit
  <2>2. paused \subseteq Sessions /\ running \in Sessions \cup {None} /\ claim \in {"live", "stale", "resumed"}
    BY DEF ScheduleInit
  <2>3. DriveTypes /\ AlarmTypes BY DEF ScheduleInit, DriveTypes, AlarmTypes
  <2> QED BY <1>2, <2>1, <2>2, <2>3 DEF QueueTypes
<1>4. TasksIn("active") = {} /\ TasksIn("ended") = {} /\ Candidates = {}
  BY DEF ScheduleInit, TasksIn, Candidates
<1>5. DriveFollows /\ WakeStands /\ WakeComes
  BY <1>4 DEF ScheduleInit, DriveFollows, WakeStands, WakeComes
<1>6. StoreTypes BY DEF ScheduleInit, StoreTypes
<1>7. StoreBounded BY <1>4, FS_EmptySet DEF ScheduleInit, StoreBounded
<1>8. HistoriesStand /\ KeysFollow
  <2>1. ASSUME NEW t \in Tasks
        PROVE  /\ history[t] = {} /\ count[t] = 0 /\ pruned[t] = FALSE
               /\ lastKey[t] = 0 /\ now = 1 /\ status[t] = "none"
    BY DEF ScheduleInit
  <2>2. HistoriesStand BY <2>1, NoDeliveries DEF HistoriesStand
  <2>3. ASSUME NEW t \in Tasks PROVE lastKey[t] <= now /\ status[t] # "active"
    <3>1. lastKey[t] = 0 /\ now = 1 /\ status[t] = "none" BY <2>1
    <3> QED BY <3>1
  <2> QED BY <2>2, <2>3 DEF KeysFollow
<1> QED BY <1>3, <1>5, <1>6, <1>7, <1>8, ScheduleInvIs DEF StoreInv

\* Every step keeps it.
LEMMA ScheduleInvStep == ScheduleInv /\ [ScheduleNext]_scheduleVars => ScheduleInv'
<1> SUFFICES ASSUME ScheduleInv, [ScheduleNext]_scheduleVars PROVE ScheduleInv' OBVIOUS
<1>1. CASE UNCHANGED scheduleVars
  <2>1. /\ StoreInv /\ QueueTypes /\ DriveTypes /\ AlarmTypes /\ DriveFollows /\ WakeStands /\ WakeComes
    BY ScheduleInvIs
  <2>2. StoreInv' /\ QueueTypes' BY <1>1, <2>1, StoreStays, QueueStays DEF scheduleVars
  <2>3. UNCHANGED <<status, due, retry, alarm, unwoken, cut, now, paused, running, driving, handler, call>>
    BY <1>1 DEF scheduleVars, taskVars, queueVars, driveVars, alarmVars
  <2>4. DriveTypes' /\ DriveFollows' /\ AlarmTypes' /\ WakeComes' /\ WakeStands'
    BY <2>1, <2>3, PausesStay DEF DriveTypes, DriveFollows, AlarmTypes, WakeComes, WakeIsComing
  <2> QED BY <2>2, <2>4, Together
<1>2. CASE DispatchDue BY <1>2, DispatchKeeps
<1>3. CASE Claim BY <1>3, ClaimKeeps
<1>4. ASSUME Operations PROVE ScheduleInv'
  <2>1. ASSUME NEW t \in Tasks, Delete(t) PROVE ScheduleInv' BY <2>1, DeleteKeeps
  <2>2. ASSUME NEW t \in Tasks, NEW period \in Periods \cup {0}, NEW time \in 1..LastInstant,
               Create(t, period, time) \/ Update(t, period, time)
        PROVE  ScheduleInv'
    BY <2>2, CreateKeeps, UpdateKeeps
  <2>3. ASSUME NEW s \in Sessions, SessionStop(s) \/ UserInput(s) \/ RemoveQueued(s) PROVE ScheduleInv'
    BY <2>3, StopKeeps, InputKeeps, RemoveKeeps
  <2> QED BY <1>4, <2>1, <2>2, <2>3 DEF Operations
<1>5. ASSUME \/ AlarmFires \/ CloseStale \/ Tick \/ Wakes \/ WakeInHandler
             \/ driving \notin {"dispatching", "claiming"} /\ Crash
      PROVE  ScheduleInv'
  BY <1>5, AlarmKeeps, CloseKeeps, CrashKeeps, TickKeeps, WakesKeep
<1>6. ASSUME NEW interrupted \in BOOLEAN, ResidencyEnds(interrupted) PROVE ScheduleInv'
  BY <1>6, EndsKeeps
<1> QED BY <1>1, <1>2, <1>3, <1>4, <1>5, <1>6 DEF ScheduleNext

\* The inductive invariant holds.
THEOREM ScheduleInvariant == ScheduleSpec => []ScheduleInv
  BY ScheduleInvInit, ScheduleInvStep, PTL DEF ScheduleSpec

\* What is proved of the history is what a page of it says.
LEMMA HistoriesAreHonest == HistoriesStand /\ StoreTypes => HistoryHonest
<1> SUFFICES ASSUME HistoriesStand, StoreTypes, NEW t \in Tasks
             PROVE  /\ {d.seq : d \in history[t]} = (count[t] - Cardinality(history[t]))..(count[t] - 1)
                    /\ Cardinality(history[t]) <= RetentionRecords
                    /\ pruned[t] <=> Cardinality(history[t]) < count[t]
  BY DEF HistoryHonest
<1>1. count[t] \in Nat BY DEF StoreTypes
<1>2. PICK a \in 0..count[t] :
        /\ {d.seq : d \in history[t]} = a..(count[t] - 1) /\ Cardinality(history[t]) = count[t] - a
        /\ count[t] - a <= RetentionRecords
        /\ pruned[t] <=> a > 0
  BY DEF HistoriesStand, HistoryOK
<1>3. a \in Nat /\ count[t] - Cardinality(history[t]) = a BY <1>1, <1>2
<1>4. Cardinality(history[t]) < count[t] <=> a > 0 BY <1>1, <1>2, <1>3
<1> QED BY <1>2, <1>3, <1>4

\* Reminders stay bounded and deliverable, nothing due is forgotten and the
\* delivery history is honest, for any tasks, rules and limits
\* (schedule-store.ts).
THEOREM RemindersCorrect == ScheduleSpec => []RemindersHold
<1>1. ScheduleInv => RemindersHold
  <2> SUFFICES ASSUME ScheduleInv PROVE RemindersHold OBVIOUS
  <2>1. /\ ScheduleTypeOK /\ StoreTypes /\ StoreBounded /\ HistoriesStand /\ KeysFollow /\ WakeStands /\ WakeComes
    BY ScheduleInvIs DEF ScheduleInv, StoreInv
  <2>2. KeysAreFresh BY <2>1 DEF KeysAreFresh, KeyIsNew, KeysFollow, StoreTypes, TasksIn
  <2>3. DueHasWake BY <2>1 DEF DueHasWake, WakeStands, WakeComes
  <2>4. HistoryHonest BY <2>1, HistoriesAreHonest
  <2> QED BY <2>1, <2>2, <2>3, <2>4 DEF RemindersHold
<1> QED BY <1>1, ScheduleInvariant, PTL

\* One step delivers nothing into a paused session and lifts its pause only
\* for a message of the user or with its last queued input.
PauseStep ==
    \A s \in Sessions : s \in paused =>
        /\ \A t \in Tasks : TaskSession[t] = s => count'[t] <= count[t]
        /\ s \notin paused' => waitingInputs'[s] = waitingInputs[s] + 1 \/ waitingInputs'[s] = 0

\* Every step of the specification is one.
LEMMA PauseStepHolds == ScheduleInv /\ [ScheduleNext]_scheduleVars => PauseStep
<1> SUFFICES ASSUME ScheduleInv, [ScheduleNext]_scheduleVars, NEW s \in Sessions, s \in paused
             PROVE  /\ \A t \in Tasks : TaskSession[t] = s => count'[t] <= count[t]
                    /\ s \notin paused' => waitingInputs'[s] = waitingInputs[s] + 1 \/ waitingInputs'[s] = 0
  BY DEF PauseStep
<1>1. /\ StoreTypes /\ QueueTypes /\ DriveFollows /\ count \in [Tasks -> Nat]
      /\ waitingInputs \in [Sessions -> 0..MAIN_QUEUE_LIMIT] /\ running # s
  BY ScheduleInvIs DEF StoreInv, StoreTypes, QueueTypes, DriveFollows
<1> DEFINE Saves == \A t \in Tasks : TaskSession[t] = s => count'[t] <= count[t]
           Holds == s \notin paused' => waitingInputs'[s] = waitingInputs[s] + 1 \/ waitingInputs'[s] = 0
<1>2. ASSUME UNCHANGED count PROVE Saves BY <1>1, <1>2
<1>3. ASSUME UNCHANGED paused PROVE Holds BY <1>3
<1>4. ASSUME NEW D, deleteTasks(D) PROVE Saves BY <1>1, <1>4 DEF deleteTasks, Cleared
<1>5. ASSUME NEW interrupted, finishResidency(interrupted) PROVE Holds
  BY <1>1, <1>5 DEF finishResidency
<1>6. ASSUME UNCHANGED scheduleVars PROVE Saves /\ Holds
  BY <1>2, <1>3, <1>6 DEF scheduleVars, savedVars, queueVars
<1>7. ASSUME DispatchDue PROVE Saves /\ Holds
  <2>1. UNCHANGED paused BY <1>7 DEF DispatchDue
  <2>2. CASE UNCHANGED count BY <1>2, <1>3, <2>1, <2>2
  <2>3. ASSUME NEW t \in Candidates, NEW G \in Groups(TaskSession[t]), Deliver(TaskSession[t], G) PROVE Saves
    <3>1. TaskSession[t] \in Sessions /\ TaskSession[t] # s
      BY TasksAssumption DEF Candidates, TasksIn
    <3>2. \A u \in G : TaskSession[u] = TaskSession[t] BY <3>1, GroupsAreDue
    <3>3. PICK E : count' = Cleared([u \in Tasks |-> count[u] + (IF u \in G THEN 1 ELSE 0)], E)
      BY <2>3 DEF Deliver
    <3> QED BY <1>1, <3>1, <3>2, <3>3 DEF Cleared
  <2> QED BY <1>3, <1>7, <2>1, <2>2, <2>3 DEF DispatchDue, dispatchDueSchedules, savedVars
<1>8. ASSUME Claim PROVE Saves /\ Holds BY <1>2, <1>3, <1>8 DEF Claim, savedVars, queueVars
<1>9. ASSUME NEW t \in Tasks, Delete(t) PROVE Saves /\ Holds
  BY <1>3, <1>4, <1>9 DEF Delete, queueVars
<1>10. ASSUME NEW t \in Tasks, NEW period, NEW time, Create(t, period, time) \/ Update(t, period, time) PROVE Saves /\ Holds
  BY <1>2, <1>3, <1>10 DEF Create, Update, savedVars, queueVars
<1>11. ASSUME NEW other \in Sessions, SessionStop(other) PROVE Saves /\ Holds
  BY <1>3, <1>4, <1>11 DEF SessionStop, queueVars
<1>20. ASSUME Wakes \/ WakeInHandler PROVE Saves /\ Holds
  BY <1>2, <1>3, <1>20 DEF Wakes, WakeForInput, WakeForClaim, WakeAfterDrive, WakeInHandler, savedVars, queueVars
<1>12. ASSUME NEW other \in Sessions, UserInput(other) PROVE Saves /\ Holds
  BY <1>1, <1>2, <1>12 DEF UserInput, savedVars
<1>13. ASSUME NEW other \in Sessions, RemoveQueued(other) PROVE Saves /\ Holds
  BY <1>1, <1>2, <1>13, Limits DEF RemoveQueued, savedVars
<1>14. ASSUME AlarmFires PROVE Saves /\ Holds
  BY <1>2, <1>3, <1>14 DEF AlarmFires, savedVars, queueVars
<1>15. ASSUME CloseStale PROVE Saves /\ Holds
  BY <1>2, <1>3, <1>5, <1>15 DEF CloseStale, savedVars, queueVars
<1>16. ASSUME Crash \/ Tick PROVE Saves /\ Holds
  BY <1>2, <1>3, <1>16 DEF Crash, Tick, savedVars, queueVars
<1>17. ASSUME NEW interrupted \in BOOLEAN, ResidencyEnds(interrupted) PROVE Saves /\ Holds
  BY <1>2, <1>5, <1>17 DEF ResidencyEnds, savedVars
<1> HIDE DEF Saves, Holds
<1>18. ASSUME Operations PROVE Saves /\ Holds
  <2>1. ASSUME NEW t \in Tasks, Delete(t) PROVE Saves /\ Holds BY <1>9, <2>1
  <2>2. ASSUME NEW t \in Tasks, NEW period \in Periods \cup {0}, NEW time \in 1..LastInstant,
               Create(t, period, time) \/ Update(t, period, time)
        PROVE  Saves /\ Holds
    BY <1>10, <2>2
  <2>3. ASSUME NEW other \in Sessions, SessionStop(other) \/ UserInput(other) \/ RemoveQueued(other) PROVE Saves /\ Holds
    BY <1>11, <1>12, <1>13, <2>3
  <2> QED BY <1>18, <2>1, <2>2, <2>3 DEF Operations
<1>19. Saves /\ Holds BY <1>6, <1>7, <1>8, <1>14, <1>15, <1>16, <1>17, <1>18, <1>20 DEF ScheduleNext
<1> QED BY <1>19 DEF Saves, Holds

\* A reminder never enters a paused session and never lifts its pause, for any
\* tasks, rules and limits (dispatchDueSchedules, insertMainInput).
THEOREM PauseCorrect == ScheduleSpec => PauseHoldsReminders
<1>1. ScheduleInv /\ [ScheduleNext]_scheduleVars => [PauseStep]_scheduleVars BY PauseStepHolds
<1>2. ScheduleSpec => [][PauseStep]_scheduleVars BY <1>1, ScheduleInvariant, PTL DEF ScheduleSpec
<1> QED BY <1>2 DEF PauseHoldsReminders, PauseStep

----------------------------------------
\* The installer.  All versions but a foreign one store their data in one
\* place, and every run that may still upload keeps to that place; or what
\* is active forbids an upload, and no run makes one.

Places == Waiting \cup {"uploaded", "health", "login", "ready", "observed", "closing", "ended"}
Setup == [pc : Places, command : Commands, temporary : BOOLEAN,
          existing : SUBSET WorkerVersions, update : {"none", "update", "rename", "change", "reset-key"},
          mode : Modes \cup {"none"},
          newKey : BOOLEAN, files : SUBSET {"directory", "secrets"}, told : BOOLEAN, warned : BOOLEAN,
          uploaded : BOOLEAN, exit : {"none", "zero", "failed"}, aborted : BOOLEAN,
          failed : BOOLEAN, attempts : Nat,
          activation : {"none", "pending", "live", "ready"}, readyFrom : SUBSET WorkerVersions]

InstallTypes ==
    /\ active \subseteq WorkerVersions /\ serving \subseteq WorkerVersions
    /\ setup \in [Installers -> Setup]

\* What the record of one installer keeps.
RunOK(i, s) ==
    /\ s.exit = "zero" => s.pc \notin Waiting
    /\ s.failed => s.pc \in {"closing", "ended"}
    /\ s.pc = "closing" /\ s.failed /\ s.exit = "zero" => s.told
    /\ s.pc = "ended" =>
         /\ s.exit = "zero" => s.told
         /\ "secrets" \in s.files => s.warned
    /\ s.activation \in {"ready", "live"} => \E v \in s.readyFrom : v.by = i
    /\ s.pc \in {"accounts", "name", "inspect"} => s.existing = {}
RunsOK == \A i \in Installers : RunOK(i, setup[i])

\* A run that goes on may upload to the Worker: it has chosen to, or offers to.
Deciding == {"mode", "confirm", "bucket", "write", "upload"}
MayUpload(s) == ~s.temporary /\ (s.pc \in Deciding \/ s.existing # {})

OneStorage(storage) ==
    /\ \A v \in active \ {Foreign} : v.storage = storage
    /\ \A i \in Installers : MayUpload(setup[i]) => StorageOf(setup[i]) = storage
    /\ active = {} => storage = "temporary-do"
Untouchable ==
    /\ active # {} /\ (Foreign \in active \/ ~Agree(active))
    /\ \A i \in Installers : ~MayUpload(setup[i])
StorageStands == (\E storage \in {"private-r2", "temporary-do", "none"} : OneStorage(storage)) \/ Untouchable

InstallInv == InstallTypes /\ RunsOK /\ StorageStands

\* How one installer's record may come to be one that may upload.
Comes(s, n) ==
    MayUpload(n) =>
      \/ MayUpload(s) /\ n.existing = s.existing
      \/ active = {} /\ n.existing = {}
      \/ active # {} /\ Foreign \notin active /\ Agree(active) /\ \E v \in active : n.existing = {v}

RunStep(i) ==
    /\ setup' = [setup EXCEPT ![i] = setup'[i]]
    /\ setup'[i] \in Setup /\ RunOK(i, setup'[i]) /\ Comes(setup[i], setup'[i])

\* A step that sets the record of one installer, and only that, keeps the rest.
LEMMA SetIs ==
    ASSUME NEW i \in Installers, InstallTypes, NEW n \in Setup, Set(i, n),
           RunOK(i, n), Comes(setup[i], n) PROVE RunStep(i)
BY DEF Set, InstallTypes, RunStep

\* Whatever installEdge does next, the record it leaves is one that may follow:
\* its version comes only from its upload, its report only from an answer of it.
LEMMA RunGoesOn ==
    ASSUME NEW i \in Installers, InstallTypes, RunOK(i, setup[i]), InstallStep(i)
    PROVE  RunStep(i)
<1> DEFINE s == setup[i]
<1>0. s \in Setup BY DEF InstallTypes
<1> USE <1>0, SetIs
<1>1. CASE Throws(i)
  <2> DEFINE n == Fails(s)
  <2>1. Set(i, n) /\ s.pc \in Waiting BY <1>1 DEF Throws
  <2>2. n \in Setup BY <2>1 DEF Setup, Places, Waiting, Fails
  <2>3. RunOK(i, n) BY <2>1 DEF RunOK, Setup, Waiting, Fails
  <2>4. Comes(s, n) BY <2>1 DEF Comes, MayUpload, Deciding, Setup, RunOK, Fails
  <2> HIDE DEF n
  <2> QED BY <2>1, <2>2, <2>3, <2>4
<1>2. CASE Abort(i)
  <2> DEFINE n == [s EXCEPT !.aborted = TRUE]
  <2>1. Set(i, n) /\ s.pc # "ended" BY <1>2 DEF Abort
  <2>2. n \in Setup BY <2>1 DEF Setup, Places, Waiting, Fails
  <2>3. RunOK(i, n) BY <2>1 DEF RunOK, Setup, Waiting, Fails
  <2>4. Comes(s, n) BY <2>1 DEF Comes, MayUpload, Deciding, Setup, RunOK, Fails
  <2> HIDE DEF n
  <2> QED BY <2>1, <2>2, <2>3, <2>4
<1>3. CASE selectAccount(i)
  <2>5. PICK choice \in accountChoices(s.command) :
          Set(i, [s EXCEPT !.temporary = choice = "temporary", !.pc = "name"])
    BY <1>3 DEF selectAccount
  <2> DEFINE n == [s EXCEPT !.temporary = choice = "temporary", !.pc = "name"]
  <2>1. Set(i, n) /\ s.pc = "accounts" BY <1>3, <2>5 DEF selectAccount, At
  <2>2. n \in Setup BY <2>1 DEF Setup, Places, Waiting, Fails
  <2>3. RunOK(i, n) BY <2>1 DEF RunOK, Setup, Waiting, Fails
  <2>4. Comes(s, n) BY <2>1 DEF Comes, MayUpload, Deciding, Setup, RunOK, Fails
  <2> HIDE DEF n
  <2> QED BY <2>1, <2>2, <2>3, <2>4
<1>4. CASE parseWorkerExistence(i)
  <2> DEFINE n == CASE s.temporary  -> [s EXCEPT !.pc = "mode"]
                     [] active # {}  -> [s EXCEPT !.pc = "inspect"]
                     [] OTHER        -> IF s.command = "upgrade" THEN Fails(s)
                                        ELSE [s EXCEPT !.pc = "mode"]
  <2>1. Set(i, n) /\ s.pc = "name" BY <1>4 DEF parseWorkerExistence, At
  <2>2. n \in Setup BY <2>1 DEF Setup, Places, Waiting, Fails
  <2>3. RunOK(i, n) BY <2>1 DEF RunOK, Setup, Waiting, Fails
  <2>4. Comes(s, n) BY <2>1 DEF Comes, MayUpload, Deciding, Setup, RunOK, Fails
  <2> HIDE DEF n
  <2> QED BY <2>1, <2>2, <2>3, <2>4
<1>5. CASE inspectExistingDeployment(i)
  <2> DEFINE bad == active = {} \/ (Foreign \in active /\ s.command = "upgrade")
                       \/ (Foreign \notin active /\ ~Agree(active))
             e == IF Foreign \in active THEN {} ELSE {CHOOSE v \in active : TRUE}
  <2>0. active # {} => (CHOOSE v \in active : TRUE) \in active OBVIOUS
  <2>1. CASE bad
    <3> DEFINE n == Fails(s)
    <3>1. Set(i, n) /\ s.pc = "inspect" BY <1>5, <2>1 DEF inspectExistingDeployment, At
    <3>2. n \in Setup BY <3>1 DEF Setup, Places, Waiting, Fails
    <3>3. RunOK(i, n) BY <3>1 DEF RunOK, Setup, Waiting, Fails
    <3>4. Comes(s, n) BY <3>1 DEF Comes, MayUpload, Deciding, Setup, RunOK, Fails
    <3> HIDE DEF n
    <3> QED BY <3>1, <3>2, <3>3, <3>4
  <2>2. CASE ~bad
    <3>5. e \in SUBSET WorkerVersions BY <2>0, <2>2 DEF InstallTypes
    <3>6. e = {} \/ (active # {} /\ Foreign \notin active /\ Agree(active)
                       /\ \E v \in active : e = {v})
      BY <2>0, <2>2
    <3>7. s.pc = "inspect" /\ Set(i, [s EXCEPT !.pc = "update", !.existing = e])
      BY <1>5, <2>2 DEF inspectExistingDeployment, At
    <3> HIDE DEF bad, e
    <3> DEFINE n == [s EXCEPT !.pc = "update", !.existing = e]
    <3>1. Set(i, n) /\ s.pc = "inspect" BY <3>7
    <3>2. n \in Setup BY <3>1, <3>5, <3>6 DEF Setup, Places, Waiting, Fails
    <3>3. RunOK(i, n) BY <3>1, <3>5, <3>6 DEF RunOK, Setup, Waiting, Fails
    <3>4. Comes(s, n) BY <3>1, <3>5, <3>6 DEF Comes, MayUpload, Deciding, Setup, RunOK, Fails
    <3> HIDE DEF n
    <3> QED BY <3>1, <3>2, <3>3, <3>4
  <2> QED BY <2>1, <2>2
<1>6. CASE existingWorker(i)
  <2> DEFINE m(action) == CASE action = "cancel" -> Fails(s)
                            [] action = "rename" ->
                                 [s EXCEPT !.pc = "name", !.existing = {}, !.update = action]
                            [] OTHER -> [s EXCEPT !.pc = "mode", !.update = action]
  <2>5. PICK action \in {"rename", "cancel"} \cup
                          (IF s.existing = {} THEN {} ELSE {"update", "change", "reset-key"}) :
          Set(i, m(action))
    BY <1>6 DEF existingWorker
  <2> DEFINE n == m(action)
  <2>1. Set(i, n) /\ s.pc = "update" BY <1>6, <2>5 DEF existingWorker, At
  <2>2. n \in Setup BY <2>1, ZenonT(60) DEF Setup, Places, Waiting, Fails
  <2>3. RunOK(i, n) BY <2>1 DEF RunOK, Setup, Waiting, Fails
  <2>4. Comes(s, n) BY <2>1 DEF Comes, MayUpload, Deciding, Setup, RunOK, Fails
  <2> HIDE DEF n
  <2> QED BY <2>1, <2>2, <2>3, <2>4
<1>7. CASE chooseMode(i)
  <2> DEFINE m(mode) == [s EXCEPT !.mode = mode, !.pc = "confirm",
                                  !.newKey = s.existing = {} \/ s.update = "reset-key"]
  <2>0. s.existing # {} => (CHOOSE v \in s.existing : TRUE) \in WorkerVersions BY DEF Setup
  <2>5. PICK mode \in Modes \cup {"none"} : Set(i, m(mode))
    BY <1>7, <2>0 DEF chooseMode, WorkerVersions, Modes
  <2> DEFINE n == m(mode)
  <2>1. Set(i, n) /\ s.pc = "mode" BY <1>7, <2>5 DEF chooseMode, At
  <2>2. n \in Setup BY <2>1, ZenonT(60) DEF Setup, Places, Waiting, Fails
  <2>3. RunOK(i, n) BY <2>1 DEF RunOK, Setup, Waiting, Fails
  <2>4. Comes(s, n) BY <2>1 DEF Comes, MayUpload, Deciding, Setup, RunOK, Fails
  <2> HIDE DEF n
  <2> QED BY <2>1, <2>2, <2>3, <2>4
<1>8. CASE confirm(i)
  <2> DEFINE n == [s EXCEPT !.pc = IF StorageOf(s) = "private-r2" THEN "bucket" ELSE "write"]
  <2>1. Set(i, n) /\ s.pc = "confirm" BY <1>8 DEF confirm, At
  <2>2. n \in Setup BY <2>1 DEF Setup, Places, Waiting, Fails
  <2>3. RunOK(i, n) BY <2>1 DEF RunOK, Setup, Waiting, Fails
  <2>4. Comes(s, n) BY <2>1 DEF Comes, MayUpload, Deciding, Setup, RunOK, Fails
  <2> HIDE DEF n
  <2> QED BY <2>1, <2>2, <2>3, <2>4
<1>9. CASE prepareR2Bucket(i)
  <2> DEFINE n == [s EXCEPT !.pc = "write"]
  <2>1. Set(i, n) /\ s.pc = "bucket" BY <1>9 DEF prepareR2Bucket, At
  <2>2. n \in Setup BY <2>1 DEF Setup, Places, Waiting, Fails
  <2>3. RunOK(i, n) BY <2>1 DEF RunOK, Setup, Waiting, Fails
  <2>4. Comes(s, n) BY <2>1 DEF Comes, MayUpload, Deciding, Setup, RunOK, Fails
  <2> HIDE DEF n
  <2> QED BY <2>1, <2>2, <2>3, <2>4
<1>10. CASE writeFiles(i)
  <2> DEFINE n == [s EXCEPT !.pc = "upload", !.files = {"directory"} \cup (IF s.newKey THEN {"secrets"} ELSE {})]
  <2>1. Set(i, n) /\ s.pc = "write" BY <1>10 DEF writeFiles, At
  <2>2. n \in Setup BY <2>1 DEF Setup, Places, Waiting, Fails
  <2>3. RunOK(i, n) BY <2>1 DEF RunOK, Setup, Waiting, Fails
  <2>4. Comes(s, n) BY <2>1 DEF Comes, MayUpload, Deciding, Setup, RunOK, Fails
  <2> HIDE DEF n
  <2> QED BY <2>1, <2>2, <2>3, <2>4
<1>11. CASE wranglerUploads(i)
  <2> DEFINE n == [s EXCEPT !.uploaded = TRUE]
  <2>1. Set(i, n) /\ s.pc = "upload" BY <1>11 DEF wranglerUploads, At
  <2>2. n \in Setup BY <2>1 DEF Setup, Places, Waiting, Fails
  <2>3. RunOK(i, n) BY <2>1 DEF RunOK, Setup, Waiting, Fails
  <2>4. Comes(s, n) BY <2>1 DEF Comes, MayUpload, Deciding, Setup, RunOK, Fails
  <2> HIDE DEF n
  <2> QED BY <2>1, <2>2, <2>3, <2>4
<1>12. CASE wranglerCloses(i)
  <2>5. PICK ok \in {s.uploaded, FALSE}, gone \in BOOLEAN :
          Set(i, [s EXCEPT !.pc = "uploaded", !.exit = IF ok THEN "zero" ELSE "failed",
                           !.files = IF gone THEN @ \ {"secrets"} ELSE @])
    BY <1>12 DEF wranglerCloses
  <2>6. PICK code \in {"zero", "failed"} : code = IF ok THEN "zero" ELSE "failed" OBVIOUS
  <2>7. PICK left \in SUBSET {"directory", "secrets"} :
          left = IF gone THEN s.files \ {"secrets"} ELSE s.files
    BY DEF Setup
  <2> DEFINE n == [s EXCEPT !.pc = "uploaded", !.exit = code, !.files = left]
  <2>1. Set(i, n) /\ s.pc = "upload" BY <1>12, <2>5, <2>6, <2>7 DEF wranglerCloses, At
  <2>2. n \in Setup BY <2>1 DEF Setup, Places, Waiting, Fails
  <2>3. RunOK(i, n) BY <2>1 DEF RunOK, Setup, Waiting, Fails
  <2>4. Comes(s, n) BY <2>1 DEF Comes, MayUpload, Deciding, Setup, RunOK, Fails
  <2> HIDE DEF n
  <2> QED BY <2>1, <2>2, <2>3, <2>4
<1>13. CASE wranglerUploaded(i)
  <2>1. CASE s.exit # "zero" /\ Set(i, Fails(s))
    <3> DEFINE n == Fails(s)
    <3>1. Set(i, n) /\ s.pc = "uploaded" /\ s.exit # "zero" BY <1>13, <2>1 DEF wranglerUploaded, At
    <3>2. n \in Setup BY <3>1 DEF Setup, Places, Waiting, Fails
    <3>3. RunOK(i, n) BY <3>1 DEF RunOK, Setup, Waiting, Fails
    <3>4. Comes(s, n) BY <3>1 DEF Comes, MayUpload, Deciding, Setup, RunOK, Fails
    <3> HIDE DEF n
    <3> QED BY <3>1, <3>2, <3>3, <3>4
  <2>2. CASE Set(i, [Fails(s) EXCEPT !.told = TRUE])
    <3> DEFINE n == [Fails(s) EXCEPT !.told = TRUE]
    <3>1. Set(i, n) /\ s.pc = "uploaded" BY <1>13, <2>2 DEF wranglerUploaded, At
    <3>2. n \in Setup BY <3>1 DEF Setup, Places, Waiting, Fails
    <3>3. RunOK(i, n) BY <3>1 DEF RunOK, Setup, Waiting, Fails
    <3>4. Comes(s, n) BY <3>1 DEF Comes, MayUpload, Deciding, Setup, RunOK, Fails
    <3> HIDE DEF n
    <3> QED BY <3>1, <3>2, <3>3, <3>4
  <2>3. CASE Set(i, [s EXCEPT !.pc = "health"])
    <3> DEFINE n == [s EXCEPT !.pc = "health"]
    <3>1. Set(i, n) /\ s.pc = "uploaded" BY <1>13, <2>3 DEF wranglerUploaded, At
    <3>2. n \in Setup BY <3>1 DEF Setup, Places, Waiting, Fails
    <3>3. RunOK(i, n) BY <3>1 DEF RunOK, Setup, Waiting, Fails
    <3>4. Comes(s, n) BY <3>1 DEF Comes, MayUpload, Deciding, Setup, RunOK, Fails
    <3> HIDE DEF n
    <3> QED BY <3>1, <3>2, <3>3, <3>4
  <2> QED BY <1>13, <2>1, <2>2, <2>3 DEF wranglerUploaded, At
<1>14. CASE observeHealth(i)
  <2>5. s.pc = "health" BY <1>14 DEF observeHealth, At
  <2>6. \A answer \in Answers(s) : answer \in SUBSET WorkerVersions BY DEF Answers, InstallTypes
  <2>1. CASE Finished(i, s, "pending")
    <3> DEFINE n == [s EXCEPT !.pc = "observed", !.activation = "pending"]
    <3>1. Set(i, n) /\ s.pc = "health" BY <2>1, <2>5 DEF Finished
    <3>2. n \in Setup BY <3>1 DEF Setup, Places, Waiting, Fails
    <3>3. RunOK(i, n) BY <3>1 DEF RunOK, Setup, Waiting, Fails
    <3>4. Comes(s, n) BY <3>1 DEF Comes, MayUpload, Deciding, Setup, RunOK, Fails
    <3> HIDE DEF n
    <3> QED BY <3>1, <3>2, <3>3, <3>4
  <2>2. CASE Retry(i, s)
    <3>5. PICK more \in Nat : more = s.attempts + 1 BY DEF Setup
    <3> DEFINE n == [s EXCEPT !.pc = "health", !.attempts = more]
    <3>1. Set(i, n) /\ s.pc = "health" BY <2>2, <2>5, <3>5 DEF Retry
    <3>2. n \in Setup BY <3>1 DEF Setup, Places, Waiting, Fails
    <3>3. RunOK(i, n) BY <3>1 DEF RunOK, Setup, Waiting, Fails
    <3>4. Comes(s, n) BY <3>1 DEF Comes, MayUpload, Deciding, Setup, RunOK, Fails
    <3> HIDE DEF n
    <3> QED BY <3>1, <3>2, <3>3, <3>4
  <2>3. CASE Set(i, [s EXCEPT !.pc = "login"])
    <3> DEFINE n == [s EXCEPT !.pc = "login"]
    <3>1. Set(i, n) /\ s.pc = "health" BY <2>3, <2>5
    <3>2. n \in Setup BY <3>1 DEF Setup, Places, Waiting, Fails
    <3>3. RunOK(i, n) BY <3>1 DEF RunOK, Setup, Waiting, Fails
    <3>4. Comes(s, n) BY <3>1 DEF Comes, MayUpload, Deciding, Setup, RunOK, Fails
    <3> HIDE DEF n
    <3> QED BY <3>1, <3>2, <3>3, <3>4
  <2>4. ASSUME NEW answer \in Answers(s), isExpectedHealth(i, answer),
               Finished(i, [s EXCEPT !.readyFrom = answer], "live") PROVE RunStep(i)
    <3>5. answer \in SUBSET WorkerVersions /\ \E v \in answer : v.by = i
      BY <2>4, <2>6 DEF isExpectedHealth
    <3> DEFINE n == [s EXCEPT !.readyFrom = answer, !.pc = "observed", !.activation = "live"]
    <3>1. Set(i, n) /\ s.pc = "health" BY <2>4, <2>5 DEF Finished
    <3>2. n \in Setup BY <3>1, <3>5 DEF Setup, Places, Waiting, Fails
    <3>3. RunOK(i, n) BY <3>1, <3>5 DEF RunOK, Setup, Waiting, Fails
    <3>4. Comes(s, n) BY <3>1, <3>5 DEF Comes, MayUpload, Deciding, Setup, RunOK, Fails
    <3> HIDE DEF n
    <3> QED BY <3>1, <3>2, <3>3, <3>4
  <2> QED BY <1>14, <2>1, <2>2, <2>3, <2>4 DEF observeHealth
<1>15. CASE verifyLogin(i)
  <2>5. s.pc = "login" BY <1>15 DEF verifyLogin, At
  <2>1. CASE Retry(i, s)
    <3>5. PICK more \in Nat : more = s.attempts + 1 BY DEF Setup
    <3> DEFINE n == [s EXCEPT !.pc = "health", !.attempts = more]
    <3>1. Set(i, n) /\ s.pc = "login" BY <2>1, <2>5, <3>5 DEF Retry
    <3>2. n \in Setup BY <3>1 DEF Setup, Places, Waiting, Fails
    <3>3. RunOK(i, n) BY <3>1 DEF RunOK, Setup, Waiting, Fails
    <3>4. Comes(s, n) BY <3>1 DEF Comes, MayUpload, Deciding, Setup, RunOK, Fails
    <3> HIDE DEF n
    <3> QED BY <3>1, <3>2, <3>3, <3>4
  <2>2. CASE Set(i, [s EXCEPT !.pc = "ready"])
    <3> DEFINE n == [s EXCEPT !.pc = "ready"]
    <3>1. Set(i, n) /\ s.pc = "login" BY <2>2, <2>5
    <3>2. n \in Setup BY <3>1 DEF Setup, Places, Waiting, Fails
    <3>3. RunOK(i, n) BY <3>1 DEF RunOK, Setup, Waiting, Fails
    <3>4. Comes(s, n) BY <3>1 DEF Comes, MayUpload, Deciding, Setup, RunOK, Fails
    <3> HIDE DEF n
    <3> QED BY <3>1, <3>2, <3>3, <3>4
  <2> QED BY <1>15, <2>1, <2>2 DEF verifyLogin
<1>16. CASE verifyReady(i)
  <2>5. s.pc = "ready" BY <1>16 DEF verifyReady, At
  <2>6. \A answer \in Answers(s) : answer \in SUBSET WorkerVersions BY DEF Answers, InstallTypes
  <2>1. CASE Retry(i, s)
    <3>5. PICK more \in Nat : more = s.attempts + 1 BY DEF Setup
    <3> DEFINE n == [s EXCEPT !.pc = "health", !.attempts = more]
    <3>1. Set(i, n) /\ s.pc = "ready" BY <2>1, <2>5, <3>5 DEF Retry
    <3>2. n \in Setup BY <3>1 DEF Setup, Places, Waiting, Fails
    <3>3. RunOK(i, n) BY <3>1 DEF RunOK, Setup, Waiting, Fails
    <3>4. Comes(s, n) BY <3>1 DEF Comes, MayUpload, Deciding, Setup, RunOK, Fails
    <3> HIDE DEF n
    <3> QED BY <3>1, <3>2, <3>3, <3>4
  <2>2. CASE Set(i, [Fails(s) EXCEPT !.told = TRUE])
    <3> DEFINE n == [Fails(s) EXCEPT !.told = TRUE]
    <3>1. Set(i, n) /\ s.pc = "ready" BY <2>2, <2>5
    <3>2. n \in Setup BY <3>1 DEF Setup, Places, Waiting, Fails
    <3>3. RunOK(i, n) BY <3>1 DEF RunOK, Setup, Waiting, Fails
    <3>4. Comes(s, n) BY <3>1 DEF Comes, MayUpload, Deciding, Setup, RunOK, Fails
    <3> HIDE DEF n
    <3> QED BY <3>1, <3>2, <3>3, <3>4
  <2>3. ASSUME NEW answer \in Answers(s), isExpectedHealth(i, answer),
               Finished(i, [s EXCEPT !.readyFrom = answer], "ready") PROVE RunStep(i)
    <3>5. answer \in SUBSET WorkerVersions /\ \E v \in answer : v.by = i
      BY <2>3, <2>6 DEF isExpectedHealth
    <3> DEFINE n == [s EXCEPT !.readyFrom = answer, !.pc = "observed", !.activation = "ready"]
    <3>1. Set(i, n) /\ s.pc = "ready" BY <2>3, <2>5 DEF Finished
    <3>2. n \in Setup BY <3>1, <3>5 DEF Setup, Places, Waiting, Fails
    <3>3. RunOK(i, n) BY <3>1, <3>5 DEF RunOK, Setup, Waiting, Fails
    <3>4. Comes(s, n) BY <3>1, <3>5 DEF Comes, MayUpload, Deciding, Setup, RunOK, Fails
    <3> HIDE DEF n
    <3> QED BY <3>1, <3>2, <3>3, <3>4
  <2> QED BY <1>16, <2>1, <2>2, <2>3 DEF verifyReady
<1>17. CASE observationAborted(i)
  <2> DEFINE n == [Fails(s) EXCEPT !.told = TRUE]
  <2>1. Set(i, n) /\ s.pc \in {"health", "login", "ready"} BY <1>17 DEF observationAborted
  <2>2. n \in Setup BY <2>1 DEF Setup, Places, Waiting, Fails
  <2>3. RunOK(i, n) BY <2>1 DEF RunOK, Setup, Waiting, Fails
  <2>4. Comes(s, n) BY <2>1 DEF Comes, MayUpload, Deciding, Setup, RunOK, Fails
  <2> HIDE DEF n
  <2> QED BY <2>1, <2>2, <2>3, <2>4
<1>18. CASE observed(i)
  <2> DEFINE n == [s EXCEPT !.pc = "closing"]
  <2>1. Set(i, n) /\ s.pc = "observed" BY <1>18 DEF observed, At
  <2>2. n \in Setup BY <2>1 DEF Setup, Places, Waiting, Fails
  <2>3. RunOK(i, n) BY <2>1 DEF RunOK, Setup, Waiting, Fails
  <2>4. Comes(s, n) BY <2>1 DEF Comes, MayUpload, Deciding, Setup, RunOK, Fails
  <2> HIDE DEF n
  <2> QED BY <2>1, <2>2, <2>3, <2>4
<1>19. CASE cleanUp(i)
  <2>5. PICK gone \in BOOLEAN :
          LET bad == s.failed \/ s.aborted \/ ~gone
          IN Set(i, [Idle EXCEPT !.pc = "ended", !.failed = bad, !.exit = s.exit,
                       !.files = IF gone THEN {} ELSE s.files, !.warned = ~gone,
                       !.told = s.told \/ ~s.failed, !.activation = s.activation,
                       !.readyFrom = s.readyFrom])
    BY <1>19 DEF cleanUp
  <2>6. PICK bad \in BOOLEAN : bad = (s.failed \/ s.aborted \/ ~gone) OBVIOUS
  <2>7. PICK left \in SUBSET {"directory", "secrets"} :
          left = IF gone THEN {} ELSE s.files
    BY DEF Setup
  <2>8. PICK said \in BOOLEAN : said = (s.told \/ ~s.failed) OBVIOUS
  <2>9. PICK stays \in BOOLEAN : stays = ~gone OBVIOUS
  <2>11. Idle \in Setup /\ Idle.existing = {} /\ Idle.temporary = FALSE
    BY DEF Idle, Setup, Places, Waiting, Commands, Modes
  <2>12. PICK r \in Setup : r = Idle /\ r.existing = {} /\ r.temporary = FALSE BY <2>11
  <2> DEFINE n == [r EXCEPT !.pc = "ended", !.failed = bad, !.exit = s.exit, !.files = left,
                     !.warned = stays, !.told = said, !.activation = s.activation,
                     !.readyFrom = s.readyFrom]
  <2>1. s.pc = "closing" /\ Set(i, n) BY <1>19, <2>5, <2>6, <2>7, <2>8, <2>9, <2>12 DEF cleanUp, At
  <2>2. n \in Setup
    <3>1. s.exit \in {"none", "zero", "failed"}
          /\ s.activation \in {"none", "pending", "live", "ready"}
          /\ s.readyFrom \in SUBSET WorkerVersions
      BY DEF Setup
    <3>2. r \in Setup /\ left \in SUBSET {"directory", "secrets"} /\ bad \in BOOLEAN
          /\ stays \in BOOLEAN /\ said \in BOOLEAN
      BY <2>6, <2>7, <2>8, <2>9, <2>12
    <3>3. "ended" \in Places BY DEF Places
    <3> QED BY ONLY <3>1, <3>2, <3>3 DEF Setup
  <2>3. n.exit = s.exit /\ n.pc = "ended" /\ n.files = left /\ n.warned = stays /\ n.told = said
        /\ n.activation = s.activation /\ n.readyFrom = s.readyFrom /\ n.existing = {}
        /\ n.temporary = FALSE
    BY <2>12 DEF Setup
  <2> HIDE DEF n
  <2>4. RunOK(i, n)
    <3>1. said <=> s.told \/ ~s.failed BY <2>8
    <3>2. "secrets" \in left => stays BY <2>7, <2>9
    <3> QED BY <2>1, <2>3, <3>1, <3>2 DEF RunOK, Waiting
  <2>10. Comes(s, n) BY <2>3 DEF Comes, MayUpload, Deciding
  <2> QED BY <2>1, <2>2, <2>4, <2>10
<1> QED BY <1>1, <1>2, <1>3, <1>4, <1>5, <1>6, <1>7, <1>8, <1>9, <1>10, <1>11, <1>12, <1>13,
     <1>14, <1>15, <1>16, <1>17, <1>18, <1>19 DEF InstallStep

\* Every step of an installer but the upload leaves the Worker alone.
LEMMA WorkerStays ==
    ASSUME NEW i \in Installers, InstallStep(i)
    PROVE  UNCHANGED <<active, serving>> \/ wranglerUploads(i)
BY DEF InstallStep, Cloud, Throws, Abort, selectAccount, parseWorkerExistence,
  inspectExistingDeployment, existingWorker, chooseMode, confirm, prepareR2Bucket, writeFiles,
  wranglerCloses, wranglerUploaded, observeHealth, verifyLogin, verifyReady, observationAborted,
  observed, cleanUp

\* What an upload makes active is of the run that uploads.
LEMMA UploadIs ==
    ASSUME NEW i \in Installers, InstallTypes, wranglerUploads(i)
    PROVE  \/ UNCHANGED <<active, serving>>
           \/ /\ MayUpload(setup[i]) /\ active' = {NewVersion(i)}
              /\ serving' = serving \cup {NewVersion(i)}
              /\ NewVersion(i).storage = StorageOf(setup[i])
BY DEF wranglerUploads, NewVersion, MayUpload, Deciding, At

\* attachmentStorage of a run is one of the two backends, or none is asked for.
LEMMA StorageIsKnown ==
    ASSUME NEW s \in Setup PROVE StorageOf(s) \in {"private-r2", "temporary-do", "none"}
BY DEF StorageOf, Setup, WorkerVersions

\* What an upload adds is a version like those the account lists.
LEMMA UploadTypes ==
    ASSUME NEW i \in Installers, InstallTypes PROVE NewVersion(i) \in WorkerVersions
<1> DEFINE s == setup[i]
<1>1. s \in Setup BY DEF InstallTypes
<1>2. StorageOf(s) \in {"private-r2", "temporary-do", "none"} /\ s.mode \in Modes \cup {"none"}
  BY <1>1, StorageIsKnown DEF Setup
<1>3. KeyOf(i) \in Installers \cup {Nobody} BY DEF KeyOf, InstallTypes, WorkerVersions
<1> HIDE DEF s
<1> QED BY <1>2, <1>3 DEF NewVersion, WorkerVersions, s

\* A step of installEdge leaves well-formed versions and records.
LEMMA InstallTypesStep ==
    ASSUME InstallTypes, RunsOK, NEW i \in Installers, InstallStep(i)
    PROVE  InstallTypes' /\ RunsOK' /\ RunStep(i)
<1>1. RunStep(i) BY RunGoesOn DEF RunsOK
<1>2. setup' \in [Installers -> Setup] /\ RunsOK' BY <1>1 DEF RunStep, InstallTypes, RunsOK
<1>3. (active \subseteq WorkerVersions /\ serving \subseteq WorkerVersions)'
  BY WorkerStays, UploadIs, UploadTypes DEF InstallTypes
<1> QED BY <1>1, <1>2, <1>3 DEF InstallTypes

\* Uploads keep to the one storage, or nobody uploads.
LEMMA OneStorageStep ==
    ASSUME InstallTypes, RunsOK, NEW i \in Installers, InstallStep(i),
           NEW storage \in {"private-r2", "temporary-do", "none"}, OneStorage(storage)
    PROVE  OneStorage(storage)'
<1>1. RunStep(i) BY InstallTypesStep
<1>2. UNCHANGED <<active, serving>>
      \/ (active' # {} /\ \A v \in active' : v.storage = storage)
  BY WorkerStays, UploadIs DEF OneStorage
<1>3. \A j \in Installers : j # i => setup'[j] = setup[j] BY <1>1 DEF RunStep, InstallTypes
<1>4. MayUpload(setup'[i]) => StorageOf(setup'[i]) = storage
  <2>1. SUFFICES ASSUME MayUpload(setup'[i]) PROVE StorageOf(setup'[i]) = storage OBVIOUS
  <2>2. CASE MayUpload(setup[i]) /\ setup'[i].existing = setup[i].existing
    BY <2>2 DEF OneStorage, StorageOf
  <2>3. CASE active = {} /\ setup'[i].existing = {} BY <2>3 DEF OneStorage, StorageOf
  <2>4. CASE Foreign \notin active /\ \E v \in active : setup'[i].existing = {v}
    BY <2>4 DEF OneStorage, StorageOf
  <2> QED BY <1>1, <2>1, <2>2, <2>3, <2>4 DEF RunStep, Comes
<1>5. (\A v \in active \ {Foreign} : v.storage = storage)' BY <1>2 DEF OneStorage
<1>6. (\A j \in Installers : MayUpload(setup[j]) => StorageOf(setup[j]) = storage)'
  BY <1>3, <1>4 DEF OneStorage, MayUpload, StorageOf
<1>7. (active = {} => storage = "temporary-do")' BY <1>2 DEF OneStorage
<1> QED BY <1>5, <1>6, <1>7 DEF OneStorage

\* Where two backends are active, inspectExisting refuses: no run uploads.
LEMMA UntouchableStep ==
    ASSUME InstallTypes, RunsOK, NEW i \in Installers, InstallStep(i), Untouchable
    PROVE  Untouchable' /\ active' = active
<1>1. RunStep(i) BY InstallTypesStep
<1>2. active' = active BY WorkerStays, UploadIs DEF Untouchable
<1>3. \A j \in Installers : ~MayUpload(setup'[j])
  <2> TAKE j \in Installers
  <2>1. CASE j # i BY <1>1, <2>1 DEF RunStep, InstallTypes, Untouchable
  <2>2. CASE j = i BY <1>1, <2>2 DEF RunStep, Comes, Untouchable
  <2> QED BY <2>1, <2>2
<1> QED BY <1>2, <1>3 DEF Untouchable, MayUpload, Agree

\* Before any run: whatever versions are active, nobody was told anything.
LEMMA InstallInvInit == InstallInit => InstallInv
<1> SUFFICES ASSUME InstallInit PROVE InstallInv OBVIOUS
<1>1. \A c \in Commands : [Idle EXCEPT !.command = c] \in Setup
  BY DEF Idle, Setup, Places, Waiting, Commands, Modes
<1>2. \A i \in Installers : setup[i] \in {[Idle EXCEPT !.command = c] : c \in Commands}
  BY DEF InstallInit
<1>3. \A i \in Installers : setup[i].pc = "accounts" /\ setup[i].exit = "none" /\ ~setup[i].failed
        /\ setup[i].existing = {} /\ setup[i].activation = "none"
  BY <1>2 DEF Idle, Commands
<1>4. active \subseteq WorkerVersions /\ serving \subseteq WorkerVersions
  BY VersionsAssumption DEF InstallInit
<1>5. setup \in [Installers -> Setup]
  <2>1. {[Idle EXCEPT !.command = c] : c \in Commands} \subseteq Setup BY <1>1
  <2> QED BY <2>1 DEF InstallInit
<1>6. InstallTypes BY <1>4, <1>5 DEF InstallTypes
<1>7. RunsOK BY <1>3 DEF RunsOK, RunOK, Waiting
<1>8. \A i \in Installers : ~MayUpload(setup[i]) BY <1>3 DEF MayUpload, Deciding
<1>9. StorageStands
  <2>1. CASE active = {} BY <1>8, <2>1 DEF OneStorage, StorageStands
  <2>2. CASE active # {} /\ \E storage \in {"private-r2", "temporary-do", "none"} :
               \A v \in active : v.storage = storage
    BY <1>8, <2>2 DEF OneStorage, StorageStands
  <2>3. CASE active # {} /\ \A storage \in {"private-r2", "temporary-do", "none"} :
               \E v \in active : v.storage # storage
    <3>1. ~Agree(active)
      <4>1. SUFFICES ASSUME Agree(active) PROVE FALSE OBVIOUS
      <4>2. IsFiniteSet({v.storage : v \in active})
        <5>1. {v.storage : v \in active} \subseteq {"private-r2", "temporary-do", "none"}
          BY <1>4 DEF WorkerVersions
        <5>2. IsFiniteSet({"private-r2", "temporary-do", "none"})
          <6>1. IsFiniteSet({} \cup {"private-r2"}) BY FS_EmptySet, FS_AddElement
          <6>2. IsFiniteSet(({} \cup {"private-r2"}) \cup {"temporary-do"}) BY <6>1, FS_AddElement
          <6>3. IsFiniteSet((({} \cup {"private-r2"}) \cup {"temporary-do"}) \cup {"none"})
            BY <6>2, FS_AddElement
          <6>4. ((({} \cup {"private-r2"}) \cup {"temporary-do"}) \cup {"none"})
                  = {"private-r2", "temporary-do", "none"}
            OBVIOUS
          <6> QED BY <6>3, <6>4
        <5> QED BY <5>1, <5>2, FS_Subset
      <4>3. PICK storage : {v.storage : v \in active} = {storage}
        BY <4>1, <4>2, FS_Singleton DEF Agree
      <4>4. \A v \in active : v.storage \in {"private-r2", "temporary-do", "none"}
        BY <1>4 DEF WorkerVersions
      <4> QED BY <2>3, <4>3, <4>4
    <3> QED BY <1>8, <2>3, <3>1 DEF Untouchable, StorageStands
  <2> QED BY <2>1, <2>2, <2>3
<1> QED BY <1>6, <1>7, <1>9 DEF InstallInv

\* The invariant outlives a step of any run and the propagation of an upload.
LEMMA InstallInvStep == InstallInv /\ [InstallNext]_installVars => InstallInv'
<1> SUFFICES ASSUME InstallInv, [InstallNext]_installVars PROVE InstallInv' OBVIOUS
<1>1. CASE UNCHANGED installVars
  BY <1>1 DEF installVars, InstallInv, InstallTypes, RunsOK, StorageStands, OneStorage, Untouchable
<1>2. CASE Propagate
  BY <1>2 DEF Propagate, InstallInv, InstallTypes, RunsOK, StorageStands, OneStorage, Untouchable
<1>3. ASSUME NEW i \in Installers, InstallStep(i) PROVE InstallInv'
  <2>1. InstallTypes' /\ RunsOK' BY <1>3, InstallTypesStep DEF InstallInv
  <2>2. StorageStands' BY <1>3, OneStorageStep, UntouchableStep DEF InstallInv, StorageStands
  <2> QED BY <2>1, <2>2 DEF InstallInv
<1> QED BY <1>1, <1>2, <1>3 DEF InstallNext

\* A run that ends has told the key it made, and reports only its own version.
LEMMA InstallHolds == InstallInv => KeyIsHandedOver /\ ReadyMeansNew
BY DEF InstallInv, RunsOK, RunOK, KeyIsHandedOver, ReadyMeansNew, At

StorageStep == \A v \in active \ {Foreign}, w \in active' : w.storage = v.storage \/ w \in active

\* An upload takes the storage of the versions it replaces (storageToKeep).
LEMMA StorageStepHolds == InstallInv /\ [InstallNext]_installVars => StorageStep
<1> SUFFICES ASSUME InstallInv, [InstallNext]_installVars PROVE StorageStep OBVIOUS
<1>1. CASE UNCHANGED active BY <1>1 DEF StorageStep
<1>2. ASSUME NEW i \in Installers, InstallStep(i) PROVE StorageStep
  <2>1. ASSUME NEW storage \in {"private-r2", "temporary-do", "none"}, OneStorage(storage)
        PROVE  StorageStep
    BY <1>2, <2>1, WorkerStays, UploadIs DEF OneStorage, StorageStep, InstallInv
  <2>2. CASE Untouchable BY <1>2, <2>2, UntouchableStep DEF StorageStep, InstallInv
  <2> QED BY <2>1, <2>2 DEF InstallInv, StorageStands
<1> QED BY <1>1, <1>2 DEF InstallNext, installVars, Propagate

----------------------------------------
\* The start of the object.  The layers of initialize feed one another:
\* what a service injects is provided by one before it that is not an
\* adapter.  The flag is read before the registry is loaded.

\* What a sequence of services provides for certain, and that each of them
\* finds what it injects among P and the ones before it.
IsLine(s) == \E S : s \in Seq(S)
Given(s) == {s[i].name : i \in {j \in DOMAIN s : ~s[j].optional}}
Feeds(s, P) ==
    \A i \in DOMAIN s : \A n \in s[i].needs :
      n \in P \/ \E j \in DOMAIN s : j < i /\ s[j].name = n /\ ~s[j].optional
OnlyAdapters(s) == \A i \in DOMAIN s : s[i].optional => s[i].name \in {"deepseek-official", "piai"}
Fits(s, P) == IsLine(s) /\ Feeds(s, P) /\ OnlyAdapters(s)
NoRegistry(s) ==
    \A i \in DOMAIN s : s[i].name \notin {"readFlag", "workspaceRegistry", "defaultWorkspace"}
\* The flag is read at r, then the registry loads and may set it, then the
\* default workspace is created; each of them once.
RegistryOrder(s, r) ==
    \A i \in DOMAIN s : /\ s[i].name = "readFlag" <=> i = r
                        /\ s[i].name = "workspaceRegistry" <=> i = r + 1
                        /\ s[i].name = "defaultWorkspace" <=> i = r + 2
RegistryMounted(s) == \E r \in Nat : r > 0 /\ r + 2 <= Len(s) /\ RegistryOrder(s, r)

\* What is stored, initialize of session-store.ts: each finds what it injects.
LEMMA StorageLayerFits ==
    ASSUME NEW P, {} \subseteq P
    PROVE  /\ Fits(StorageLayer, P) /\ NoRegistry(StorageLayer)
           /\ {"attachments", "credentials", "settings", "storageDomain"} \subseteq
              Given(StorageLayer)
<1>1. DOMAIN StorageLayer = 1..5 /\ Len(StorageLayer) = 5 BY DEF StorageLayer
<1>2. /\ StorageLayer[1] = [name |-> "attachments", needs |-> {}, optional |-> FALSE]
      /\ StorageLayer[2] = [name |-> "credentials", needs |-> {}, optional |-> FALSE]
      /\ StorageLayer[3] = [name |-> "settings", needs |-> {}, optional |-> FALSE]
      /\ StorageLayer[4] = [name |-> "storage", needs |-> {}, optional |-> FALSE]
      /\ StorageLayer[5] = [name |-> "storageDomain", needs |-> {"storage"}, optional |->
           FALSE]
  BY DEF StorageLayer, Service, Optional
<1>3. StorageLayer \in Seq({StorageLayer[i] : i \in 1..5}) BY DEF StorageLayer
<1> HIDE DEF StorageLayer
<1>4. IsLine(StorageLayer) BY <1>3 DEF IsLine
<1>5. Feeds(StorageLayer, P) BY <1>1, <1>2 DEF Feeds
<1>6. OnlyAdapters(StorageLayer) /\ NoRegistry(StorageLayer)
  BY <1>1, <1>2 DEF OnlyAdapters, NoRegistry
<1>7. {"attachments", "credentials", "settings", "storageDomain"} \subseteq
        Given(StorageLayer)
  BY <1>1, <1>2 DEF Given
<1> QED BY <1>1, <1>4, <1>5, <1>6, <1>7 DEF Fits

\* The models, initialize of session-store.ts: each finds what it injects.
LEMMA ModelLayerFits ==
    ASSUME NEW P, {"credentials", "settings"} \subseteq P
    PROVE  /\ Fits(ModelLayer, P) /\ NoRegistry(ModelLayer)
           /\ {"llm"} \subseteq Given(ModelLayer)
<1>1. DOMAIN ModelLayer = 1..3 /\ Len(ModelLayer) = 3 BY DEF ModelLayer
<1>2. /\ ModelLayer[1] = [name |-> "llm", needs |-> {"settings"}, optional |-> FALSE]
      /\ ModelLayer[2] = [name |-> "deepseek-official", needs |-> {"credentials", "llm"},
           optional |-> TRUE]
      /\ ModelLayer[3] = [name |-> "piai", needs |-> {"llm", "settings"}, optional |->
           TRUE]
  BY DEF ModelLayer, Service, Optional
<1>3. ModelLayer \in Seq({ModelLayer[i] : i \in 1..3}) BY DEF ModelLayer
<1> HIDE DEF ModelLayer
<1>4. IsLine(ModelLayer) BY <1>3 DEF IsLine
<1>5. Feeds(ModelLayer, P) BY <1>1, <1>2 DEF Feeds
<1>6. OnlyAdapters(ModelLayer) /\ NoRegistry(ModelLayer) BY <1>1, <1>2 DEF OnlyAdapters, NoRegistry
<1>7. {"llm"} \subseteq Given(ModelLayer) BY <1>1, <1>2 DEF Given
<1> QED BY <1>1, <1>4, <1>5, <1>6, <1>7 DEF Fits

\* The sessions, initialize of session-store.ts: each finds what it injects.
LEMMA SessionLayerFits ==
    ASSUME NEW P, {"llm", "storageDomain"} \subseteq P
    PROVE  /\ Fits(SessionLayer, P) /\ NoRegistry(SessionLayer)
           /\ {"sessionProjections", "sessions"} \subseteq Given(SessionLayer)
<1>1. DOMAIN SessionLayer = 1..5 /\ Len(SessionLayer) = 5 BY DEF SessionLayer
<1>2. /\ SessionLayer[1] = [name |-> "sessions", needs |-> {}, optional |-> FALSE]
      /\ SessionLayer[2] = [name |-> "sessionProjections", needs |-> {"sessions"},
           optional |-> FALSE]
      /\ SessionLayer[3] = [name |-> "sessionProjectionCache", needs |->
           {"sessionProjections", "storageDomain"}, optional |-> FALSE]
      /\ SessionLayer[4] = [name |-> "compaction", needs |-> {"llm", "sessions"},
           optional |-> FALSE]
      /\ SessionLayer[5] = [name |-> "titles", needs |-> {"llm", "sessions"}, optional
           |-> FALSE]
  BY DEF SessionLayer, Service, Optional
<1>3. SessionLayer \in Seq({SessionLayer[i] : i \in 1..5}) BY DEF SessionLayer
<1> HIDE DEF SessionLayer
<1>4. IsLine(SessionLayer) BY <1>3 DEF IsLine
<1>5. Feeds(SessionLayer, P) BY <1>1, <1>2 DEF Feeds
<1>6. OnlyAdapters(SessionLayer) /\ NoRegistry(SessionLayer)
  BY <1>1, <1>2 DEF OnlyAdapters, NoRegistry
<1>7. {"sessionProjections", "sessions"} \subseteq Given(SessionLayer) BY <1>1, <1>2 DEF Given
<1> QED BY <1>1, <1>4, <1>5, <1>6, <1>7 DEF Fits

\* Files, tools and skills, initialize of session-store.ts: each finds what it injects.
LEMMA ToolLayerFits ==
    ASSUME NEW P, {} \subseteq P
    PROVE  /\ Fits(ToolLayer, P) /\ NoRegistry(ToolLayer)
           /\ {"fs", "skills", "spillStore", "systemPrompt", "tools"} \subseteq
              Given(ToolLayer)
<1>1. DOMAIN ToolLayer = 1..7 /\ Len(ToolLayer) = 7 BY DEF ToolLayer
<1>2. /\ ToolLayer[1] = [name |-> "systemPrompt", needs |-> {}, optional |-> FALSE]
      /\ ToolLayer[2] = [name |-> "spillStore", needs |-> {}, optional |-> FALSE]
      /\ ToolLayer[3] = [name |-> "fs", needs |-> {}, optional |-> FALSE]
      /\ ToolLayer[4] = [name |-> "fsPolicy", needs |-> {"fs"}, optional |-> FALSE]
      /\ ToolLayer[5] = [name |-> "tools", needs |-> {}, optional |-> FALSE]
      /\ ToolLayer[6] = [name |-> "skills", needs |-> {}, optional |-> FALSE]
      /\ ToolLayer[7] = [name |-> "workspaceSkills", needs |-> {"skills"}, optional |->
           FALSE]
  BY DEF ToolLayer, Service, Optional
<1>3. ToolLayer \in Seq({ToolLayer[i] : i \in 1..7}) BY DEF ToolLayer
<1> HIDE DEF ToolLayer
<1>4. IsLine(ToolLayer) BY <1>3 DEF IsLine
<1>5. Feeds(ToolLayer, P) BY <1>1, <1>2 DEF Feeds
<1>6. OnlyAdapters(ToolLayer) /\ NoRegistry(ToolLayer) BY <1>1, <1>2 DEF OnlyAdapters, NoRegistry
<1>7. {"fs", "skills", "spillStore", "systemPrompt", "tools"} \subseteq Given(ToolLayer)
  BY <1>1, <1>2 DEF Given
<1> QED BY <1>1, <1>4, <1>5, <1>6, <1>7 DEF Fits

\* The gateway, initialize of session-store.ts: each finds what it injects.
LEMMA GatewayLayerFits ==
    ASSUME NEW P, {} \subseteq P
    PROVE  /\ Fits(GatewayLayer, P) /\ NoRegistry(GatewayLayer)
           /\ {"connection", "typert", "typertGateway"} \subseteq Given(GatewayLayer)
<1>1. DOMAIN GatewayLayer = 1..4 /\ Len(GatewayLayer) = 4 BY DEF GatewayLayer
<1>2. /\ GatewayLayer[1] = [name |-> "typert", needs |-> {}, optional |-> FALSE]
      /\ GatewayLayer[2] = [name |-> "connection", needs |-> {}, optional |-> FALSE]
      /\ GatewayLayer[3] = [name |-> "remoteAccess", needs |-> {}, optional |-> FALSE]
      /\ GatewayLayer[4] = [name |-> "typertGateway", needs |-> {"connection",
           "remoteAccess", "typert"}, optional |-> FALSE]
  BY DEF GatewayLayer, Service, Optional
<1>3. GatewayLayer \in Seq({GatewayLayer[i] : i \in 1..4}) BY DEF GatewayLayer
<1> HIDE DEF GatewayLayer
<1>4. IsLine(GatewayLayer) BY <1>3 DEF IsLine
<1>5. Feeds(GatewayLayer, P) BY <1>1, <1>2 DEF Feeds
<1>6. OnlyAdapters(GatewayLayer) /\ NoRegistry(GatewayLayer)
  BY <1>1, <1>2 DEF OnlyAdapters, NoRegistry
<1>7. {"connection", "typert", "typertGateway"} \subseteq Given(GatewayLayer)
  BY <1>1, <1>2 DEF Given
<1> QED BY <1>1, <1>4, <1>5, <1>6, <1>7 DEF Fits

\* The agents and what the user is asked, initialize of session-store.ts: each finds what it injects.
LEMMA AgentLayerFits ==
    ASSUME NEW P, {"connection", "llm", "sessions", "systemPrompt", "tools"} \subseteq P
    PROVE  /\ Fits(AgentLayer, P) /\ NoRegistry(AgentLayer)
           /\ {"agents", "shellEnv"} \subseteq Given(AgentLayer)
<1>1. DOMAIN AgentLayer = 1..10 /\ Len(AgentLayer) = 10 BY DEF AgentLayer
<1>2. /\ AgentLayer[1] = [name |-> "agents", needs |-> {}, optional |-> FALSE]
      /\ AgentLayer[2] = [name |-> "llmRetry", needs |-> {"llm"}, optional |-> FALSE]
      /\ AgentLayer[3] = [name |-> "checkpoints", needs |-> {"sessions"}, optional |->
           FALSE]
      /\ AgentLayer[4] = [name |-> "userQuestions", needs |-> {}, optional |-> FALSE]
      /\ AgentLayer[5] = [name |-> "askUser", needs |-> {"tools", "userQuestions"},
           optional |-> FALSE]
      /\ AgentLayer[6] = [name |-> "planMode", needs |-> {"systemPrompt", "tools",
           "userQuestions"}, optional |-> FALSE]
      /\ AgentLayer[7] = [name |-> "commands", needs |-> {}, optional |-> FALSE]
      /\ AgentLayer[8] = [name |-> "shellEnv", needs |-> {}, optional |-> FALSE]
      /\ AgentLayer[9] = [name |-> "logExport", needs |-> {"commands", "connection"},
           optional |-> FALSE]
      /\ AgentLayer[10] = [name |-> "feedback", needs |-> {"commands", "sessions"},
           optional |-> FALSE]
  BY DEF AgentLayer, Service, Optional
<1>3. AgentLayer \in Seq({AgentLayer[i] : i \in 1..10}) BY DEF AgentLayer
<1> HIDE DEF AgentLayer
<1>4. IsLine(AgentLayer) BY <1>3 DEF IsLine
<1>5. Feeds(AgentLayer, P) BY <1>1, <1>2 DEF Feeds
<1>6. OnlyAdapters(AgentLayer) /\ NoRegistry(AgentLayer) BY <1>1, <1>2 DEF OnlyAdapters, NoRegistry
<1>7. {"agents", "shellEnv"} \subseteq Given(AgentLayer) BY <1>1, <1>2 DEF Given
<1> QED BY <1>1, <1>4, <1>5, <1>6, <1>7 DEF Fits

\* The registry of workspaces and what reads it, initialize of session-store.ts: each finds what it injects.
LEMMA RegistryLayerFits ==
    ASSUME NEW P, {"attachments", "connection", "fs", "sessions", "storageDomain",
                  "typert"} \subseteq P
    PROVE  /\ Fits(RegistryLayer, P)
           /\ {"sessionPersistence", "workspaceRegistry"} \subseteq Given(RegistryLayer)
           /\ RegistryMounted(RegistryLayer)
<1>1. DOMAIN RegistryLayer = 1..6 /\ Len(RegistryLayer) = 6 BY DEF RegistryLayer
<1>2. /\ RegistryLayer[1] = [name |-> "sessionPersistence", needs |-> {"sessions"},
           optional |-> FALSE]
      /\ RegistryLayer[2] = [name |-> "readFlag", needs |-> {}, optional |-> FALSE]
      /\ RegistryLayer[3] = [name |-> "workspaceRegistry", needs |-> {"storageDomain"},
           optional |-> FALSE]
      /\ RegistryLayer[4] = [name |-> "defaultWorkspace", needs |->
           {"workspaceRegistry"}, optional |-> FALSE]
      /\ RegistryLayer[5] = [name |-> "workspaceFiles", needs |-> {"fs", "typert"},
           optional |-> FALSE]
      /\ RegistryLayer[6] = [name |-> "fileUploads", needs |-> {"attachments",
           "connection"}, optional |-> FALSE]
  BY DEF RegistryLayer, Service, Optional
<1>3. RegistryLayer \in Seq({RegistryLayer[i] : i \in 1..6}) BY DEF RegistryLayer
<1> HIDE DEF RegistryLayer
<1>4. IsLine(RegistryLayer) BY <1>3 DEF IsLine
<1>5. Feeds(RegistryLayer, P) BY <1>1, <1>2 DEF Feeds
<1>6. OnlyAdapters(RegistryLayer) BY <1>1, <1>2 DEF OnlyAdapters
<1>7. {"sessionPersistence", "workspaceRegistry"} \subseteq Given(RegistryLayer)
  BY <1>1, <1>2 DEF Given
<1>8. RegistryOrder(RegistryLayer, 2) BY <1>1, <1>2 DEF RegistryOrder
<1>9. RegistryMounted(RegistryLayer) BY <1>1, <1>8 DEF RegistryMounted
<1> QED BY <1>1, <1>4, <1>5, <1>6, <1>7, <1>9 DEF Fits

\* The catalogs, initialize of session-store.ts: each finds what it injects.
LEMMA CatalogLayerFits ==
    ASSUME NEW P, {"sessionPersistence"} \subseteq P
    PROVE  /\ Fits(CatalogLayer, P) /\ NoRegistry(CatalogLayer)
           /\ {"agentDefaultModel", "agentPresets", "sessionQuery"} \subseteq
              Given(CatalogLayer)
<1>1. DOMAIN CatalogLayer = 1..7 /\ Len(CatalogLayer) = 7 BY DEF CatalogLayer
<1>2. /\ CatalogLayer[1] = [name |-> "agentDefaultModel", needs |-> {}, optional |->
           FALSE]
      /\ CatalogLayer[2] = [name |-> "sessionQuery", needs |-> {"sessionPersistence"},
           optional |-> FALSE]
      /\ CatalogLayer[3] = [name |-> "sessionReferences", needs |-> {"sessionQuery"},
           optional |-> FALSE]
      /\ CatalogLayer[4] = [name |-> "fileReferences", needs |-> {}, optional |-> FALSE]
      /\ CatalogLayer[5] = [name |-> "agentPresets", needs |-> {}, optional |-> FALSE]
      /\ CatalogLayer[6] = [name |-> "loader", needs |-> {}, optional |-> FALSE]
      /\ CatalogLayer[7] = [name |-> "pluginInventory", needs |-> {"loader"}, optional
           |-> FALSE]
  BY DEF CatalogLayer, Service, Optional
<1>3. CatalogLayer \in Seq({CatalogLayer[i] : i \in 1..7}) BY DEF CatalogLayer
<1> HIDE DEF CatalogLayer
<1>4. IsLine(CatalogLayer) BY <1>3 DEF IsLine
<1>5. Feeds(CatalogLayer, P) BY <1>1, <1>2 DEF Feeds
<1>6. OnlyAdapters(CatalogLayer) /\ NoRegistry(CatalogLayer)
  BY <1>1, <1>2 DEF OnlyAdapters, NoRegistry
<1>7. {"agentDefaultModel", "agentPresets", "sessionQuery"} \subseteq Given(CatalogLayer)
  BY <1>1, <1>2 DEF Given
<1> QED BY <1>1, <1>4, <1>5, <1>6, <1>7 DEF Fits

\* The controllers, initialize of session-store.ts: each finds what it injects.
LEMMA ControllerLayerFits ==
    ASSUME NEW P, {"agentDefaultModel", "agents", "attachments", "llm",
                  "sessionProjections", "sessionQuery", "sessions", "settings", "typert",
                  "typertGateway", "workspaceRegistry"} \subseteq P
    PROVE  /\ Fits(ControllerLayer, P) /\ NoRegistry(ControllerLayer)
           /\ {"approval", "sessionController", "workspaceController"} \subseteq
              Given(ControllerLayer)
<1>1. DOMAIN ControllerLayer = 1..6 /\ Len(ControllerLayer) = 6 BY DEF ControllerLayer
<1>2. /\ ControllerLayer[1] = [name |-> "sessionController", needs |->
           {"agentDefaultModel", "agents", "attachments", "llm", "sessionProjections",
           "sessionQuery", "sessions", "typert", "workspaceRegistry"}, optional |-> FALSE]
      /\ ControllerLayer[2] = [name |-> "settingsController", needs |-> {"settings",
           "typert"}, optional |-> FALSE]
      /\ ControllerLayer[3] = [name |-> "directoryPicker", needs |-> {}, optional |->
           FALSE]
      /\ ControllerLayer[4] = [name |-> "workspaceController", needs |->
           {"directoryPicker", "typert", "workspaceRegistry"}, optional |-> FALSE]
      /\ ControllerLayer[5] = [name |-> "apiRemotes", needs |-> {"typertGateway"},
           optional |-> FALSE]
      /\ ControllerLayer[6] = [name |-> "approval", needs |-> {}, optional |-> FALSE]
  BY DEF ControllerLayer, Service, Optional
<1>3. ControllerLayer \in Seq({ControllerLayer[i] : i \in 1..6}) BY DEF ControllerLayer
<1> HIDE DEF ControllerLayer
<1>4. IsLine(ControllerLayer) BY <1>3 DEF IsLine
<1>5. Feeds(ControllerLayer, P) BY <1>1, <1>2 DEF Feeds
<1>6. OnlyAdapters(ControllerLayer) /\ NoRegistry(ControllerLayer)
  BY <1>1, <1>2 DEF OnlyAdapters, NoRegistry
<1>7. {"approval", "sessionController", "workspaceController"} \subseteq
        Given(ControllerLayer)
  BY <1>1, <1>2 DEF Given
<1> QED BY <1>1, <1>4, <1>5, <1>6, <1>7 DEF Fits

\* Extensions and their settings, initialize of session-store.ts: each finds what it injects.
LEMMA ExtensionLayerFits ==
    ASSUME NEW P, {"approval", "credentials", "settings", "tools"} \subseteq P
    PROVE  /\ Fits(ExtensionLayer, P) /\ NoRegistry(ExtensionLayer)
<1>1. DOMAIN ExtensionLayer = 1..6 /\ Len(ExtensionLayer) = 6 BY DEF ExtensionLayer
<1>2. /\ ExtensionLayer[1] = [name |-> "mcpResources", needs |-> {"tools"}, optional |->
           FALSE]
      /\ ExtensionLayer[2] = [name |-> "mcp", needs |-> {"credentials", "mcpResources",
           "tools"}, optional |-> FALSE]
      /\ ExtensionLayer[3] = [name |-> "approvalPolicy", needs |-> {"approval", "mcp",
           "settings"}, optional |-> FALSE]
      /\ ExtensionLayer[4] = [name |-> "runtimeSettings", needs |-> {"settings"},
           optional |-> FALSE]
      /\ ExtensionLayer[5] = [name |-> "toolSettings", needs |-> {"settings", "tools"},
           optional |-> FALSE]
      /\ ExtensionLayer[6] = [name |-> "shellSettings", needs |-> {"settings"}, optional
           |-> FALSE]
  BY DEF ExtensionLayer, Service, Optional
<1>3. ExtensionLayer \in Seq({ExtensionLayer[i] : i \in 1..6}) BY DEF ExtensionLayer
<1> HIDE DEF ExtensionLayer
<1>4. IsLine(ExtensionLayer) BY <1>3 DEF IsLine
<1>5. Feeds(ExtensionLayer, P) BY <1>1, <1>2 DEF Feeds
<1>6. OnlyAdapters(ExtensionLayer) /\ NoRegistry(ExtensionLayer)
  BY <1>1, <1>2 DEF OnlyAdapters, NoRegistry
<1> QED BY <1>1, <1>4, <1>5, <1>6 DEF Fits

\* The tools over files, initialize of session-store.ts: each finds what it injects.
LEMMA FileToolLayerFits ==
    ASSUME NEW P, {"connection", "fs", "sessions", "skills", "systemPrompt", "tools"}
                  \subseteq P
    PROVE  /\ Fits(FileToolLayer, P) /\ NoRegistry(FileToolLayer)
           /\ {"workingDirectory"} \subseteq Given(FileToolLayer)
<1>1. DOMAIN FileToolLayer = 1..6 /\ Len(FileToolLayer) = 6 BY DEF FileToolLayer
<1>2. /\ FileToolLayer[1] = [name |-> "workingDirectory", needs |-> {"sessions"},
           optional |-> FALSE]
      /\ FileToolLayer[2] = [name |-> "toolFs", needs |-> {"fs", "tools"}, optional |->
           FALSE]
      /\ FileToolLayer[3] = [name |-> "workspaceChanges", needs |-> {"fs"}, optional |->
           FALSE]
      /\ FileToolLayer[4] = [name |-> "deliverables", needs |-> {"connection",
           "systemPrompt"}, optional |-> FALSE]
      /\ FileToolLayer[5] = [name |-> "fsSearch", needs |-> {"fs", "tools"}, optional |->
           FALSE]
      /\ FileToolLayer[6] = [name |-> "toolSkill", needs |-> {"skills", "tools"},
           optional |-> FALSE]
  BY DEF FileToolLayer, Service, Optional
<1>3. FileToolLayer \in Seq({FileToolLayer[i] : i \in 1..6}) BY DEF FileToolLayer
<1> HIDE DEF FileToolLayer
<1>4. IsLine(FileToolLayer) BY <1>3 DEF IsLine
<1>5. Feeds(FileToolLayer, P) BY <1>1, <1>2 DEF Feeds
<1>6. OnlyAdapters(FileToolLayer) /\ NoRegistry(FileToolLayer)
  BY <1>1, <1>2 DEF OnlyAdapters, NoRegistry
<1>7. {"workingDirectory"} \subseteq Given(FileToolLayer) BY <1>1, <1>2 DEF Given
<1> QED BY <1>1, <1>4, <1>5, <1>6, <1>7 DEF Fits

\* Goals and instructions, initialize of session-store.ts: each finds what it injects.
LEMMA GoalLayerFits ==
    ASSUME NEW P, {"agents", "fs", "sessions", "spillStore", "systemPrompt", "tools"}
                  \subseteq P
    PROVE  /\ Fits(GoalLayer, P) /\ NoRegistry(GoalLayer)
<1>1. DOMAIN GoalLayer = 1..6 /\ Len(GoalLayer) = 6 BY DEF GoalLayer
<1>2. /\ GoalLayer[1] = [name |-> "goals", needs |-> {"sessions"}, optional |-> FALSE]
      /\ GoalLayer[2] = [name |-> "toolGoal", needs |-> {"goals", "tools"}, optional |->
           FALSE]
      /\ GoalLayer[3] = [name |-> "instructions", needs |-> {"fs", "systemPrompt"},
           optional |-> FALSE]
      /\ GoalLayer[4] = [name |-> "goalRounds", needs |-> {"agents", "goals"}, optional
           |-> FALSE]
      /\ GoalLayer[5] = [name |-> "spillPolicy", needs |-> {"spillStore", "tools"},
           optional |-> FALSE]
      /\ GoalLayer[6] = [name |-> "webSearch", needs |-> {"tools"}, optional |-> FALSE]
  BY DEF GoalLayer, Service, Optional
<1>3. GoalLayer \in Seq({GoalLayer[i] : i \in 1..6}) BY DEF GoalLayer
<1> HIDE DEF GoalLayer
<1>4. IsLine(GoalLayer) BY <1>3 DEF IsLine
<1>5. Feeds(GoalLayer, P) BY <1>1, <1>2 DEF Feeds
<1>6. OnlyAdapters(GoalLayer) /\ NoRegistry(GoalLayer) BY <1>1, <1>2 DEF OnlyAdapters, NoRegistry
<1> QED BY <1>1, <1>4, <1>5, <1>6 DEF Fits

\* The loop, jobs and subagents, initialize of session-store.ts: each finds what it injects.
LEMMA LoopLayerFits ==
    ASSUME NEW P, {"agentPresets", "agents", "llm", "settings", "tools", "typert"}
                  \subseteq P
    PROVE  /\ Fits(LoopLayer, P) /\ NoRegistry(LoopLayer)
           /\ {"subagents"} \subseteq Given(LoopLayer)
<1>1. DOMAIN LoopLayer = 1..9 /\ Len(LoopLayer) = 9 BY DEF LoopLayer
<1>2. /\ LoopLayer[1] = [name |-> "agentLoop", needs |-> {"agents", "llm", "settings",
           "tools"}, optional |-> FALSE]
      /\ LoopLayer[2] = [name |-> "shortTools", needs |-> {"tools"}, optional |-> FALSE]
      /\ LoopLayer[3] = [name |-> "jobs", needs |-> {}, optional |-> FALSE]
      /\ LoopLayer[4] = [name |-> "jobController", needs |-> {"jobs", "typert"}, optional
           |-> FALSE]
      /\ LoopLayer[5] = [name |-> "toolJobs", needs |-> {"jobs", "tools"}, optional |->
           FALSE]
      /\ LoopLayer[6] = [name |-> "subagents", needs |-> {"agents", "settings"}, optional
           |-> FALSE]
      /\ LoopLayer[7] = [name |-> "spawn", needs |-> {"subagents"}, optional |-> FALSE]
      /\ LoopLayer[8] = [name |-> "fork", needs |-> {"subagents"}, optional |-> FALSE]
      /\ LoopLayer[9] = [name |-> "toolSubagent", needs |-> {"agentPresets", "subagents",
           "tools"}, optional |-> FALSE]
  BY DEF LoopLayer, Service, Optional
<1>3. LoopLayer \in Seq({LoopLayer[i] : i \in 1..9}) BY DEF LoopLayer
<1> HIDE DEF LoopLayer
<1>4. IsLine(LoopLayer) BY <1>3 DEF IsLine
<1>5. Feeds(LoopLayer, P) BY <1>1, <1>2 DEF Feeds
<1>6. OnlyAdapters(LoopLayer) /\ NoRegistry(LoopLayer) BY <1>1, <1>2 DEF OnlyAdapters, NoRegistry
<1>7. {"subagents"} \subseteq Given(LoopLayer) BY <1>1, <1>2 DEF Given
<1> QED BY <1>1, <1>4, <1>5, <1>6, <1>7 DEF Fits

\* What runs code, where it can, initialize of session-store.ts: each finds what it injects.
LEMMA CodeLayerFits ==
    ASSUME NEW P, {"subagents", "tools"} \subseteq P
    PROVE  /\ Fits(CodeLayer, P) /\ NoRegistry(CodeLayer)
<1>1. CASE ~WorkerLoader
  <2>1. CodeLayer = <<>> /\ DOMAIN <<>> = {} /\ <<>> \in Seq({}) BY <1>1 DEF CodeLayer
  <2>2. IsLine(CodeLayer) BY <2>1 DEF IsLine
  <2> HIDE DEF CodeLayer
  <2>3. Feeds(CodeLayer, P) /\ OnlyAdapters(CodeLayer) /\ NoRegistry(CodeLayer)
    BY <2>1 DEF Feeds, OnlyAdapters, NoRegistry
  <2> QED BY <2>2, <2>3 DEF Fits
<1>2. CASE WorkerLoader
  <2>1. DOMAIN CodeLayer = 1..4 /\ Len(CodeLayer) = 4 BY <1>2 DEF CodeLayer
  <2>2. /\ CodeLayer[1] = [name |-> "workflows", needs |-> {"subagents"}, optional |->
             FALSE]
        /\ CodeLayer[2] = [name |-> "ptcRuntime", needs |-> {"tools"}, optional |-> FALSE]
        /\ CodeLayer[3] = [name |-> "toolWorkflow", needs |-> {"tools", "workflows"},
             optional |-> FALSE]
        /\ CodeLayer[4] = [name |-> "toolRalph", needs |-> {"tools", "workflows"}, optional
             |-> FALSE]
    BY <1>2 DEF CodeLayer, Service, Optional
  <2>3. CodeLayer \in Seq({CodeLayer[i] : i \in 1..4}) BY <1>2 DEF CodeLayer
  <2> HIDE DEF CodeLayer
  <2>4. IsLine(CodeLayer) BY <2>3 DEF IsLine
  <2>5. Feeds(CodeLayer, P) BY <2>1, <2>2 DEF Feeds
  <2>6. OnlyAdapters(CodeLayer) /\ NoRegistry(CodeLayer) BY <2>1, <2>2 DEF OnlyAdapters, NoRegistry
  <2> QED BY <2>1, <2>4, <2>5, <2>6 DEF Fits
<1> QED BY <1>1, <1>2

\* The last services, initialize of session-store.ts: each finds what it injects.
LEMMA LastLayerFits ==
    ASSUME NEW P, {"agents", "sessions", "shellEnv", "tools", "workingDirectory"} \subseteq
                  P
    PROVE  /\ Fits(LastLayer, P) /\ NoRegistry(LastLayer)
<1>1. DOMAIN LastLayer = 1..4 /\ Len(LastLayer) = 4 BY DEF LastLayer
<1>2. /\ LastLayer[1] = [name |-> "schedule", needs |-> {"sessions"}, optional |-> FALSE]
      /\ LastLayer[2] = [name |-> "toolSchedule", needs |-> {"schedule", "tools"},
           optional |-> FALSE]
      /\ LastLayer[3] = [name |-> "bash", needs |-> {"shellEnv", "tools",
           "workingDirectory"}, optional |-> FALSE]
      /\ LastLayer[4] = [name |-> "lateEvents", needs |-> {"agents", "sessions"},
           optional |-> FALSE]
  BY DEF LastLayer, Service, Optional
<1>3. LastLayer \in Seq({LastLayer[i] : i \in 1..4}) BY DEF LastLayer
<1> HIDE DEF LastLayer
<1>4. IsLine(LastLayer) BY <1>3 DEF IsLine
<1>5. Feeds(LastLayer, P) BY <1>1, <1>2 DEF Feeds
<1>6. OnlyAdapters(LastLayer) /\ NoRegistry(LastLayer) BY <1>1, <1>2 DEF OnlyAdapters, NoRegistry
<1> QED BY <1>1, <1>4, <1>5, <1>6 DEF Fits
\* A layer after another: what the first provides feeds the second.
LEMMA LayersJoin ==
    ASSUME NEW s, NEW t, Fits(s, {}), Fits(t, Given(s))
    PROVE  /\ Fits(s \o t, {}) /\ Given(s \o t) = Given(s) \cup Given(t)
           /\ Len(s) \in Nat /\ Len(t) \in Nat /\ Len(s \o t) = Len(s) + Len(t)
           /\ \A i \in DOMAIN (s \o t) :
                \/ i \in DOMAIN s /\ (s \o t)[i] = s[i]
                \/ i - Len(s) \in DOMAIN t /\ (s \o t)[i] = t[i - Len(s)]
           /\ DOMAIN s = 1..Len(s) /\ DOMAIN (s \o t) = 1..Len(s \o t)
<1>1. PICK S, T : s \in Seq(S) /\ t \in Seq(T) BY DEF Fits, IsLine
<1>2. s \in Seq(S \cup T) /\ t \in Seq(S \cup T) BY <1>1
<1> DEFINE u == s \o t
<1>3. /\ u \in Seq(S \cup T) /\ Len(u) = Len(s) + Len(t) /\ Len(s) \in Nat /\ Len(t) \in Nat
      /\ DOMAIN s = 1..Len(s) /\ DOMAIN t = 1..Len(t) /\ DOMAIN u = 1..Len(u)
      /\ \A i \in 1..Len(u) : u[i] = IF i <= Len(s) THEN s[i] ELSE t[i - Len(s)]
  BY <1>2, ConcatProperties, LenProperties
<1> HIDE DEF u
<1>4. \A i \in DOMAIN s : i \in DOMAIN u /\ u[i] = s[i] BY <1>3
<1>5. \A i \in DOMAIN t : Len(s) + i \in DOMAIN u /\ u[Len(s) + i] = t[i] BY <1>3
<1>6. \A i \in DOMAIN u : \/ i \in DOMAIN s /\ u[i] = s[i]
                          \/ i - Len(s) \in DOMAIN t /\ u[i] = t[i - Len(s)]
  BY <1>3
<1>7. Given(u) = Given(s) \cup Given(t)
  <2>1. ASSUME NEW n \in Given(u) PROVE n \in Given(s) \cup Given(t) BY <1>6 DEF Given
  <2>2. ASSUME NEW n \in Given(s) PROVE n \in Given(u) BY <1>4 DEF Given
  <2>3. ASSUME NEW n \in Given(t) PROVE n \in Given(u) BY <1>5 DEF Given
  <2> QED BY <2>1, <2>2, <2>3
<1>8. Feeds(u, {})
  <2> SUFFICES ASSUME NEW i \in DOMAIN u, NEW n \in u[i].needs
               PROVE  \E j \in DOMAIN u : j < i /\ u[j].name = n /\ ~u[j].optional
    BY DEF Feeds
  <2>1. CASE i \in DOMAIN s /\ u[i] = s[i]
    <3>1. PICK j \in DOMAIN s : j < i /\ s[j].name = n /\ ~s[j].optional BY <2>1 DEF Fits, Feeds
    <3> QED BY <3>1, <1>4
  <2>2. CASE i - Len(s) \in DOMAIN t /\ u[i] = t[i - Len(s)]
    <3>1. \/ n \in Given(s)
          \/ \E j \in DOMAIN t : j < i - Len(s) /\ t[j].name = n /\ ~t[j].optional
      BY <2>2 DEF Fits, Feeds
    <3>2. CASE n \in Given(s)
      <4>1. PICK j \in DOMAIN s : s[j].name = n /\ ~s[j].optional BY <3>2 DEF Given
      <4>2. j < i BY <1>3, <2>2
      <4> QED BY <4>1, <4>2, <1>4
    <3>3. CASE \E j \in DOMAIN t : j < i - Len(s) /\ t[j].name = n /\ ~t[j].optional
      <4>1. PICK j \in DOMAIN t : j < i - Len(s) /\ t[j].name = n /\ ~t[j].optional BY <3>3
      <4>2. Len(s) + j \in DOMAIN u /\ u[Len(s) + j] = t[j] /\ Len(s) + j < i BY <1>3, <1>5, <4>1
      <4> QED BY <4>1, <4>2
    <3> QED BY <3>1, <3>2, <3>3
  <2> QED BY <1>6, <2>1, <2>2
<1>9. OnlyAdapters(u) BY <1>6 DEF Fits, OnlyAdapters
<1> QED BY <1>3, <1>6, <1>7, <1>8, <1>9 DEF Fits, IsLine, u

\* The registry's services are mounted once, and in this order.
LEMMA RegistryJoins ==
    ASSUME NEW s, NEW t, Fits(s, {}), Fits(t, Given(s))
    PROVE  /\ NoRegistry(s) /\ NoRegistry(t) => NoRegistry(s \o t)
           /\ NoRegistry(s) /\ RegistryMounted(t) => RegistryMounted(s \o t)
           /\ RegistryMounted(s) /\ NoRegistry(t) => RegistryMounted(s \o t)
<1> DEFINE u == s \o t
<1>1. /\ \A i \in DOMAIN u : \/ i \in DOMAIN s /\ u[i] = s[i]
                             \/ i - Len(s) \in DOMAIN t /\ u[i] = t[i - Len(s)]
      /\ DOMAIN s = 1..Len(s) /\ DOMAIN u = 1..Len(u) /\ Len(s) \in Nat /\ Len(t) \in Nat
      /\ Len(u) = Len(s) + Len(t)
  BY LayersJoin
<1>2. DOMAIN t = 1..Len(t) BY LenProperties DEF Fits, IsLine
<1> HIDE DEF u
<1>3. ASSUME NoRegistry(s), NoRegistry(t) PROVE NoRegistry(u) BY <1>1, <1>3 DEF NoRegistry
<1>4. ASSUME NEW r \in Nat, r > 0, NoRegistry(s), RegistryOrder(t, r)
      PROVE  RegistryOrder(u, Len(s) + r)
  <2> SUFFICES ASSUME NEW i \in DOMAIN u
               PROVE  /\ u[i].name = "readFlag" <=> i = Len(s) + r
                      /\ u[i].name = "workspaceRegistry" <=> i = Len(s) + r + 1
                      /\ u[i].name = "defaultWorkspace" <=> i = Len(s) + r + 2
    BY DEF RegistryOrder
  <2>1. CASE i \in DOMAIN s /\ u[i] = s[i] BY <1>1, <1>4, <2>1 DEF NoRegistry
  <2>2. CASE i - Len(s) \in DOMAIN t /\ u[i] = t[i - Len(s)]
    <3>1. i \in Nat /\ Len(s) \in Nat BY <1>1
    <3> QED BY <3>1, <1>4, <2>2 DEF RegistryOrder
  <2> QED BY <1>1, <2>1, <2>2
<1>5. ASSUME NEW r \in Nat, RegistryOrder(s, r), r + 2 <= Len(s), NoRegistry(t)
      PROVE  RegistryOrder(u, r)
  <2> SUFFICES ASSUME NEW i \in DOMAIN u
               PROVE  /\ u[i].name = "readFlag" <=> i = r
                      /\ u[i].name = "workspaceRegistry" <=> i = r + 1
                      /\ u[i].name = "defaultWorkspace" <=> i = r + 2
    BY DEF RegistryOrder
  <2>1. CASE i \in DOMAIN s /\ u[i] = s[i] BY <1>5, <2>1 DEF RegistryOrder
  <2>2. CASE i - Len(s) \in DOMAIN t /\ u[i] = t[i - Len(s)]
    <3>1. i \in Nat /\ Len(s) \in Nat /\ i > Len(s) BY <1>1, <1>2, <2>2
    <3> QED BY <3>1, <1>5, <2>2 DEF NoRegistry
  <2> QED BY <1>1, <2>1, <2>2
<1>6. ASSUME NoRegistry(s), RegistryMounted(t) PROVE RegistryMounted(u)
  <2>1. PICK r \in Nat : r > 0 /\ r + 2 <= Len(t) /\ RegistryOrder(t, r) BY <1>6 DEF RegistryMounted
  <2>2. Len(s) + r \in Nat /\ Len(s) + r > 0 /\ Len(s) + r + 2 <= Len(u) BY <1>1, <2>1
  <2> QED BY <1>4, <1>6, <2>1, <2>2 DEF RegistryMounted
<1>7. ASSUME RegistryMounted(s), NoRegistry(t) PROVE RegistryMounted(u)
  <2>1. PICK r \in Nat : r > 0 /\ r + 2 <= Len(s) /\ RegistryOrder(s, r) BY <1>7 DEF RegistryMounted
  <2> QED BY <1>1, <1>5, <1>7, <2>1 DEF RegistryMounted
<1> QED BY <1>3, <1>6, <1>7 DEF u

\* initialize as a whole.
LEMMA InitializeFits ==
    /\ Fits(initialize, {}) /\ IsLine(initialize)
    /\ RegistryMounted(initialize)
    /\ {"sessionPersistence", "sessionQuery", "workspaceRegistry", "sessionController",
        "workspaceController", "typertGateway"} \subseteq Given(initialize)
<1> DEFINE s1 == StorageLayer
           s2 == s1 \o ModelLayer
           s3 == s2 \o SessionLayer
           s4 == s3 \o ToolLayer
           s5 == s4 \o GatewayLayer
           s6 == s5 \o AgentLayer
           s7 == s6 \o RegistryLayer
           s8 == s7 \o CatalogLayer
           s9 == s8 \o ControllerLayer
           s10 == s9 \o ExtensionLayer
           s11 == s10 \o FileToolLayer
           s12 == s11 \o GoalLayer
           s13 == s12 \o LoopLayer
           s14 == s13 \o CodeLayer
           s15 == s14 \o LastLayer
<1>0. initialize = s15 BY DEF initialize
<1>1. Fits(s1, {}) /\ NoRegistry(s1) /\ {"attachments", "credentials", "settings", "storageDomain"} \subseteq Given(s1)
  BY StorageLayerFits
<1>2. /\ Fits(s2, {}) /\ NoRegistry(s2)
      /\ {"attachments", "credentials", "llm", "settings", "storageDomain"} \subseteq
         Given(s2)
  <2>1. /\ Fits(ModelLayer, Given(s1)) /\ NoRegistry(ModelLayer)
       /\ {"llm"} \subseteq Given(ModelLayer)
    BY <1>1, ModelLayerFits
  <2> HIDE DEF s1
  <2>2. Fits(s2, {}) /\ Given(s2) = Given(s1) \cup Given(ModelLayer) /\ NoRegistry(s2)
    BY <1>1, <2>1, LayersJoin, RegistryJoins
  <2> HIDE DEF s2
  <2> QED BY <1>1, <2>1, <2>2
<1>3. /\ Fits(s3, {}) /\ NoRegistry(s3)
      /\ {"attachments", "credentials", "llm", "sessionProjections", "sessions",
         "settings", "storageDomain"} \subseteq Given(s3)
  <2>1. /\ Fits(SessionLayer, Given(s2)) /\ NoRegistry(SessionLayer)
       /\ {"sessionProjections", "sessions"} \subseteq Given(SessionLayer)
    BY <1>2, SessionLayerFits
  <2> HIDE DEF s2
  <2>2. Fits(s3, {}) /\ Given(s3) = Given(s2) \cup Given(SessionLayer) /\ NoRegistry(s3)
    BY <1>2, <2>1, LayersJoin, RegistryJoins
  <2> HIDE DEF s3
  <2> QED BY <1>2, <2>1, <2>2
<1>4. /\ Fits(s4, {}) /\ NoRegistry(s4)
      /\ {"attachments", "credentials", "fs", "llm", "sessionProjections", "sessions",
         "settings", "skills", "spillStore", "storageDomain", "systemPrompt", "tools"}
         \subseteq Given(s4)
  <2>1. /\ Fits(ToolLayer, Given(s3)) /\ NoRegistry(ToolLayer)
       /\ {"fs", "skills", "spillStore", "systemPrompt", "tools"} \subseteq Given(ToolLayer)
    BY <1>3, ToolLayerFits
  <2> HIDE DEF s3
  <2>2. Fits(s4, {}) /\ Given(s4) = Given(s3) \cup Given(ToolLayer) /\ NoRegistry(s4)
    BY <1>3, <2>1, LayersJoin, RegistryJoins
  <2> HIDE DEF s4
  <2> QED BY <1>3, <2>1, <2>2
<1>5. /\ Fits(s5, {}) /\ NoRegistry(s5)
      /\ {"attachments", "connection", "credentials", "fs", "llm", "sessionProjections",
         "sessions", "settings", "skills", "spillStore", "storageDomain", "systemPrompt",
         "tools", "typert", "typertGateway"} \subseteq Given(s5)
  <2>1. /\ Fits(GatewayLayer, Given(s4)) /\ NoRegistry(GatewayLayer)
       /\ {"connection", "typert", "typertGateway"} \subseteq Given(GatewayLayer)
    BY <1>4, GatewayLayerFits
  <2> HIDE DEF s4
  <2>2. Fits(s5, {}) /\ Given(s5) = Given(s4) \cup Given(GatewayLayer) /\ NoRegistry(s5)
    BY <1>4, <2>1, LayersJoin, RegistryJoins
  <2> HIDE DEF s5
  <2> QED BY <1>4, <2>1, <2>2
<1>6. /\ Fits(s6, {}) /\ NoRegistry(s6)
      /\ {"agents", "attachments", "connection", "credentials", "fs", "llm",
         "sessionProjections", "sessions", "settings", "shellEnv", "skills", "spillStore",
         "storageDomain", "systemPrompt", "tools", "typert", "typertGateway"} \subseteq
         Given(s6)
  <2>1. /\ Fits(AgentLayer, Given(s5)) /\ NoRegistry(AgentLayer)
       /\ {"agents", "shellEnv"} \subseteq Given(AgentLayer)
    BY <1>5, AgentLayerFits
  <2> HIDE DEF s5
  <2>2. Fits(s6, {}) /\ Given(s6) = Given(s5) \cup Given(AgentLayer) /\ NoRegistry(s6)
    BY <1>5, <2>1, LayersJoin, RegistryJoins
  <2> HIDE DEF s6
  <2> QED BY <1>5, <2>1, <2>2
<1>7. /\ Fits(s7, {}) /\ RegistryMounted(s7)
      /\ {"agents", "attachments", "connection", "credentials", "fs", "llm",
         "sessionPersistence", "sessionProjections", "sessions", "settings", "shellEnv",
         "skills", "spillStore", "systemPrompt", "tools", "typert", "typertGateway",
         "workspaceRegistry"} \subseteq Given(s7)
  <2>1. /\ Fits(RegistryLayer, Given(s6)) /\ RegistryMounted(RegistryLayer)
       /\ {"sessionPersistence", "workspaceRegistry"} \subseteq Given(RegistryLayer)
    BY <1>6, RegistryLayerFits
  <2> HIDE DEF s6
  <2>2. Fits(s7, {}) /\ Given(s7) = Given(s6) \cup Given(RegistryLayer) /\ RegistryMounted(s7)
    BY <1>6, <2>1, LayersJoin, RegistryJoins
  <2> HIDE DEF s7
  <2> QED BY <1>6, <2>1, <2>2
<1>8. /\ Fits(s8, {}) /\ RegistryMounted(s8)
      /\ {"agentDefaultModel", "agentPresets", "agents", "attachments", "connection",
         "credentials", "fs", "llm", "sessionPersistence", "sessionProjections",
         "sessionQuery", "sessions", "settings", "shellEnv", "skills", "spillStore",
         "systemPrompt", "tools", "typert", "typertGateway", "workspaceRegistry"} \subseteq
         Given(s8)
  <2>1. /\ Fits(CatalogLayer, Given(s7)) /\ NoRegistry(CatalogLayer)
       /\ {"agentDefaultModel", "agentPresets", "sessionQuery"} \subseteq
          Given(CatalogLayer)
    BY <1>7, CatalogLayerFits
  <2> HIDE DEF s7
  <2>2. Fits(s8, {}) /\ Given(s8) = Given(s7) \cup Given(CatalogLayer) /\ RegistryMounted(s8)
    BY <1>7, <2>1, LayersJoin, RegistryJoins
  <2> HIDE DEF s8
  <2> QED BY <1>7, <2>1, <2>2
<1>9. /\ Fits(s9, {}) /\ RegistryMounted(s9)
      /\ {"agentPresets", "agents", "approval", "connection", "credentials", "fs", "llm",
         "sessionController", "sessionPersistence", "sessionQuery", "sessions", "settings",
         "shellEnv", "skills", "spillStore", "systemPrompt", "tools", "typert",
         "typertGateway", "workspaceController", "workspaceRegistry"} \subseteq Given(s9)
  <2>1. /\ Fits(ControllerLayer, Given(s8)) /\ NoRegistry(ControllerLayer)
       /\ {"approval", "sessionController", "workspaceController"} \subseteq
          Given(ControllerLayer)
    BY <1>8, ControllerLayerFits
  <2> HIDE DEF s8
  <2>2. Fits(s9, {}) /\ Given(s9) = Given(s8) \cup Given(ControllerLayer) /\ RegistryMounted(s9)
    BY <1>8, <2>1, LayersJoin, RegistryJoins
  <2> HIDE DEF s9
  <2> QED BY <1>8, <2>1, <2>2
<1>10. /\ Fits(s10, {}) /\ RegistryMounted(s10)
      /\ {"agentPresets", "agents", "connection", "fs", "llm", "sessionController",
         "sessionPersistence", "sessionQuery", "sessions", "settings", "shellEnv",
         "skills", "spillStore", "systemPrompt", "tools", "typert", "typertGateway",
         "workspaceController", "workspaceRegistry"} \subseteq Given(s10)
  <2>1. /\ Fits(ExtensionLayer, Given(s9)) /\ NoRegistry(ExtensionLayer) BY <1>9, ExtensionLayerFits
  <2> HIDE DEF s9
  <2>2. Fits(s10, {}) /\ Given(s10) = Given(s9) \cup Given(ExtensionLayer) /\ RegistryMounted(s10)
    BY <1>9, <2>1, LayersJoin, RegistryJoins
  <2> HIDE DEF s10
  <2> QED BY <1>9, <2>1, <2>2
<1>11. /\ Fits(s11, {}) /\ RegistryMounted(s11)
      /\ {"agentPresets", "agents", "fs", "llm", "sessionController", "sessionPersistence",
         "sessionQuery", "sessions", "settings", "shellEnv", "spillStore", "systemPrompt",
         "tools", "typert", "typertGateway", "workingDirectory", "workspaceController",
         "workspaceRegistry"} \subseteq Given(s11)
  <2>1. /\ Fits(FileToolLayer, Given(s10)) /\ NoRegistry(FileToolLayer)
       /\ {"workingDirectory"} \subseteq Given(FileToolLayer)
    BY <1>10, FileToolLayerFits
  <2> HIDE DEF s10
  <2>2. Fits(s11, {}) /\ Given(s11) = Given(s10) \cup Given(FileToolLayer) /\ RegistryMounted(s11)
    BY <1>10, <2>1, LayersJoin, RegistryJoins
  <2> HIDE DEF s11
  <2> QED BY <1>10, <2>1, <2>2
<1>12. /\ Fits(s12, {}) /\ RegistryMounted(s12)
      /\ {"agentPresets", "agents", "llm", "sessionController", "sessionPersistence",
         "sessionQuery", "sessions", "settings", "shellEnv", "tools", "typert",
         "typertGateway", "workingDirectory", "workspaceController", "workspaceRegistry"}
         \subseteq Given(s12)
  <2>1. /\ Fits(GoalLayer, Given(s11)) /\ NoRegistry(GoalLayer) BY <1>11, GoalLayerFits
  <2> HIDE DEF s11
  <2>2. Fits(s12, {}) /\ Given(s12) = Given(s11) \cup Given(GoalLayer) /\ RegistryMounted(s12)
    BY <1>11, <2>1, LayersJoin, RegistryJoins
  <2> HIDE DEF s12
  <2> QED BY <1>11, <2>1, <2>2
<1>13. /\ Fits(s13, {}) /\ RegistryMounted(s13)
      /\ {"agents", "sessionController", "sessionPersistence", "sessionQuery", "sessions",
         "shellEnv", "subagents", "tools", "typertGateway", "workingDirectory",
         "workspaceController", "workspaceRegistry"} \subseteq Given(s13)
  <2>1. /\ Fits(LoopLayer, Given(s12)) /\ NoRegistry(LoopLayer)
       /\ {"subagents"} \subseteq Given(LoopLayer)
    BY <1>12, LoopLayerFits
  <2> HIDE DEF s12
  <2>2. Fits(s13, {}) /\ Given(s13) = Given(s12) \cup Given(LoopLayer) /\ RegistryMounted(s13)
    BY <1>12, <2>1, LayersJoin, RegistryJoins
  <2> HIDE DEF s13
  <2> QED BY <1>12, <2>1, <2>2
<1>14. /\ Fits(s14, {}) /\ RegistryMounted(s14)
      /\ {"agents", "sessionController", "sessionPersistence", "sessionQuery", "sessions",
         "shellEnv", "tools", "typertGateway", "workingDirectory", "workspaceController",
         "workspaceRegistry"} \subseteq Given(s14)
  <2>1. /\ Fits(CodeLayer, Given(s13)) /\ NoRegistry(CodeLayer) BY <1>13, CodeLayerFits
  <2> HIDE DEF s13
  <2>2. Fits(s14, {}) /\ Given(s14) = Given(s13) \cup Given(CodeLayer) /\ RegistryMounted(s14)
    BY <1>13, <2>1, LayersJoin, RegistryJoins
  <2> HIDE DEF s14
  <2> QED BY <1>13, <2>1, <2>2
<1>15. /\ Fits(s15, {}) /\ RegistryMounted(s15)
      /\ {"sessionController", "sessionPersistence", "sessionQuery", "typertGateway",
         "workspaceController", "workspaceRegistry"} \subseteq Given(s15)
  <2>1. /\ Fits(LastLayer, Given(s14)) /\ NoRegistry(LastLayer) BY <1>14, LastLayerFits
  <2> HIDE DEF s14
  <2>2. Fits(s15, {}) /\ Given(s15) = Given(s14) \cup Given(LastLayer) /\ RegistryMounted(s15)
    BY <1>14, <2>1, LayersJoin, RegistryJoins
  <2> HIDE DEF s15
  <2> QED BY <1>14, <2>1, <2>2
<1> HIDE DEF s15
<1> QED BY <1>0, <1>15 DEF Fits

\* Where the flag is read.
RegistryAt == CHOOSE r \in Nat : r > 0 /\ r + 2 <= Len(initialize) /\ RegistryOrder(initialize, r)

\* A start so far: nothing waits, whatever cannot fail runs, the flag tells of
\* every removal and is read before the default workspace may be created.
StartInv ==
    /\ at \in 1..(Len(initialize) + 1) /\ phase \in {"starting", "ready", "failed"}
    /\ starts \in Nat /\ starts >= 1
    /\ sawFlag \in BOOLEAN /\ flag \in BOOLEAN /\ removed \in BOOLEAN
    /\ waiting = {}
    /\ phase # "failed" =>
         \A j \in 1..(at - 1) : initialize[j].optional \/ initialize[j].name \in provided
    /\ phase = "ready" => at = Len(initialize) + 1
    /\ removed => flag /\ "default" \notin workspaces
    /\ "default" \in workspaces => flag
    /\ phase = "starting" /\ at > RegistryAt /\ removed => sawFlag
    /\ starts = 1 /\ phase = "starting" =>
         /\ ~removed
         /\ at <= RegistryAt + 1 => ~flag
         /\ at <= RegistryAt + 2 => ~sawFlag /\ workspaces = {}
         /\ at > RegistryAt + 2 => "default" \in workspaces
    /\ starts = 1 /\ phase = "ready" /\ ~removed => "default" \in workspaces

\* What the invariant needs to know of the sequence.
LEMMA InitializeIs ==
    /\ Len(initialize) \in Nat /\ DOMAIN initialize = 1..Len(initialize)
    /\ RegistryAt \in Nat /\ RegistryAt > 0 /\ RegistryAt + 2 <= Len(initialize)
    /\ \A i \in 1..Len(initialize) :
         /\ initialize[i].name = "readFlag" <=> i = RegistryAt
         /\ initialize[i].name = "workspaceRegistry" <=> i = RegistryAt + 1
         /\ initialize[i].name = "defaultWorkspace" <=> i = RegistryAt + 2
         /\ initialize[i].optional => initialize[i].name \in {"deepseek-official", "piai"}
         /\ \A n \in initialize[i].needs :
              \E j \in 1..(i - 1) : initialize[j].name = n /\ ~initialize[j].optional
    /\ \A n \in {"sessionPersistence", "sessionQuery", "workspaceRegistry", "sessionController",
                 "workspaceController", "typertGateway"} :
         \E i \in 1..Len(initialize) : initialize[i].name = n /\ ~initialize[i].optional
<1>1. Len(initialize) \in Nat /\ DOMAIN initialize = 1..Len(initialize)
  BY InitializeFits, LenProperties DEF IsLine
<1>2. /\ RegistryAt \in Nat /\ RegistryAt > 0 /\ RegistryAt + 2 <= Len(initialize)
      /\ RegistryOrder(initialize, RegistryAt)
  BY InitializeFits DEF RegistryMounted, RegistryAt
<1>3. /\ Feeds(initialize, {}) /\ OnlyAdapters(initialize)
      /\ {"sessionPersistence", "sessionQuery", "workspaceRegistry", "sessionController",
          "workspaceController", "typertGateway"} \subseteq Given(initialize)
  BY InitializeFits DEF Fits
<1> HIDE DEF initialize, RegistryAt
<1>4. \A i \in 1..Len(initialize) :
         /\ initialize[i].name = "readFlag" <=> i = RegistryAt
         /\ initialize[i].name = "workspaceRegistry" <=> i = RegistryAt + 1
         /\ initialize[i].name = "defaultWorkspace" <=> i = RegistryAt + 2
         /\ initialize[i].optional => initialize[i].name \in {"deepseek-official", "piai"}
  BY <1>1, <1>2, <1>3 DEF RegistryOrder, OnlyAdapters
<1>5. ASSUME NEW i \in 1..Len(initialize), NEW n \in initialize[i].needs
      PROVE  \E j \in 1..(i - 1) : initialize[j].name = n /\ ~initialize[j].optional
  <2>1. PICK j \in DOMAIN initialize : j < i /\ initialize[j].name = n /\ ~initialize[j].optional
    BY <1>1, <1>3 DEF Feeds
  <2> QED BY <1>1, <2>1
<1>6. \A n \in Given(initialize) :
         \E i \in 1..Len(initialize) : initialize[i].name = n /\ ~initialize[i].optional
  BY <1>1 DEF Given
<1> QED BY <1>1, <1>2, <1>3, <1>4, <1>5, <1>6

\* Before the first start nothing is provided, and initialize is not begun.
LEMMA StartInvInit == StartInit => StartInv
<1>1. /\ Len(initialize) \in Nat /\ RegistryAt \in Nat /\ RegistryAt > 0
      /\ RegistryAt + 2 <= Len(initialize)
  BY InitializeIs
<1>2. 1 \in 1..(Len(initialize) + 1) /\ ~(1 > RegistryAt) /\ 1..(1 - 1) = {} BY <1>1
<1> SUFFICES ASSUME StartInit PROVE StartInv OBVIOUS
<1>3. at = 1 /\ waiting = {} /\ sawFlag = FALSE /\ flag = FALSE /\ workspaces = {} /\ starts = 1
      /\ removed = FALSE /\ phase = "starting"
  BY DEF StartInit
<1>4. \A j \in 1..(at - 1) : FALSE BY <1>2, <1>3
<1>5. at <= RegistryAt + 2 /\ ~(at > RegistryAt) /\ ~(at > RegistryAt + 2) BY <1>1, <1>3
<1>6. sawFlag \in BOOLEAN /\ flag \in BOOLEAN /\ removed \in BOOLEAN /\ ~sawFlag /\ ~flag /\ ~removed
  BY <1>3
<1>7. /\ at \in 1..(Len(initialize) + 1) /\ phase \in {"starting", "ready", "failed"}
      /\ phase # "ready" /\ starts \in Nat /\ starts >= 1 /\ "default" \notin workspaces
  BY <1>2, <1>3
<1> QED BY <1>3, <1>4, <1>5, <1>6, <1>7, Zenon DEF StartInv

\* The next service finds what it injects: the ones before it in initialize
\* provide it, and only an adapter may have failed.
LEMMA MountStep == ASSUME StartInv, mount PROVE StartInv'
<1> DEFINE N == Len(initialize)
           R == RegistryAt
           m == initialize[at]
<1>1. /\ N \in Nat /\ R \in Nat /\ R > 0 /\ R + 2 <= N
      /\ phase = "starting" /\ at \in 1..N /\ at' = at + 1
      /\ UNCHANGED <<phase, starts, removed>>
  BY InitializeIs DEF StartInv, mount
<1>2. /\ m.name = "readFlag" <=> at = R
      /\ m.name = "workspaceRegistry" <=> at = R + 1
      /\ m.name = "defaultWorkspace" <=> at = R + 2
  BY <1>1, InitializeIs
<1>3. m.needs \subseteq provided BY <1>1, InitializeIs DEF StartInv
<1>4. waiting' = {} /\ provided \cup {m.name} \subseteq provided'
  BY <1>3 DEF mount, Provide, Mounting, StartInv
<1>5. \A j \in 1..(at' - 1) : initialize[j].optional \/ initialize[j].name \in provided'
  BY <1>1, <1>4 DEF StartInv
<1>6. sawFlag' = IF at = R THEN flag ELSE sawFlag BY <1>2 DEF mount, Mounting
<1>7. CASE at = R + 1
  <2>1. flag' = (flag \/ FlagOnLoad) /\ workspaces' = workspaces /\ sawFlag' = sawFlag
    BY <1>1, <1>2, <1>6, <1>7 DEF mount, Mounting
  <2> HIDE DEF N, R, m
  <2> QED BY <1>1, <1>4, <1>5, <1>7, <2>1 DEF StartInv, N, R
<1>8. CASE at = R + 2 /\ CreateDefault
  <2>1. flag' = TRUE /\ workspaces' = {"default"} /\ sawFlag' = sawFlag
    BY <1>1, <1>2, <1>6, <1>8 DEF mount, Mounting
  <2>2. ~removed BY <1>1, <1>8 DEF StartInv, CreateDefault
  <2> QED BY <1>1, <1>4, <1>5, <1>8, <2>1, <2>2 DEF StartInv
<1>9. CASE at # R + 1 /\ ~(at = R + 2 /\ CreateDefault)
  <2>1. flag' = flag /\ workspaces' = workspaces BY <1>2, <1>9 DEF mount, Mounting
  <2>2. starts = 1 => at # R + 2 BY <1>1, <1>9 DEF StartInv, CreateDefault
  <2> QED BY <1>1, <1>4, <1>5, <1>6, <1>9, <2>1, <2>2 DEF StartInv
<1> QED BY <1>7, <1>8, <1>9

\* A service that throws ends the start unless it is an adapter.
LEMMA MountFailsStep == ASSUME StartInv, mountFails PROVE StartInv'
<1>1. /\ phase = "starting" /\ at \in 1..Len(initialize)
      /\ UNCHANGED <<provided, waiting, sawFlag, flag, workspaces, starts, removed>>
  BY InitializeIs DEF StartInv, mountFails
<1>2. CASE initialize[at].optional
  <2>1. at' = at + 1 /\ phase' = phase BY <1>2 DEF mountFails, Mounting
  <2>2. at \notin {RegistryAt, RegistryAt + 1, RegistryAt + 2} BY <1>1, <1>2, InitializeIs
  <2> QED BY <1>1, <1>2, <2>1, <2>2, InitializeIs DEF StartInv
<1>3. CASE ~initialize[at].optional
  <2>1. phase' = "failed" /\ at' = at BY <1>3 DEF mountFails, Mounting
  <2> QED BY <1>1, <2>1 DEF StartInv
<1> QED BY <1>2, <1>3

\* After the last service the start is ready.
LEMMA FinishStep == ASSUME StartInv, finish PROVE StartInv'
BY InitializeIs DEF StartInv, finish

\* Another start of the object begins with what is stored.
LEMMA StartAgainStep == ASSUME StartInv, startAgain PROVE StartInv'
<1>1. /\ Len(initialize) \in Nat /\ RegistryAt \in Nat /\ RegistryAt > 0
      /\ RegistryAt + 2 <= Len(initialize)
  BY InitializeIs
<1>2. 1 \in 1..(Len(initialize) + 1) /\ ~(1 > RegistryAt) /\ 1..(1 - 1) = {} BY <1>1
<1>3. starts' \in Nat /\ starts' >= 1 /\ starts' # 1 BY DEF StartInv, startAgain
<1> QED BY <1>2, <1>3 DEF StartInv, startAgain

\* The owner adds and removes workspaces once the object is ready.
LEMMA EditStep == ASSUME StartInv, editWorkspaces PROVE StartInv'
BY DEF StartInv, editWorkspaces

\* The invariant outlives every step of a start and every edit after it.
LEMMA StartInvStep == StartInv /\ [StartNext]_startVars => StartInv'
<1> SUFFICES ASSUME StartInv, [StartNext]_startVars PROVE StartInv' OBVIOUS
<1>1. CASE UNCHANGED startVars BY <1>1 DEF startVars, StartInv
<1> QED BY <1>1, MountStep, MountFailsStep, FinishStep, StartAgainStep, EditStep DEF StartNext

\* Nothing is left waiting, and the default workspace does not come back.
LEMMA StartHolds == StartInv => NothingIsLeftWaiting /\ RemovalStays
<1> SUFFICES ASSUME StartInv PROVE NothingIsLeftWaiting /\ RemovalStays OBVIOUS
<1>1. RemovalStays BY DEF StartInv, RemovalStays
<1>2. ASSUME phase = "ready", NEW i \in DOMAIN initialize
      PROVE  initialize[i].name \in provided \/ initialize[i].name \in {"deepseek-official", "piai"}
  BY <1>2, InitializeIs DEF StartInv
<1>3. ASSUME phase = "ready"
      PROVE  {"sessionPersistence", "sessionQuery", "workspaceRegistry", "sessionController",
              "workspaceController", "typertGateway"} \subseteq provided
  BY <1>3, InitializeIs DEF StartInv
<1>4. ASSUME phase = "ready" PROVE assertReady = ("deepseek-official" \in provided)
  <2>1. CASE "deepseek-official" \in provided BY <1>3, <1>4, <2>1 DEF assertReady
  <2>2. CASE "deepseek-official" \notin provided
    <3>1. assertReady => "deepseek-official" \in provided BY DEF assertReady
    <3>2. assertReady \in BOOLEAN BY DEF assertReady
    <3> QED BY <2>2, <3>1, <3>2
  <2> QED BY <2>1, <2>2
<1>5. phase = "ready" => {initialize[i].name : i \in DOMAIN initialize} \ provided
                            \subseteq {"deepseek-official", "piai"}
  BY <1>2
<1> QED BY <1>1, <1>4, <1>5 DEF NothingIsLeftWaiting, StartInv

----------------------------------------
\* The storage unit.  A record without a stamp was written by the release
\* the unit stamp names; a stamped one lies in a per-record unit.

StoredRecord == [value : Nat, stamp : Versions \cup {NoStamp}, by : Versions]
UnitTypes ==
    /\ version \in Versions /\ layout \in {"single", "perRecord"}
    /\ unit \in Versions \cup {NoStamp, Malformed}
    /\ records \in [Keys \cup {Global} -> StoredRecord \cup {NoRecord}]
    /\ legacyVersion \in Versions \cup {NoStamp}
    /\ writes \in Nat /\ minute \in Nat /\ minute >= 1

\* A record without a stamp was written by the version the unit stamp names.
WrittenBy(r) ==
    r # NoRecord =>
      /\ r.stamp = NoStamp => r.by = unit
      /\ r.stamp # NoStamp => r.by = r.stamp /\ layout = "perRecord"
StampInv ==
    /\ UnitTypes
    /\ \A k \in Keys \cup {Global} : WrittenBy(records[k])
    /\ legacyVersion # NoStamp => legacyVersion = unit /\ pc = "running"
    /\ pc = "running" => /\ legacyVersion # NoStamp
                         /\ layout = "single" => unit = version
    /\ moving # {} => pc = "running"
    /\ moving \subseteq Keys
    /\ \A b \in backups : b.version = b.record.by
    /\ MovedIsCopied

\* A unit as an earlier release left it: records without stamps are of the
\* release the unit stamp names.
LEMMA StampInvInit == UnitInit => StampInv
<1> SUFFICES ASSUME UnitInit PROVE StampInv OBVIOUS
<1>1. \A k \in Keys \cup {Global} :
        records[k] = NoRecord \/ (unit \in Versions /\ records[k] = [value |-> 1, stamp |-> NoStamp, by |-> unit])
  BY DEF UnitInit
<1>2. UnitTypes BY <1>1, VersionsAreNumbers DEF UnitInit, UnitTypes, StoredRecord, NoRecord, NoStamp
<1>3. \A k \in Keys \cup {Global} : WrittenBy(records[k]) BY <1>1 DEF WrittenBy
<1> QED BY <1>2, <1>3 DEF StampInv, UnitInit, MovedIsCopied

\* Opening stamps a unit that had no stamp, and refuses one it cannot read.
LEMMA OpenStep == ASSUME StampInv, open PROVE StampInv'
<1>0. UnitTypes /\ legacyVersion = NoStamp /\ moving = {} BY DEF StampInv, open
<1>1. CASE unit = Malformed \/ (layout = "single" /\ unit \notin {NoStamp, version})
  BY <1>0, <1>1 DEF StampInv, open, UnitTypes, WrittenBy, MovedIsCopied, Context, Goes
<1>2. CASE ~(unit = Malformed \/ (layout = "single" /\ unit \notin {NoStamp, version}))
  <2>1. /\ pc' = "running" /\ unit' = (IF unit = NoStamp THEN version ELSE unit)
        /\ legacyVersion' = unit'
        /\ UNCHANGED <<version, layout, minute, records, backups, moving, writes>>
    BY <1>2 DEF open, Context, Goes
  <2>2. unit' \in Versions /\ (layout = "single" => unit' = version)
    BY <1>0, <1>2, <2>1 DEF UnitTypes
  <2>3. UnitTypes' BY <1>0, <2>1, <2>2 DEF UnitTypes
  <2>4. \A k \in Keys \cup {Global} : WrittenBy(records[k])'
    <3> SUFFICES ASSUME NEW k \in Keys \cup {Global}, records[k] # NoRecord
                 PROVE  /\ records[k].stamp = NoStamp => records[k].by = unit'
                        /\ records[k].stamp # NoStamp => records[k].by = records[k].stamp
                                                          /\ layout = "perRecord"
      BY <2>1 DEF WrittenBy
    <3>1. WrittenBy(records[k]) /\ records[k].by \in Versions
      BY <1>0 DEF StampInv, UnitTypes, StoredRecord
    <3> QED BY <3>1, <2>1, VersionsAreNumbers DEF WrittenBy, NoStamp
  <2>5. unit' # NoStamp BY <2>2, VersionsAreNumbers DEF NoStamp
  <2> QED BY <1>0, <2>1, <2>2, <2>3, <2>4, <2>5 DEF StampInv, MovedIsCopied
<1> QED BY <1>1, <1>2

\* A record is stamped when the unit's stamp does not name its writer.
LEMMA PutStep == ASSUME NEW k \in Keys \cup {Global}, StampInv, putRecord(k) PROVE StampInv'
<1> DEFINE n == [value |-> writes + 1,
                 stamp |-> IF layout = "single" THEN NoStamp ELSE version, by |-> version]
<1>1. /\ UnitTypes /\ pc = "running" /\ moving = {} /\ records' = [records EXCEPT ![k] = n]
      /\ writes' = writes + 1
      /\ UNCHANGED <<version, layout, minute, pc, unit, backups, moving, legacyVersion>>
  BY DEF StampInv, putRecord, Context
<1>2. n \in StoredRecord BY <1>1 DEF UnitTypes, StoredRecord
<1>3. /\ n.stamp = NoStamp => n.by = unit'
      /\ n.stamp # NoStamp => n.by = n.stamp /\ layout' = "perRecord"
  BY <1>1, VersionsAreNumbers DEF StampInv, UnitTypes, NoStamp
<1> HIDE DEF n
<1>4. UnitTypes' BY <1>1, <1>2 DEF UnitTypes
<1>5. ASSUME NEW j \in Keys \cup {Global} PROVE WrittenBy(records[j])'
  <2>1. records'[j] = IF j = k THEN n ELSE records[j] BY <1>1 DEF UnitTypes
  <2>2. WrittenBy(records[j]) BY DEF StampInv
  <2> QED BY <1>1, <1>3, <2>1, <2>2 DEF WrittenBy
<1> QED BY <1>1, <1>4, <1>5 DEF StampInv, MovedIsCopied

\* Deleting records never makes another one's stamp wrong.
LEMMA RecordsGo ==
    ASSUME StampInv, moving' = {}, NEW G \in SUBSET (Keys \cup {Global}), moving # {} \/ pc = "running",
           records' = [k \in Keys \cup {Global} |-> IF k \in G THEN NoRecord ELSE records[k]],
           UNCHANGED <<version, layout, minute, pc, unit, backups, legacyVersion, writes>>
    PROVE  StampInv'
<1>1. UnitTypes' BY DEF StampInv, UnitTypes
<1>2. \A k \in Keys \cup {Global} : WrittenBy(records[k])' BY DEF StampInv, WrittenBy
<1> QED BY <1>1, <1>2 DEF StampInv, MovedIsCopied

\* delete of one record.
LEMMA DeleteStep == ASSUME NEW k \in Keys, StampInv, deleteRecord(k) PROVE StampInv'
<1>1. records' = [j \in Keys \cup {Global} |-> IF j \in {k} THEN NoRecord ELSE records[j]]
  BY DEF StampInv, UnitTypes, deleteRecord
<1> QED BY <1>1, RecordsGo DEF deleteRecord, Context

\* The move of unreadable records ends with their deletion.
LEMMA BackupDeletesStep == ASSUME StampInv, backupDeletes PROVE StampInv'
<1>1. records' = [j \in Keys \cup {Global} |-> IF j \in moving THEN NoRecord ELSE records[j]]
  BY DEF StampInv, UnitTypes, backupDeletes
<1> QED BY <1>1, RecordsGo DEF backupDeletes, Context, StampInv

\* The move of an unreadable record begins with its copy, under its version.
LEMMA BackupCopiesStep == ASSUME NEW k \in Keys, StampInv, backupCopies(k) PROVE StampInv'
<1> DEFINE b == [key |-> k, minute |-> minute, record |-> records[k], version |-> StampOf(records[k])]
<1>1. /\ pc = "running" /\ layout = "perRecord" /\ moving = {} /\ records[k] # NoRecord
      /\ backups' = {x \in backups : x.key # k \/ x.minute # minute} \cup {b} /\ moving' = {k}
      /\ UNCHANGED <<version, layout, minute, pc, unit, records, legacyVersion, writes>>
  BY DEF backupCopies, Context
<1>2. StampOf(records[k]) = records[k].by BY <1>1 DEF StampInv, WrittenBy, StampOf
<1>3. b.version = b.record.by /\ b.key = k /\ b.record = records[k] BY <1>2
<1> HIDE DEF b
<1>4. \A x \in backups' : x.version = x.record.by BY <1>1, <1>3 DEF StampInv
<1>5. MovedIsCopied' BY <1>1, <1>3 DEF MovedIsCopied
<1>6. UnitTypes' /\ \A j \in Keys \cup {Global} : WrittenBy(records[j])'
  BY <1>1 DEF StampInv, UnitTypes, WrittenBy
<1> QED BY <1>1, <1>4, <1>5, <1>6 DEF StampInv

\* The steps of the start, and those that leave the unit and its records.
LEMMA UnitRests ==
    ASSUME StampInv, UNCHANGED <<version, layout, unit, records, backups, writes>>,
           minute' \in Nat, minute' >= 1,
           \/ UNCHANGED <<legacyVersion, moving, pc>>
           \/ UNCHANGED <<legacyVersion, moving>> /\ pc # "running" /\ pc' # "running"
           \/ legacyVersion' = NoStamp /\ moving' = {} /\ pc' # "running"
    PROVE  StampInv'
<1>1. UnitTypes' BY DEF StampInv, UnitTypes
<1>2. \A k \in Keys \cup {Global} : WrittenBy(records[k])' BY DEF StampInv, WrittenBy
<1> QED BY <1>1, <1>2 DEF StampInv, MovedIsCopied

\* Another release opens the unit next.
LEMMA RestartStep == ASSUME StampInv, restartUnit PROVE StampInv'
<1>1. UnitTypes' BY DEF StampInv, UnitTypes, restartUnit
<1>2. \A k \in Keys \cup {Global} : WrittenBy(records[k])' BY DEF StampInv, WrittenBy, restartUnit
<1> QED BY <1>1, <1>2 DEF StampInv, MovedIsCopied, restartUnit

\* The invariant outlives every step of the unit and of the migration.
LEMMA StampInvStep == StampInv /\ [UnitNext]_unitVars => StampInv'
<1> SUFFICES ASSUME StampInv, [UnitNext]_unitVars PROVE StampInv' OBVIOUS
<1>0. UnitTypes BY DEF StampInv
<1>1. CASE migrateState
  BY <1>0, <1>1, UnitRests DEF migrateState, Goes, Context, UnitState, UnitTypes
<1>2. CASE migrateStamp
  BY <1>0, <1>2, UnitRests DEF migrateStamp, Goes, Context, UnitState, UnitTypes
<1>3. CASE migrateRecord
  BY <1>0, <1>3, UnitRests DEF migrateRecord, Goes, Context, UnitState, UnitTypes
<1>4. CASE migrationDeletes
  BY <1>0, <1>4, UnitRests DEF migrationDeletes, Goes, Context, UnitState, UnitTypes
<1>5. CASE beginRepair BY <1>0, <1>5, UnitRests DEF beginRepair, Goes, Context, UnitState, UnitTypes
<1>6. CASE repairRecord
  BY <1>0, <1>6, UnitRests DEF repairRecord, Goes, Context, UnitState, UnitTypes
<1>7. CASE open BY <1>7, OpenStep
<1>8. CASE close BY <1>0, <1>8, UnitRests DEF close, Goes, Context, UnitTypes
<1>9. CASE restartUnit BY <1>9, RestartStep
<1>10. CASE MinutePasses BY <1>0, <1>10, UnitRests DEF MinutePasses, UnitState, UnitTypes
<1>11. CASE backupDeletes BY <1>11, BackupDeletesStep
<1>12. ASSUME NEW k \in Keys \cup {Global}, putRecord(k) PROVE StampInv' BY <1>12, PutStep
<1>13. ASSUME NEW k \in Keys, deleteRecord(k) \/ backupCopies(k) PROVE StampInv'
  BY <1>13, DeleteStep, BackupCopiesStep
<1>14. CASE UNCHANGED unitVars BY <1>0, <1>14, UnitRests DEF unitVars, UnitTypes
<1> QED BY <1>1, <1>2, <1>3, <1>4, <1>5, <1>6, <1>7, <1>8, <1>9, <1>10, <1>11, <1>12, <1>13,
  <1>14 DEF UnitNext

\* What a record's stamp, or the unit's, names is its writer.
LEMMA StampsHold == StampInv => StampsTellTheWriter /\ MovedIsCopied
<1> SUFFICES ASSUME StampInv PROVE StampsTellTheWriter BY DEF StampInv
<1>1. ASSUME pc = "running", NEW k \in loadAll PROVE records[k].by \in acceptedVersions
  <2>1. /\ k \in Keys \cup {Global} /\ records[k] # NoRecord /\ isReadable(records[k])
        /\ WrittenBy(records[k]) /\ legacyVersion = unit
    BY <1>1 DEF loadAll, StampInv
  <2>2. CASE layout = "single" BY <1>1, <2>1, <2>2 DEF WrittenBy, StampInv, acceptedVersions
  <2>3. CASE layout # "single" BY <2>1, <2>3 DEF WrittenBy, isReadable, StampOf
  <2> QED BY <2>2, <2>3
<1>2. ASSUME legacyVersion # NoStamp, NEW k \in Keys \cup {Global}, records[k] # NoRecord
      PROVE  StampOf(records[k]) = records[k].by
  BY <1>2 DEF StampInv, WrittenBy, StampOf
<1> QED BY <1>1, <1>2 DEF StampInv, StampsTellTheWriter

----------------------------------------
(* The migration of the workspaces. *)

Dated == \A w \in DOMAIN workspace.records : ~Undated(workspace.records[w])
AllStored == /\ DOMAIN workspace.records = workspace.known
             /\ workspace.known \subseteq workspace.order
             /\ workspace.known # {} => workspace.stamp = 2
OldKept == DOMAIN old.records = workspace.known

MoveInv ==
    /\ minute \in Nat /\ minute >= 1
    /\ workspace = [order |-> workspace.order, records |-> workspace.records,
                    stamp |-> workspace.stamp, repaired |-> workspace.repaired,
                    known |-> workspace.known]
    /\ DOMAIN workspace.records \subseteq workspace.known
    /\ OldKept \/ (AllStored /\ ~old.state /\ old.records = <<>>)
    /\ pc \in {"stamp", "records", "delete"} => OldKept /\ workspace.known \subseteq workspace.order
    /\ pc \in {"stamp", "records"} => todo \subseteq workspace.known
    /\ pc \in {"records", "delete"} => workspace.stamp = 2
    /\ pc = "stamp" => todo = workspace.known
    /\ pc = "records" => workspace.known \ todo \subseteq DOMAIN workspace.records
    /\ pc = "delete" => DOMAIN workspace.records = workspace.known
    /\ pc \in {"repair", "repairing", "open", "running", "refused"} => AllStored
    /\ pc = "repairing" => /\ todo \subseteq DOMAIN workspace.records
                           /\ \A w \in DOMAIN workspace.records \ todo : ~Undated(workspace.records[w])
    /\ workspace.repaired => Dated
    /\ pc \in {"open", "running", "refused"} => Dated

\* repairEpoch0 gives a date that is not the epoch.
LEMMA RepairDates ==
    ASSUME minute \in Nat, minute >= 1, NEW t PROVE ~Undated(repairEpoch0(t))
BY DEF Undated, repairEpoch0, Epoch

\* Before the migration the old record has every workspace, or the new ones do.
LEMMA MoveInvInit == UnitInit => MoveInv
<1> SUFFICES ASSUME UnitInit PROVE MoveInv OBVIOUS
<1>6. PICK known \in SUBSET Workspaces :
       \E times \in [known -> Times], moved \in BOOLEAN :
         /\ workspace = [order |-> IF moved THEN known ELSE {},
                         records |-> IF moved THEN times ELSE <<>>,
                         stamp |-> IF moved THEN 2 ELSE NoStamp,
                         repaired |-> FALSE, known |-> known]
         /\ IF moved THEN old = [state |-> FALSE, records |-> <<>>]
                     ELSE \E s \in BOOLEAN : old = [state |-> s, records |-> times]
  BY DEF UnitInit
<1>1. PICK times \in [known -> Times], moved \in BOOLEAN :
       /\ workspace = [order |-> IF moved THEN known ELSE {},
                       records |-> IF moved THEN times ELSE <<>>,
                       stamp |-> IF moved THEN 2 ELSE NoStamp,
                       repaired |-> FALSE, known |-> known]
       /\ IF moved THEN old = [state |-> FALSE, records |-> <<>>]
                   ELSE \E s \in BOOLEAN : old = [state |-> s, records |-> times]
  BY <1>6
<1>2. DOMAIN <<>> = {} OBVIOUS
<1>3. pc = "state" /\ minute = 1 BY DEF UnitInit
<1>4. CASE moved BY <1>1, <1>2, <1>3, <1>4 DEF MoveInv, OldKept, AllStored
<1>5. CASE ~moved BY <1>1, <1>2, <1>3, <1>5 DEF MoveInv, OldKept, AllStored
<1> QED BY <1>4, <1>5

\* The order of the old state is written first.
LEMMA MigrateStateStep == ASSUME MoveInv, migrateState PROVE MoveInv'
<1>0. DOMAIN <<>> = {} /\ pc = "state" /\ UNCHANGED <<old, minute>> BY DEF migrateState, Context
<1>1. CASE ~old.state /\ old.records = <<>>
  <2>1. AllStored BY <1>0, <1>1 DEF MoveInv, OldKept, AllStored
  <2>2. pc' = "repair" /\ UNCHANGED <<workspace, todo>> BY <1>1 DEF migrateState, Goes
  <2> QED BY <1>0, <2>1, <2>2 DEF MoveInv, OldKept, AllStored, Dated, Undated
<1>2. CASE ~(~old.state /\ old.records = <<>>)
  <2>1. OldKept BY <1>2 DEF MoveInv
  <2> DEFINE o == IF old.state THEN workspace.known ELSE DOMAIN old.records
  <2>2. pc' = "stamp" /\ workspace' = [workspace EXCEPT !.order = o] /\ todo' = DOMAIN old.records
    BY <1>2 DEF migrateState, Goes
  <2>3. o = workspace.known BY <2>1 DEF OldKept
  <2> HIDE DEF o
  <2>4. /\ workspace'.order = workspace.known /\ workspace'.known = workspace.known
        /\ workspace'.records = workspace.records /\ workspace'.repaired = workspace.repaired
        /\ workspace' = [order |-> workspace'.order, records |-> workspace'.records,
                    stamp |-> workspace'.stamp, repaired |-> workspace'.repaired,
                    known |-> workspace'.known]
    BY <2>2, <2>3 DEF MoveInv
  <2> QED BY <1>0, <2>1, <2>2, <2>4 DEF MoveInv, OldKept, Dated, Undated
<1> QED BY <1>1, <1>2

\* Then the stamp of the workspace unit.
LEMMA MigrateStampStep == ASSUME MoveInv, migrateStamp PROVE MoveInv'
<1>1. /\ pc = "stamp" /\ pc' = "records" /\ UNCHANGED <<old, minute, todo>>
      /\ workspace' = [workspace EXCEPT !.stamp = 2]
  BY DEF migrateStamp, Context, Goes
<1>2. /\ workspace'.order = workspace.order /\ workspace'.known = workspace.known /\ workspace'.stamp = 2
      /\ workspace'.records = workspace.records /\ workspace'.repaired = workspace.repaired
      /\ workspace' = [order |-> workspace'.order, records |-> workspace'.records,
                    stamp |-> workspace'.stamp, repaired |-> workspace'.repaired,
                    known |-> workspace'.known]
  BY <1>1 DEF MoveInv
<1> QED BY <1>1, <1>2 DEF MoveInv, OldKept, Dated, Undated

\* One workspace is stored with its dates, and the others keep theirs.
LEMMA RecordIsStored ==
    ASSUME MoveInv, NEW w, NEW t,
           workspace' = [workspace EXCEPT !.records = WithRecord(workspace.records, w, t)]
    PROVE  /\ DOMAIN workspace'.records = DOMAIN workspace.records \cup {w}
           /\ workspace'.records[w] = t
           /\ \A v \in DOMAIN workspace.records : v # w => workspace'.records[v] = workspace.records[v]
           /\ workspace'.order = workspace.order /\ workspace'.known = workspace.known
           /\ workspace'.stamp = workspace.stamp /\ workspace'.repaired = workspace.repaired
           /\ workspace' = [order |-> workspace'.order, records |-> workspace'.records,
                    stamp |-> workspace'.stamp, repaired |-> workspace'.repaired,
                    known |-> workspace'.known]
<1> DEFINE f == WithRecord(workspace.records, w, t)
<1>1. /\ DOMAIN f = DOMAIN workspace.records \cup {w} /\ f[w] = t
      /\ \A v \in DOMAIN workspace.records : v # w => f[v] = workspace.records[v]
  BY DEF WithRecord
<1> HIDE DEF f
<1>2. /\ workspace'.order = workspace.order /\ workspace'.known = workspace.known
      /\ workspace'.stamp = workspace.stamp /\ workspace'.repaired = workspace.repaired
      /\ workspace'.records = f
  BY DEF MoveInv, f
<1> QED BY <1>1, <1>2 DEF MoveInv

\* Then the records, one by one.
LEMMA MigrateRecordStep == ASSUME MoveInv, migrateRecord PROVE MoveInv'
<1>0. pc = "records" /\ UNCHANGED <<old, minute>> BY DEF migrateRecord, Context
<1>1. CASE todo = {}
  <2>1. pc' = "delete" /\ UNCHANGED <<workspace, todo>> BY <1>1 DEF migrateRecord, Goes
  <2> QED BY <1>0, <1>1, <2>1 DEF MoveInv, OldKept, Dated, Undated
<1>2. CASE todo # {}
  <2>1. PICK w \in todo :
            /\ workspace' = [workspace EXCEPT !.records = WithRecord(workspace.records, w, repairEpoch0(old.records[w]))]
            /\ todo' = todo \ {w} /\ pc' = pc
    BY <1>2 DEF migrateRecord
  <2>2. ~Undated(repairEpoch0(old.records[w])) BY RepairDates DEF MoveInv
  <2>3. w \in workspace.known /\ OldKept /\ workspace.known \subseteq workspace.order /\ workspace.stamp = 2
    BY <1>0, <2>1 DEF MoveInv
  <2>4. /\ DOMAIN workspace'.records = DOMAIN workspace.records \cup {w}
        /\ workspace'.records[w] = repairEpoch0(old.records[w])
        /\ \A v \in DOMAIN workspace.records : v # w => workspace'.records[v] = workspace.records[v]
        /\ workspace'.order = workspace.order /\ workspace'.known = workspace.known
        /\ workspace'.stamp = workspace.stamp /\ workspace'.repaired = workspace.repaired
        /\ workspace' = [order |-> workspace'.order, records |-> workspace'.records,
                    stamp |-> workspace'.stamp, repaired |-> workspace'.repaired,
                    known |-> workspace'.known]
    BY <2>1, RecordIsStored
  <2>5. workspace'.repaired => Dated' BY <2>2, <2>4 DEF MoveInv, Dated, Undated
  <2>6. workspace.known \ todo' \subseteq DOMAIN workspace'.records /\ todo' \subseteq workspace.known
    BY <1>0, <2>1, <2>4 DEF MoveInv
  <2>7. DOMAIN workspace'.records \subseteq workspace.known /\ OldKept'
    BY <1>0, <2>3, <2>4 DEF MoveInv, OldKept
  <2> QED BY <1>0, <2>1, <2>3, <2>4, <2>5, <2>6, <2>7 DEF MoveInv
<1> QED BY <1>1, <1>2

\* And what was old goes last, once every record is copied.
LEMMA MigrationDeletesStep == ASSUME MoveInv, migrationDeletes PROVE MoveInv'
<1>1. /\ pc = "delete" /\ pc' = "repair" /\ UNCHANGED <<workspace, todo, minute>>
      /\ old'.state = FALSE /\ old'.records = <<>>
  BY DEF migrationDeletes, Context, Goes
<1>2. AllStored BY <1>1 DEF MoveInv, AllStored
<1> QED BY <1>1, <1>2 DEF MoveInv, AllStored, Dated, Undated

\* The repair of the epoch dates takes up every record without a date.
LEMMA BeginRepairStep == ASSUME MoveInv, beginRepair PROVE MoveInv'
<1>0. pc = "repair" /\ UNCHANGED <<old, minute, workspace>> /\ AllStored
  BY DEF beginRepair, Context, MoveInv
<1>1. CASE workspace.repaired
  <2>1. pc' = "open" /\ Dated BY <1>1 DEF beginRepair, Goes, MoveInv
  <2> QED BY <1>0, <2>1 DEF MoveInv, AllStored, OldKept, Dated, Undated
<1>2. CASE ~workspace.repaired
  <2>1. pc' = "repairing" /\ todo' = {w \in DOMAIN workspace.records : Undated(workspace.records[w])}
    BY <1>2 DEF beginRepair, Goes
  <2> QED BY <1>0, <1>2, <2>1 DEF MoveInv, AllStored, OldKept, Dated, Undated
<1> QED BY <1>1, <1>2

\* It dates them one by one, and is marked done with the last of them.
LEMMA RepairRecordStep == ASSUME MoveInv, repairRecord PROVE MoveInv'
<1>0. pc = "repairing" /\ UNCHANGED <<old, minute>> /\ AllStored
  BY DEF repairRecord, Context, MoveInv
<1>1. CASE todo = {}
  <2>1. pc' = "open" /\ workspace' = [workspace EXCEPT !.repaired = TRUE] /\ todo' = todo
    BY <1>1 DEF repairRecord, Goes
  <2>2. Dated BY <1>0, <1>1 DEF MoveInv, Dated
  <2>3. /\ workspace'.order = workspace.order /\ workspace'.known = workspace.known
        /\ workspace'.records = workspace.records /\ workspace'.stamp = workspace.stamp
        /\ workspace' = [order |-> workspace'.order, records |-> workspace'.records,
                    stamp |-> workspace'.stamp, repaired |-> workspace'.repaired,
                    known |-> workspace'.known]
    BY <2>1 DEF MoveInv
  <2> QED BY <1>0, <2>1, <2>2, <2>3 DEF MoveInv, AllStored, OldKept, Dated, Undated
<1>2. CASE todo # {}
  <2>1. PICK w \in todo :
            /\ workspace' = [workspace EXCEPT !.records = WithRecord(workspace.records, w, repairEpoch0(workspace.records[w]))]
            /\ todo' = todo \ {w} /\ pc' = pc
    BY <1>2 DEF repairRecord
  <2>2. ~Undated(repairEpoch0(workspace.records[w])) BY RepairDates DEF MoveInv
  <2>3. w \in DOMAIN workspace.records BY <1>0, <2>1 DEF MoveInv
  <2>4. /\ DOMAIN workspace'.records = DOMAIN workspace.records \cup {w}
        /\ workspace'.records[w] = repairEpoch0(workspace.records[w])
        /\ \A v \in DOMAIN workspace.records : v # w => workspace'.records[v] = workspace.records[v]
        /\ workspace'.order = workspace.order /\ workspace'.known = workspace.known
        /\ workspace'.stamp = workspace.stamp /\ workspace'.repaired = workspace.repaired
        /\ workspace' = [order |-> workspace'.order, records |-> workspace'.records,
                    stamp |-> workspace'.stamp, repaired |-> workspace'.repaired,
                    known |-> workspace'.known]
    BY <2>1, RecordIsStored
  <2>5. DOMAIN workspace'.records = DOMAIN workspace.records BY <2>3, <2>4
  <2>6. workspace'.repaired => Dated' BY <2>2, <2>4, <2>5 DEF MoveInv, Dated, Undated
  <2>7. \A v \in DOMAIN workspace'.records \ todo' : ~Undated(workspace'.records[v])
    BY <1>0, <2>1, <2>2, <2>4, <2>5 DEF MoveInv
  <2>8. AllStored' BY <1>0, <2>4, <2>5 DEF AllStored
  <2>10. OldKept' \/ (~old'.state /\ old'.records = <<>>) BY <1>0, <2>4 DEF MoveInv, OldKept
  <2>9. todo' \subseteq DOMAIN workspace'.records /\ DOMAIN workspace'.records \subseteq workspace'.known
    BY <1>0, <2>1, <2>4, <2>5 DEF MoveInv
  <2> QED BY <1>0, <2>1, <2>4, <2>6, <2>7, <2>8, <2>9, <2>10 DEF MoveInv
<1> QED BY <1>1, <1>2

\* The workspaces are at rest, or a start begins again.
LEMMA WorkspacesRest ==
    ASSUME MoveInv, UNCHANGED <<old, workspace>>, minute' \in Nat, minute' >= 1,
           \/ UNCHANGED <<pc, todo>>
           \/ /\ pc \in {"open", "running", "refused"} /\ pc' \in {"open", "running", "refused"}
           \/ pc' = "state"
    PROVE  MoveInv'
BY DEF MoveInv, AllStored, OldKept, Dated, Undated

\* The invariant outlives every step, and a restart between any two of them.
LEMMA MoveInvStep == MoveInv /\ [UnitNext]_unitVars => MoveInv'
<1> SUFFICES ASSUME MoveInv, [UnitNext]_unitVars PROVE MoveInv' OBVIOUS
<1>0. minute \in Nat /\ minute >= 1 BY DEF MoveInv
<1>1. CASE migrateState BY <1>1, MigrateStateStep
<1>2. CASE migrateStamp BY <1>2, MigrateStampStep
<1>3. CASE migrateRecord BY <1>3, MigrateRecordStep
<1>4. CASE migrationDeletes BY <1>4, MigrationDeletesStep
<1>5. CASE beginRepair BY <1>5, BeginRepairStep
<1>6. CASE repairRecord BY <1>6, RepairRecordStep
<1>7. CASE open BY <1>0, <1>7, WorkspacesRest DEF open, Goes, Context, Migration
<1>8. CASE close BY <1>0, <1>8, WorkspacesRest DEF close, Goes, Context, Migration
<1>9. CASE restartUnit BY <1>0, <1>9, WorkspacesRest DEF restartUnit
<1>10. CASE MinutePasses BY <1>0, <1>10, WorkspacesRest DEF MinutePasses, Migration
<1>11. CASE backupDeletes BY <1>0, <1>11, WorkspacesRest DEF backupDeletes, Context, Migration
<1>12. ASSUME NEW k \in Keys \cup {Global}, putRecord(k) PROVE MoveInv'
  BY <1>0, <1>12, WorkspacesRest DEF putRecord, Context, Migration
<1>13. ASSUME NEW k \in Keys, deleteRecord(k) \/ backupCopies(k) PROVE MoveInv'
  BY <1>0, <1>13, WorkspacesRest DEF deleteRecord, backupCopies, Context, Migration
<1>14. CASE UNCHANGED unitVars BY <1>0, <1>14, WorkspacesRest DEF unitVars
<1> QED BY <1>1, <1>2, <1>3, <1>4, <1>5, <1>6, <1>7, <1>8, <1>9, <1>10, <1>11, <1>12, <1>13,
  <1>14 DEF UnitNext

\* A unit that is open has every workspace, dated, and in the order.
LEMMA MovesHold == MoveInv => WorkspacesSurvive
<1>1. ASSUME MoveInv, pc \in {"open", "running", "refused"} PROVE AllStored /\ Dated
  BY <1>1 DEF MoveInv
<1>2. AllStored /\ Dated => /\ workspace.known = DOMAIN workspace.records
                            /\ workspace.known \subseteq workspace.order
                            /\ workspace.known # {} => workspace.stamp = 2
                            /\ \A w \in workspace.known : ~Undated(workspace.records[w])
  <2>1. AllStored => /\ workspace.known = DOMAIN workspace.records
                     /\ workspace.known \subseteq workspace.order
                     /\ workspace.known # {} => workspace.stamp = 2
    BY DEF AllStored
  <2>2. workspace.known = DOMAIN workspace.records /\ Dated
        => \A w \in workspace.known : ~Undated(workspace.records[w])
    BY DEF Dated
  <2> QED BY <2>1, <2>2
<1> QED BY <1>1, <1>2 DEF WorkspacesSurvive

----------------------------------------
\* Downlinks.  An instance that is not in memory has no streams, and no
\* request is answered.

\* The requests, and what an instance that is not in memory has lost.
IsRequest(r) == r = [pc |-> r.pc, channel |-> r.channel, expires |-> r.expires, seen |-> r.seen]
RequestsOK == socket = [s \in Sockets |-> socket[s]] /\ \A s \in Sockets : IsRequest(socket[s])
LinkInv ==
    /\ RequestsOK /\ resident \in BOOLEAN
    /\ ~resident => DOMAIN streams = {} /\ Waits = {}
    /\ CarriersHavePumps

\* The instance begins in memory, without requests.
LEMMA LinkInvInit == LinkInit => LinkInv
BY DEF LinkInit, LinkInv, Absent, RequestsOK, IsRequest, CarriersHavePumps, Open, Waits

\* Closing sockets opens none, and lets none wait.
LEMMA ClosingKeeps ==
    ASSUME RequestsOK, NEW closed, socket' = Closing(closed)
    PROVE  /\ RequestsOK'
           /\ Open' = Open \ closed /\ Waits' \subseteq Waits /\ Waits' \cap closed = {}
           /\ \A s \in Sockets : socket'[s].channel = socket[s].channel
<1>1. ASSUME NEW s \in Sockets
      PROVE  /\ IsRequest([socket[s] EXCEPT !.pc = "closed"])
             /\ [socket[s] EXCEPT !.pc = "closed"].pc = "closed"
             /\ [socket[s] EXCEPT !.pc = "closed"].channel = socket[s].channel
  BY DEF RequestsOK, IsRequest
<1>2. \A s \in Sockets : /\ IsRequest(socket'[s])
                         /\ s \in closed => socket'[s].pc = "closed"
                         /\ s \notin closed => socket'[s] = socket[s]
                         /\ socket'[s].channel = socket[s].channel
  BY <1>1 DEF Closing, RequestsOK
<1>3. RequestsOK' BY <1>2 DEF Closing, RequestsOK
<1> QED BY <1>2, <1>3 DEF Open, Waits

\* The sockets only close, or keep; a process that ends takes what waits along.
LEMMA SocketsClose ==
    ASSUME LinkInv, NEW closed, socket' = Closing(closed), resident' \in BOOLEAN,
           \A s \in Open \ closed : resident' => ~Stale(s, DOMAIN streams'),
           ~resident' => DOMAIN streams' = {} /\ Waits \subseteq closed
    PROVE  LinkInv'
<1>1. /\ RequestsOK'
      /\ Open' = Open \ closed /\ Waits' \subseteq Waits /\ Waits' \cap closed = {}
      /\ \A s \in Sockets : socket'[s].channel = socket[s].channel
  BY ClosingKeeps DEF LinkInv
<1>2. \A s \in Open' : resident' => ~(socket'[s].channel = "remote.mux" /\ s \notin DOMAIN streams')
  BY <1>1 DEF Stale, Open
<1> QED BY <1>1, <1>2 DEF LinkInv, CarriersHavePumps, Stale

\* One request goes on, in an instance that is in memory.
LEMMA RequestGoesOn ==
    ASSUME LinkInv, NEW s \in Sockets, NEW n, IsRequest(n), resident' = resident, resident = TRUE,
           socket' = [socket EXCEPT ![s] = n], DOMAIN streams \subseteq DOMAIN streams',
           n.pc = "open" /\ n.channel = "remote.mux" => s \in DOMAIN streams'
    PROVE  LinkInv'
<1>1. RequestsOK' BY DEF LinkInv, RequestsOK
<1>2. \A k \in Open' : ~(socket'[k].channel = "remote.mux" /\ k \notin DOMAIN streams')
  BY DEF LinkInv, RequestsOK, Open, CarriersHavePumps, Stale
<1> QED BY <1>1, <1>2 DEF LinkInv, CarriersHavePumps, Stale

\* Nothing changes that the invariant is about, but for pumps of known carriers.
LEMMA LinksRest ==
    ASSUME LinkInv, UNCHANGED <<socket, resident>>, DOMAIN streams' = DOMAIN streams
    PROVE  LinkInv'
BY DEF LinkInv, RequestsOK, Open, Waits, CarriersHavePumps, Stale

\* A request goes on: its session is resolved, the alarm set, its stream opened
\* before its socket is (openDownlink, openRemoteMux).
LEMMA RequestsStep ==
    ASSUME LinkInv, NEW s \in Sockets,
           \/ fetch(s) \/ getAlarm(s) \/ setAlarm(s) \/ openDownlink(s) \/ openRemoteMux(s)
    PROVE  LinkInv'
<1> DEFINE o == socket[s]
<1>0. IsRequest(o) /\ RequestsOK BY DEF LinkInv, RequestsOK
<1>1. CASE fetch(s)
  <2>1. PICK c \in resolveOwnerSession(cookies), channel \in Channels :
          socket' = [socket EXCEPT ![s] = [pc |-> "scheduling", channel |-> channel, expires |-> c, seen |-> 0]]
    BY <1>1 DEF fetch
  <2> DEFINE n == [pc |-> "scheduling", channel |-> channel, expires |-> c, seen |-> 0]
  <2>2. IsRequest(n) /\ n.pc # "open" BY DEF IsRequest
  <2> HIDE DEF n
  <2> QED BY <1>1, <2>1, <2>2, RequestGoesOn DEF fetch, n
<1>2. CASE getAlarm(s)
  <2> DEFINE n == [pc |-> "setting", channel |-> o.channel, expires |-> o.expires, seen |-> wakeAt]
  <2>0. [o EXCEPT !.pc = "setting", !.seen = wakeAt] = n
    <3>1. [o EXCEPT !.pc = "setting"] =
            [pc |-> "setting", channel |-> o.channel, expires |-> o.expires, seen |-> o.seen]
      BY <1>0 DEF IsRequest
    <3>2. PICK r : r = [o EXCEPT !.pc = "setting"] OBVIOUS
    <3>3. r = [pc |-> r.pc, channel |-> r.channel, expires |-> r.expires, seen |-> r.seen]
          /\ r.pc = "setting" /\ r.channel = o.channel /\ r.expires = o.expires
      BY <3>1, <3>2
    <3>4. [r EXCEPT !.seen = wakeAt] =
            [pc |-> "setting", channel |-> o.channel, expires |-> o.expires, seen |-> wakeAt]
      BY <3>3
    <3> QED BY <3>2, <3>4
  <2>1. IsRequest(n) /\ n.pc # "open" BY DEF IsRequest
  <2>2. socket' = [socket EXCEPT ![s] = n] /\ UNCHANGED <<resident, streams>> /\ s \in Waits
    BY <1>0, <2>0, <1>2 DEF getAlarm, RequestsOK, Waits
  <2> HIDE DEF n
  <2> QED BY <2>1, <2>2, RequestGoesOn DEF LinkInv
<1>3. CASE setAlarm(s)
  <2> DEFINE n == [o EXCEPT !.pc = "opening"]
  <2>1. IsRequest(n) /\ n.pc # "open" BY <1>0 DEF IsRequest
  <2>2. socket' = [socket EXCEPT ![s] = n] /\ UNCHANGED <<resident, streams>> /\ s \in Waits
    BY <1>0, <1>3 DEF setAlarm, RequestsOK, Waits
  <2> HIDE DEF n
  <2> QED BY <2>1, <2>2, RequestGoesOn DEF LinkInv
<1>4. CASE openDownlink(s)
  <2> DEFINE to == IF o.channel = "mux" /\ Overdue(s) THEN "closed" ELSE "open"
             n == [o EXCEPT !.pc = to]
  <2>1. IsRequest(n) /\ n.channel # "remote.mux" BY <1>0, <1>4 DEF IsRequest, openDownlink
  <2>2. socket' = [socket EXCEPT ![s] = n] /\ UNCHANGED <<resident, streams>> /\ s \in Waits
    BY <1>0, <1>4 DEF openDownlink, RequestsOK, Waits
  <2> HIDE DEF n
  <2> QED BY <2>1, <2>2, RequestGoesOn DEF LinkInv
<1>5. CASE openRemoteMux(s)
  <2> DEFINE n == [o EXCEPT !.pc = "open"]
  <2>1. IsRequest(n) BY <1>0 DEF IsRequest
  <2>2. socket' = [socket EXCEPT ![s] = n] /\ UNCHANGED resident /\ s \in Waits
    BY <1>0, <1>5 DEF openRemoteMux, RequestsOK, Waits
  <2>3. DOMAIN streams' = DOMAIN streams \cup {s} BY <1>5 DEF openRemoteMux
  <2> HIDE DEF n
  <2> QED BY <2>1, <2>2, <2>3, RequestGoesOn DEF LinkInv
<1> QED BY <1>1, <1>2, <1>3, <1>4, <1>5

\* A frame of a multiplexed socket opens or ends a stream of its own.
LEMMA MessagesStep ==
    ASSUME LinkInv, NEW s \in Sockets, handleRemoteMuxMessage(s) PROVE LinkInv'
<1>1. CASE Overdue(s) \/ s \notin DOMAIN streams \/ streams[s]
  BY <1>1, SocketsClose DEF handleRemoteMuxMessage, LinkInv, CarriersHavePumps
<1>2. CASE ~(Overdue(s) \/ s \notin DOMAIN streams \/ streams[s])
  BY <1>2, LinksRest DEF handleRemoteMuxMessage
<1> QED BY <1>1, <1>2

\* abortRemoteStreams ends the streams of a socket that closed.
LEMMA AbortStep ==
    ASSUME LinkInv, NEW s \in Sockets, abortRemoteStreams(s) PROVE LinkInv'
<1>1. /\ socket' = Closing({s}) /\ resident' = resident
      /\ DOMAIN streams' = DOMAIN streams \ {s}
  BY DEF abortRemoteStreams
<1>2. \A k \in Open \ {s} : resident' => ~Stale(k, DOMAIN streams')
  BY <1>1 DEF LinkInv, CarriersHavePumps, Stale, Open
<1>3. resident' \in BOOLEAN /\ (~resident' => DOMAIN streams' = {} /\ Waits \subseteq {s})
  BY <1>1 DEF LinkInv
<1> QED BY <1>1, <1>2, <1>3, SocketsClose

\* The alarm closes what has expired; eviction takes the streams, and restore
\* closes the sockets that lost theirs.
LEMMA WakesStep ==
    ASSUME LinkInv, rearmWake \/ alarmHandled \/ fireAlarm \/ evict \/ restore PROVE LinkInv'
<1>1. CASE rearmWake \/ alarmHandled
  BY <1>1, SocketsClose DEF rearmWake, alarmHandled, LinkInv, CarriersHavePumps
<1>2. ASSUME socket' = Closing(Constructed), resident' = TRUE, streams' = streams PROVE LinkInv'
  <2>1. \A k \in Open \ Constructed : ~Stale(k, DOMAIN streams)
    BY DEF Constructed, Lost, LinkInv, CarriersHavePumps, Stale, Overdue
  <2> QED BY <1>2, <2>1, SocketsClose
<1>3. CASE evict BY <1>3, SocketsClose DEF evict
<1> QED BY <1>1, <1>2, <1>3 DEF fireAlarm, restore

\* The invariant outlives every step of the instance.
LEMMA LinkInvStep == LinkInv /\ [LinkNext]_linkVars => LinkInv'
<1> SUFFICES ASSUME LinkInv, [LinkNext]_linkVars PROVE LinkInv' OBVIOUS
<1>1. CASE handleOwnerAuthRoute \/ tick \/ UNCHANGED linkVars
  BY <1>1, LinksRest DEF handleOwnerAuthRoute, tick, linkVars
<1>2. ASSUME NEW c \in {"mux", "host"}, broadcast(c) PROVE LinkInv'
  BY <1>2, SocketsClose DEF broadcast, LinkInv, CarriersHavePumps
<1>3. ASSUME NEW s \in Sockets, pumpRemoteStream(s) PROVE LinkInv'
  BY <1>3, LinksRest DEF pumpRemoteStream
<1> QED BY <1>1, <1>2, <1>3, RequestsStep, MessagesStep, AbortStep, WakesStep DEF LinkNext

----------------------------------------
\* Settings.  The removals of a start run before any write of a page; while
\* a process lives the revision a page saw tells whether its section is
\* still the one it saw; and what is served under the successor is what
\* becomes of the old section while that is stored.

\* A view of a section, as a page read it: while its process lives, the revision
\* it saw tells whether the section is still the one it saw.
Current(v) ==
    v.life = "this" => /\ Serving /\ v.expected <= revision[v.ns]
                       /\ v.expected = revision[v.ns] => v.base = UNION document[v.ns]
Viewed(v) ==
    /\ v.ns \in Namespaces /\ v.expected \in Nat /\ v.life \in {"this", "earlier"} /\ Current(v)
QueuedFits(w) ==
    IF w.mode = "discard"
    THEN w.ns \in Discarding \cup {Legacy} /\ document[w.ns] = {}
    ELSE /\ w.mode \in {"merge", "replace", "mutate"} /\ w.checked \in BOOLEAN
         /\ Serving /\ Viewed(w)
\* The removals a start queued run before every write of a page.
RemovalsFirst ==
    \A i, j \in DOMAIN queue : i < j /\ queue[j].mode = "discard" => queue[i].mode = "discard"
SettingsTypes ==
    /\ stored = [n \in Stored |-> stored[n]] /\ document = [n \in Stored |-> document[n]]
    /\ kept = [n \in Namespaces |-> kept[n]] /\ page = [g \in Pages |-> page[g]]
    /\ revision \in [Namespaces -> Nat] /\ registered \in 0..Len(Registrations)
    /\ \E S : queue \in Seq(S)
    /\ \A g \in Pages : \A v \in page[g] :
         v = [ns |-> v.ns, base |-> v.base, expected |-> v.expected, life |-> v.life]
ViewsFit == \A g \in Pages : \A v \in page[g] : Viewed(v)
QueueFits == \A i \in DOMAIN queue : QueuedFits(queue[i])
\* A page's write under way stores what it makes of the document; a removal may
\* have begun before the last registrations.
PutFits ==
    putting # {} =>
      /\ queue # <<>>
      /\ Head(queue).mode # "discard" =>
           putting = {nextDocument(Head(queue))} /\ ~Refused(Head(queue))
\* An acknowledged write is served, and is stored unless one to its namespace is
\* being stored over it.
KeptServed ==
    \A n \in Namespaces : kept[n].written => document[n] = {kept[n].section} /\ Valid(document[n])
Overwritten(n) ==
    putting # {} /\ stored \in putting /\ Head(queue).mode # "discard" /\ Head(queue).ns = n
KeptStored ==
    \A n \in Namespaces : kept[n].written => Overwritten(n) \/ stored[n] = {kept[n].section}
\* What becomes of the old section of a document.
MovedOf(doc) == renameSection(doc)[Successor]
LegacyWaits ==
    /\ \A i \in 1..registered : Registrations[i] = Successor => document[Legacy] = {}
    /\ document[Legacy] # {} =>
         document[Legacy] = stored[Legacy] /\ document[Successor] = stored[Successor]
    /\ document[Legacy] = {} /\ stored[Legacy] # {} => document[Successor] = MovedOf(stored)

SettingsInv ==
    /\ SettingsTypes /\ ViewsFit /\ QueueFits /\ RemovalsFirst /\ PutFits
    /\ KeptServed /\ KeptStored /\ LegacyWaits
    /\ "this" \notin staleWon

\* What was acknowledged is what is served and, but for a write under way, stored.
LEMMA SettingsHold == SettingsInv => AcknowledgedWritesStay
<1> SUFFICES ASSUME SettingsInv PROVE AcknowledgedWritesStay OBVIOUS
<1>1. putting = {} => \A n \in Namespaces : kept[n].written => stored[n] = {kept[n].section}
  BY DEF SettingsInv, KeptStored, Overwritten
<1>2. "this" \notin staleWon BY DEF SettingsInv
<1> QED BY <1>1, <1>2 DEF AcknowledgedWritesStay

\* Moving the old section touches it and the successor's alone, and the
\* successor's own section wins.
LEMMA RenameIs ==
    ASSUME NEW doc, doc = [n \in Stored |-> doc[n]]
    PROVE  /\ renameSection(doc) = [n \in Stored |-> renameSection(doc)[n]]
           /\ renameSection(doc)[Legacy] = {}
           /\ \A n \in Stored : n \notin {Legacy, Successor} => renameSection(doc)[n] = doc[n]
           /\ doc[Successor] # {} => renameSection(doc)[Successor] = doc[Successor]
           /\ renameSection(doc)[Successor] =
                IF doc[Successor] = {} THEN Renamed(UNION doc[Legacy]) ELSE doc[Successor]
<1>1. Legacy \in Stored /\ Successor \in Stored /\ Legacy # Successor
  BY SettingsConstants DEF Stored
<1>2. renameSection(doc) =
        [n \in Stored |-> IF n = Successor
                          THEN IF doc[Successor] = {} THEN Renamed(UNION doc[Legacy]) ELSE doc[Successor]
                          ELSE IF n = Legacy THEN {} ELSE doc[n]]
  BY <1>1 DEF renameSection
<1> QED BY <1>1, <1>2

\* A start begins from what is stored, with nothing queued.
LEMMA SettingsInvInit == SettingsInit => SettingsInv
<1> SUFFICES ASSUME SettingsInit PROVE SettingsInv OBVIOUS
<1>1. stored = [n \in Stored |-> stored[n]] /\ document = stored
  BY SettingsConstants DEF SettingsInit, Stored
<1>2. \A n \in Namespaces : ~kept[n].written BY DEF SettingsInit, Unwritten
<1>3. queue = <<>> /\ DOMAIN queue = {} /\ queue \in Seq(Nat) BY DEF SettingsInit
<1>4. Len(Registrations) \in Nat BY SettingsConstants, LenProperties
<1>5. SettingsTypes BY <1>1, <1>3, <1>4 DEF SettingsTypes, SettingsInit
<1>6. ViewsFit /\ QueueFits /\ RemovalsFirst
  BY <1>3 DEF ViewsFit, QueueFits, RemovalsFirst, SettingsInit
<1>7. PutFits /\ KeptServed /\ KeptStored /\ "this" \notin staleWon
  BY <1>2 DEF PutFits, KeptServed, KeptStored, SettingsInit
<1>8. LegacyWaits BY <1>1 DEF LegacyWaits, SettingsInit
<1> QED BY <1>5, <1>6, <1>7, <1>8 DEF SettingsInv

\* A restart: what was stored is served, views are of an earlier life, and the
\* namespaces are registered again.
LEMMA RestartKeeps == ASSUME SettingsInv, restartStore PROVE SettingsInv'
<1>0. /\ stored' = stored /\ staleWon' = staleWon /\ document' = stored
      /\ queue' = <<>> /\ revision' = [n \in Namespaces |-> 0] /\ putting' = {} /\ registered' = 0
      /\ stored = [n \in Stored |-> stored[n]]
  BY DEF restartStore, SettingsInv, SettingsTypes
<1>1. /\ kept' = [n \in Namespaces |-> kept'[n]]
      /\ \A n \in Namespaces : kept'[n].written =>
           kept'[n] = kept[n] /\ stored[n] = {kept[n].section} /\ Valid(stored[n])
  <2>1. \A n \in Namespaces : kept[n].written => Valid({kept[n].section})
    BY DEF SettingsInv, KeptServed
  <2>2. CASE putting = {} \/ Head(queue).mode = "discard"
    <3>1. kept' = kept BY <2>2 DEF restartStore
    <3>2. \A n \in Namespaces : kept[n].written => stored[n] = {kept[n].section}
      BY <2>2 DEF SettingsInv, KeptStored, Overwritten
    <3> QED BY <2>1, <3>1, <3>2 DEF SettingsInv, SettingsTypes
  <2>3. CASE ~(putting = {} \/ Head(queue).mode = "discard")
    <3>1. kept' = [kept EXCEPT ![Head(queue).ns] = Unwritten] BY <2>3 DEF restartStore
    <3>2. \A n \in Namespaces : kept[n].written /\ n # Head(queue).ns => stored[n] = {kept[n].section}
      BY <2>3 DEF SettingsInv, KeptStored, Overwritten
    <3>3. kept = [n \in Namespaces |-> kept[n]] BY DEF SettingsInv, SettingsTypes
    <3>4. ~Unwritten.written BY DEF Unwritten
    <3>5. ASSUME NEW n \in Namespaces, kept'[n].written
          PROVE  kept'[n] = kept[n] /\ n # Head(queue).ns
      BY <3>1, <3>3, <3>4, <3>5
    <3>6. kept' = [n \in Namespaces |-> kept'[n]] BY <3>1, <3>3
    <3> QED BY <2>1, <3>2, <3>5, <3>6
  <2> QED BY <2>2, <2>3
<1>2. DOMAIN queue' = {} /\ queue' \in Seq(Nat) BY <1>0
<1>3. /\ page' = [g \in Pages |-> page'[g]]
      /\ \A g \in Pages : \A v \in page'[g] :
           /\ v = [ns |-> v.ns, base |-> v.base, expected |-> v.expected, life |-> v.life]
           /\ v.ns \in Namespaces /\ v.expected \in Nat /\ v.life = "earlier"
  <2>1. page' = [g \in Pages |-> {[v EXCEPT !.life = "earlier"] : v \in page[g]}]
    BY DEF restartStore
  <2>2. ASSUME NEW g \in Pages, NEW u \in page[g], NEW v, v = [u EXCEPT !.life = "earlier"]
        PROVE  /\ v = [ns |-> v.ns, base |-> v.base, expected |-> v.expected, life |-> v.life]
               /\ v.ns \in Namespaces /\ v.expected \in Nat /\ v.life = "earlier"
    <3>1. u = [ns |-> u.ns, base |-> u.base, expected |-> u.expected, life |-> u.life]
      BY DEF SettingsInv, SettingsTypes
    <3>2. u.ns \in Namespaces /\ u.expected \in Nat BY DEF SettingsInv, ViewsFit, Viewed
    <3>3. v = [ns |-> u.ns, base |-> u.base, expected |-> u.expected, life |-> "earlier"]
      BY <2>2, <3>1
    <3> QED BY <3>2, <3>3
  <2> QED BY <2>1, <2>2
<1>4. Len(Registrations) \in Nat BY SettingsConstants, LenProperties
<1>5. SettingsTypes' BY <1>0, <1>1, <1>2, <1>3, <1>4 DEF SettingsTypes
<1>6. ViewsFit' BY <1>3 DEF ViewsFit, Viewed, Current
<1>7. QueueFits' /\ RemovalsFirst' BY <1>2 DEF QueueFits, RemovalsFirst
<1>8. KeptServed' /\ KeptStored' BY <1>0, <1>1 DEF KeptServed, KeptStored
<1>9. PutFits' /\ LegacyWaits' /\ ("this" \notin staleWon)'
  BY <1>0 DEF PutFits, LegacyWaits, SettingsInv
<1> QED BY <1>5, <1>6, <1>7, <1>8, <1>9 DEF SettingsInv

\* A registration drops only what does not validate, so nothing acknowledged;
\* while a start goes on, no page has read or written.
LEMMA RegisterKeeps == ASSUME SettingsInv, register PROVE SettingsInv'
<1> DEFINE n == Registrations[registered + 1]
           moves == n = Successor /\ document[Legacy] # {}
           adopted == IF moves THEN renameSection(document) ELSE document
           drops == n \in Discarding /\ ~Valid(adopted[n])
           first == IF moves THEN <<Discard(Legacy)>> ELSE <<>>
           second == IF drops THEN <<Discard(n)>> ELSE <<>>
<1>0. /\ ~Serving /\ UNCHANGED <<stored, revision, putting, page, kept, staleWon>>
      /\ document' = IF drops THEN [adopted EXCEPT ![n] = {}] ELSE adopted
      /\ queue' = queue \o first \o second
      /\ registered' = IF drops \/ Valid(adopted[n]) THEN registered + 1 ELSE registered
  BY DEF register
<1>1. /\ Len(Registrations) \in Nat /\ registered \in Nat /\ registered + 1 <= Len(Registrations)
      /\ n \in Namespaces
  <2>1. Len(Registrations) \in Nat /\ DOMAIN Registrations = 1..Len(Registrations)
    BY SettingsConstants, LenProperties
  <2>2. registered \in Nat /\ registered + 1 \in 1..Len(Registrations)
    BY <1>0, <2>1 DEF SettingsInv, SettingsTypes, Serving
  <2> QED BY <2>1, <2>2, SettingsConstants, ElementOfSeq
<1>2. document = [m \in Stored |-> document[m]] /\ Namespaces \subseteq Stored /\ Legacy \in Stored
      /\ Successor \in Namespaces /\ Legacy \notin Namespaces /\ Successor \notin Discarding
  BY SettingsConstants DEF SettingsInv, SettingsTypes, Stored
<1> HIDE DEF n
<1>3. /\ adopted = [m \in Stored |-> adopted[m]]
      /\ \A m \in Stored : m \notin {Legacy, Successor} => adopted[m] = document[m]
      /\ document[Successor] # {} => adopted[Successor] = document[Successor]
      /\ moves => adopted[Legacy] = {} /\ adopted[Successor] = renameSection(document)[Successor]
      /\ ~moves => adopted = document
  BY <1>2, RenameIs
<1> HIDE DEF adopted
<1>4. /\ document' = [m \in Stored |-> document'[m]]
      /\ \A m \in Stored : ~(drops /\ m = n) => document'[m] = adopted[m]
      /\ drops => document'[n] = {}
  BY <1>0, <1>1, <1>2, <1>3
<1>5. /\ document'[Legacy] = adopted[Legacy] /\ document'[Successor] = adopted[Successor]
  BY <1>1, <1>2, <1>4
<1>6. \A m \in Namespaces : kept[m].written => document'[m] = document[m]
  <2> SUFFICES ASSUME NEW m \in Namespaces, kept[m].written PROVE document'[m] = document[m] OBVIOUS
  <2>1. document[m] # {} /\ Valid(document[m]) BY DEF SettingsInv, KeptServed
  <2>2. adopted[m] = document[m] BY <1>2, <1>3, <2>1
  <2> QED BY <1>2, <1>4, <2>1, <2>2
<1>7. \A m \in Stored : document[m] = {} /\ m # Successor => document'[m] = {} BY <1>2, <1>3, <1>4
<1>8. PICK S : queue \in Seq(S) BY DEF SettingsInv, SettingsTypes
<1>9. PICK T : T = S \cup {Discard(Legacy), Discard(n)} OBVIOUS
<1>10. first \in Seq(T) /\ second \in Seq(T) /\ queue \in Seq(T)
  <2>1. \A t \in T : <<t>> \in Seq(T) OBVIOUS
  <2>2. <<>> \in Seq(T) /\ Discard(Legacy) \in T /\ Discard(n) \in T /\ queue \in Seq(T)
    BY <1>8, <1>9
  <2> HIDE DEF moves, drops
  <2> QED BY <2>1, <2>2
<1>11. /\ queue' \in Seq(T) /\ Len(queue') = Len(queue) + Len(first) + Len(second)
       /\ \A i \in DOMAIN queue' : \/ i \in DOMAIN queue /\ queue'[i] = queue[i]
                                   \/ moves /\ queue'[i] = Discard(Legacy)
                                   \/ drops /\ queue'[i] = Discard(n)
       /\ queue # <<>> => queue' # <<>> /\ Head(queue') = Head(queue)
  <2> HIDE DEF moves, drops
  <2>1. /\ Len(queue) \in Nat /\ Len(first) \in {0, 1} /\ Len(second) \in {0, 1}
        /\ Len(first) = 1 => moves /\ first[1] = Discard(Legacy)
        /\ Len(second) = 1 => drops /\ second[1] = Discard(n)
    BY <1>10, LenProperties
  <2> HIDE DEF first, second
  <2>2. PICK lead : lead = queue \o first OBVIOUS
  <2>3. /\ lead \in Seq(T) /\ Len(lead) = Len(queue) + Len(first)
        /\ \A i \in 1..Len(lead) : lead[i] = IF i <= Len(queue) THEN queue[i] ELSE first[i - Len(queue)]
    BY <1>10, <2>2, ConcatProperties
  <2>4. /\ queue' = lead \o second /\ queue' \in Seq(T) /\ Len(queue') = Len(lead) + Len(second)
        /\ \A i \in 1..Len(queue') : queue'[i] = IF i <= Len(lead) THEN lead[i] ELSE second[i - Len(lead)]
    BY <1>0, <1>10, <2>2, <2>3, ConcatProperties
  <2>5. DOMAIN queue' = 1..Len(queue') /\ DOMAIN queue = 1..Len(queue) BY <1>10, <2>4, LenProperties
  <2>6. ASSUME NEW i \in DOMAIN queue'
        PROVE  \/ i \in DOMAIN queue /\ queue'[i] = queue[i]
               \/ moves /\ queue'[i] = Discard(Legacy)
               \/ drops /\ queue'[i] = Discard(n)
    <3>1. CASE i <= Len(queue) BY <2>1, <2>3, <2>4, <2>5, <3>1
    <3>2. CASE i > Len(queue) /\ i <= Len(lead)
      <4>1. i - Len(queue) = 1 /\ Len(first) = 1 BY <2>1, <2>3, <2>5, <3>2
      <4>2. queue'[i] = lead[i] /\ lead[i] = first[i - Len(queue)] BY <2>1, <2>3, <2>4, <2>5, <3>2
      <4> QED BY <2>1, <4>1, <4>2
    <3>3. CASE i > Len(lead) BY <2>1, <2>3, <2>4, <2>5, <3>3
    <3> QED BY <2>1, <2>3, <2>5, <3>1, <3>2, <3>3
  <2>7. ASSUME queue # <<>> PROVE queue' # <<>> /\ Head(queue') = Head(queue)
    <3>1. Len(queue) >= 1 BY <1>10, <2>1, <2>7, EmptySeq
    <3>2. queue' # <<>> /\ queue'[1] = queue[1]
      <4>1. Len(queue') >= 1 /\ Len(lead) >= 1 /\ Len(lead) \in Nat /\ Len(queue') \in Nat
        BY <2>1, <2>3, <2>4, <3>1
      <4>2. queue'[1] = lead[1] /\ lead[1] = queue[1] BY <2>1, <2>3, <2>4, <3>1, <4>1
      <4>3. queue' # <<>> BY <4>1, EmptySeq
      <4> QED BY <4>2, <4>3
    <3> QED BY <1>10, <2>4, <2>7, <3>2, HeadTailProperties
  <2> QED BY <2>3, <2>4, <2>6, <2>7
<1>12. \A i \in DOMAIN queue : queue[i].mode = "discard" /\ queue[i].ns \in Discarding \cup {Legacy}
                               /\ document[queue[i].ns] = {}
  BY <1>0 DEF SettingsInv, QueueFits, QueuedFits
<1>13. \A i \in DOMAIN queue' :
         /\ queue'[i].mode = "discard" /\ queue'[i].ns \in Discarding \cup {Legacy}
         /\ document'[queue'[i].ns] = {}
  <2> SUFFICES ASSUME NEW i \in DOMAIN queue'
               PROVE  /\ queue'[i].mode = "discard" /\ queue'[i].ns \in Discarding \cup {Legacy}
                      /\ document'[queue'[i].ns] = {}
    OBVIOUS
  <2>1. CASE i \in DOMAIN queue /\ queue'[i] = queue[i]
    <3>1. PICK m \in Discarding \cup {Legacy} : m = queue[i].ns BY <1>12, <2>1
    <3>2. m \in Stored /\ m # Successor /\ document[m] = {}
      BY <1>2, <1>12, <2>1, <3>1, SettingsConstants
    <3>3. document'[m] = {} BY <1>7, <3>2
    <3> QED BY <1>12, <2>1, <3>1, <3>3
  <2>2. CASE moves /\ queue'[i] = Discard(Legacy)
    <3>1. document'[Legacy] = {} BY <1>3, <1>5, <2>2
    <3> QED BY <2>2, <3>1 DEF Discard
  <2>3. CASE drops /\ queue'[i] = Discard(n) BY <1>4, <2>3 DEF Discard
  <2> QED BY <1>11, <2>1, <2>2, <2>3
<1>14. SettingsTypes'
  <2>1. registered' \in 0..Len(Registrations) BY <1>0, <1>1
  <2> QED BY <1>0, <1>4, <1>11, <2>1 DEF SettingsInv, SettingsTypes
<1>15. ViewsFit' BY <1>0 DEF SettingsInv, ViewsFit, Viewed, Current
<1>16. QueueFits' /\ RemovalsFirst' BY <1>13 DEF QueueFits, QueuedFits, RemovalsFirst
<1>17. PutFits'
  <2>1. ASSUME putting # {} PROVE queue' # <<>> /\ Head(queue').mode = "discard"
    <3>1. queue # <<>> /\ Head(queue') = Head(queue) /\ queue' # <<>>
      BY <1>11, <2>1 DEF SettingsInv, PutFits
    <3>2. Head(queue) = queue[1] /\ 1 \in DOMAIN queue
      BY <1>8, <3>1, HeadTailProperties, LenProperties, EmptySeq
    <3> QED BY <1>12, <3>1, <3>2
  <2> QED BY <1>0, <2>1 DEF PutFits
<1>18. KeptServed' BY <1>0, <1>6 DEF SettingsInv, KeptServed
<1>19. KeptStored'
  <2> SUFFICES ASSUME NEW m \in Namespaces, kept[m].written PROVE stored[m] = {kept[m].section}
    BY <1>0 DEF KeptStored
  <2>1. ~Overwritten(m)
    <3>1. ASSUME putting # {} PROVE Head(queue).mode = "discard"
      <4>1. Head(queue) = queue[1] /\ 1 \in DOMAIN queue
        BY <1>8, <3>1, HeadTailProperties, LenProperties, EmptySeq DEF SettingsInv, PutFits
      <4> QED BY <1>12, <4>1
    <3> QED BY <3>1 DEF Overwritten
  <2> QED BY <2>1 DEF SettingsInv, KeptStored
<1>20. LegacyWaits'
  <2>1. CASE ~moves
    <3>1. document'[Legacy] = document[Legacy] /\ document'[Successor] = document[Successor]
      BY <1>3, <1>5, <2>1
    <3>2. ASSUME NEW i \in 1..registered', Registrations[i] = Successor PROVE document[Legacy] = {}
      <4>1. i \in 1..registered \/ i = registered + 1 BY <1>0, <1>1, <3>2
      <4> QED BY <2>1, <3>2, <4>1 DEF n, SettingsInv, LegacyWaits
    <3> QED BY <1>0, <3>1, <3>2 DEF SettingsInv, LegacyWaits
  <2>2. CASE moves
    <3>1. document'[Legacy] = {} /\ document'[Successor] = renameSection(document)[Successor]
      BY <1>3, <1>5, <2>2
    <3>2. document[Legacy] = stored[Legacy] /\ document[Successor] = stored[Successor]
      BY <2>2 DEF SettingsInv, LegacyWaits
    <3>3. renameSection(document)[Successor] = MovedOf(stored)
      <4>1. stored = [m \in Stored |-> stored[m]] BY DEF SettingsInv, SettingsTypes
      <4>2. renameSection(document)[Successor] =
              IF document[Successor] = {} THEN Renamed(UNION document[Legacy]) ELSE document[Successor]
        BY <1>2, RenameIs
      <4>3. renameSection(stored)[Successor] =
              IF stored[Successor] = {} THEN Renamed(UNION stored[Legacy]) ELSE stored[Successor]
        BY <4>1, RenameIs
      <4> QED BY <3>2, <4>2, <4>3 DEF MovedOf
    <3> QED BY <1>0, <3>1, <3>3 DEF LegacyWaits
  <2> QED BY <2>1, <2>2
<1> QED BY <1>0, <1>14, <1>15, <1>16, <1>17, <1>18, <1>19, <1>20 DEF SettingsInv

\* A write changes the section of its namespace, and no other.
LEMMA NextIs ==
    ASSUME NEW w, document = [n \in Stored |-> document[n]], w.ns \in Stored
    PROVE  /\ nextDocument(w) = [n \in Stored |-> nextDocument(w)[n]]
           /\ nextDocument(w)[w.ns] = IF w.mode = "discard" THEN {} ELSE {Applied(UNION document[w.ns], w)}
           /\ \A n \in Stored : n # w.ns => nextDocument(w)[n] = document[n]
BY DEF nextDocument

\* The write that runs is the head of the queue; the tail keeps its order.
LEMMA HeadOfQueue ==
    ASSUME SettingsInv, queue # <<>>
    PROVE  /\ Head(queue) = queue[1] /\ 1 \in DOMAIN queue /\ QueuedFits(Head(queue))
           /\ Len(Tail(queue)) = Len(queue) - 1 /\ DOMAIN Tail(queue) = 1..(Len(queue) - 1)
           /\ Len(queue) \in Nat /\ DOMAIN queue = 1..Len(queue)
           /\ \A i \in DOMAIN Tail(queue) : Tail(queue)[i] = queue[i + 1] /\ i + 1 \in DOMAIN queue
           /\ \E S : Tail(queue) \in Seq(S)
           /\ Head(queue).ns \in Stored
<1>1. PICK S : queue \in Seq(S) BY DEF SettingsInv, SettingsTypes
<1>2. Len(queue) \in Nat /\ DOMAIN queue = 1..Len(queue) /\ Len(queue) # 0
  BY <1>1, LenProperties, EmptySeq
<1>3. /\ Head(queue) = queue[1] /\ Tail(queue) \in Seq(S) /\ Len(Tail(queue)) = Len(queue) - 1
      /\ \A i \in 1..Len(Tail(queue)) : Tail(queue)[i] = queue[i + 1]
  BY <1>1, HeadTailProperties
<1>4. DOMAIN Tail(queue) = 1..Len(Tail(queue)) BY <1>3, LenProperties
<1>5. QueuedFits(Head(queue)) BY <1>2, <1>3 DEF SettingsInv, QueueFits
<1>6. Head(queue).ns \in Stored BY <1>5, SettingsConstants DEF QueuedFits, Viewed, Stored
<1> QED BY <1>2, <1>3, <1>4, <1>5, <1>6

\* The running write leaves the queue and changes nothing that is served.
LEMMA RunningLeaves ==
    ASSUME SettingsInv, queue # <<>>, queue' = Tail(queue), putting' = {},
           UNCHANGED <<stored, document, registered, revision, page, kept, staleWon>>,
           \A n \in Namespaces : kept[n].written => stored[n] = {kept[n].section}
    PROVE  SettingsInv'
<1>1. /\ DOMAIN Tail(queue) = 1..(Len(queue) - 1) /\ Len(queue) \in Nat
      /\ \A i \in DOMAIN Tail(queue) : Tail(queue)[i] = queue[i + 1] /\ i + 1 \in DOMAIN queue
      /\ \E S : Tail(queue) \in Seq(S)
  BY HeadOfQueue
<1>2. SettingsTypes' BY <1>1 DEF SettingsInv, SettingsTypes
<1>3. ViewsFit' BY DEF SettingsInv, ViewsFit, Viewed, Current, Serving
<1>4. \A i \in DOMAIN queue' : QueuedFits(queue'[i]) BY <1>1 DEF SettingsInv, QueueFits
<1>5. QueueFits' BY <1>4 DEF QueueFits, QueuedFits, Viewed, Current, Serving
<1>6. RemovalsFirst' BY <1>1 DEF SettingsInv, RemovalsFirst
<1> QED BY <1>2, <1>3, <1>5, <1>6 DEF SettingsInv, PutFits, KeptServed, KeptStored, LegacyWaits

\* A stale write is refused before anything is stored.
LEMMA RefuseKeeps == ASSUME SettingsInv, refuse PROVE SettingsInv'
<1>1. \A n \in Namespaces : kept[n].written => stored[n] = {kept[n].section}
  BY DEF refuse, SettingsInv, KeptStored, Overwritten
<1> QED BY <1>1, RunningLeaves DEF refuse

\* A put that fails leaves the document as it was.
LEMMA PutFailsKeeps == ASSUME SettingsInv, putFails PROVE SettingsInv'
<1>1. \A n \in Namespaces : kept[n].written => stored[n] = {kept[n].section}
  BY DEF putFails, SettingsInv, KeptStored, Overwritten
<1> QED BY <1>1, RunningLeaves DEF putFails, SettingsInv, PutFits

\* What a running write stores: a removal the document as it is served, a page's
\* write a document without the old section.
LEMMA NextToStore ==
    ASSUME SettingsInv, queue # <<>>
    PROVE  /\ nextDocument(Head(queue)) = [n \in Stored |-> nextDocument(Head(queue))[n]]
           /\ Head(queue).mode = "discard" => nextDocument(Head(queue)) = document
           /\ Head(queue).mode # "discard" =>
                /\ Head(queue).ns \in Namespaces /\ document[Legacy] = {}
                /\ nextDocument(Head(queue))[Legacy] = {}
           /\ \A n \in Namespaces : n # Head(queue).ns => nextDocument(Head(queue))[n] = document[n]
<1> DEFINE w == Head(queue)
           next == nextDocument(w)
<1>1. QueuedFits(w) /\ w.ns \in Stored /\ document = [n \in Stored |-> document[n]]
  BY HeadOfQueue DEF SettingsInv, SettingsTypes
<1>2. /\ next = [n \in Stored |-> next[n]]
      /\ next[w.ns] = IF w.mode = "discard" THEN {} ELSE {Applied(UNION document[w.ns], w)}
      /\ \A n \in Stored : n # w.ns => next[n] = document[n]
  BY <1>1, NextIs
<1> HIDE DEF next
<1>3. w.mode = "discard" => next = document BY <1>1, <1>2 DEF QueuedFits
<1>4. ASSUME w.mode # "discard"
      PROVE  w.ns \in Namespaces /\ document[Legacy] = {} /\ next[Legacy] = {}
  <2>1. w.ns \in Namespaces /\ Serving BY <1>1, <1>4 DEF QueuedFits, Viewed
  <2>2. PICK i \in 1..Len(Registrations) : Registrations[i] = Successor BY SettingsConstants
  <2>3. document[Legacy] = {} BY <2>1, <2>2 DEF Serving, SettingsInv, LegacyWaits
  <2> QED BY <1>2, <2>1, <2>3, SettingsConstants DEF Stored
<1> QED BY <1>2, <1>3, <1>4 DEF next, Stored

\* The put stores the next document before the section is committed.
LEMMA StoreKeeps == ASSUME SettingsInv, storeDocument PROVE SettingsInv'
<1> DEFINE w == Head(queue)
           next == nextDocument(w)
<1>0. /\ queue # <<>> /\ putting = {} /\ ~Refused(w) /\ putting' = {next}
      /\ stored' \in {stored, next}
      /\ UNCHANGED <<document, registered, revision, queue, page, kept, staleWon>>
  BY DEF storeDocument
<1>1. /\ next = [n \in Stored |-> next[n]]
      /\ w.mode = "discard" => next = document
      /\ w.mode # "discard" => w.ns \in Namespaces /\ document[Legacy] = {} /\ next[Legacy] = {}
      /\ \A n \in Namespaces : n # w.ns => next[n] = document[n]
  BY <1>0, NextToStore
<1>2. PutFits'
  <2>1. (nextDocument(Head(queue)))' = next /\ Refused(Head(queue))' = Refused(w)
    BY <1>0 DEF nextDocument, Refused
  <2> QED BY <1>0, <2>1 DEF PutFits
<1> HIDE DEF next
<1>3. SettingsTypes' BY <1>0, <1>1 DEF SettingsInv, SettingsTypes
<1>4. ViewsFit' BY <1>0 DEF SettingsInv, ViewsFit, Viewed, Current, Serving
<1>5. QueueFits' /\ RemovalsFirst'
  BY <1>0 DEF SettingsInv, QueueFits, QueuedFits, Viewed, Current, Serving, RemovalsFirst
<1>6. KeptServed' BY <1>0 DEF SettingsInv, KeptServed
<1>7. KeptStored'
  <2> SUFFICES ASSUME NEW n \in Namespaces, kept[n].written, ~Overwritten(n)'
               PROVE  stored'[n] = {kept[n].section}
    BY <1>0 DEF KeptStored
  <2>1. stored[n] = {kept[n].section} /\ document[n] = {kept[n].section}
    BY <1>0 DEF SettingsInv, KeptStored, KeptServed, Overwritten
  <2>2. CASE stored' = stored BY <2>1, <2>2
  <2>3. CASE stored' = next
    <3>1. w.mode = "discard" \/ w.ns # n BY <1>0, <2>3 DEF Overwritten
    <3>2. next[n] = document[n] BY <1>1, <3>1
    <3> QED BY <2>1, <2>3, <3>2
  <2> QED BY <1>0, <2>2, <2>3
<1>8. LegacyWaits'
  <2>1. CASE stored' = stored BY <1>0, <2>1 DEF SettingsInv, LegacyWaits, MovedOf, renameSection
  <2>2. CASE stored' = next /\ w.mode = "discard" BY <1>0, <1>1, <2>2 DEF SettingsInv, LegacyWaits
  <2>3. CASE stored' = next /\ w.mode # "discard" BY <1>0, <1>1, <2>3 DEF SettingsInv, LegacyWaits
  <2> QED BY <1>0, <2>1, <2>2, <2>3
<1> QED BY <1>0, <1>2, <1>3, <1>4, <1>5, <1>6, <1>7, <1>8 DEF SettingsInv

\* The commit raises the revision of the one section that changed: views of
\* the others stay current, and views of this one tell that they are not.
LEMMA CommitKeeps == ASSUME SettingsInv, commit PROVE SettingsInv'
<1> DEFINE w == Head(queue)
           next == nextDocument(w)
<1>0. /\ putting # {} /\ stored \in putting /\ putting' = {} /\ queue' = Tail(queue)
      /\ UNCHANGED <<stored, registered, page>>
  BY DEF commit
<1>1. queue # <<>> /\ (w.mode # "discard" => stored = next /\ ~Refused(w))
  BY <1>0 DEF SettingsInv, PutFits
<1>2. QueuedFits(w) /\ w.ns \in Stored /\ w = queue[1] /\ 1 \in DOMAIN queue BY <1>1, HeadOfQueue
<1>3. CASE w.mode = "discard"
  <2>1. UNCHANGED <<document, revision, kept, staleWon>> BY <1>3 DEF commit
  <2>2. \A n \in Namespaces : kept[n].written => stored[n] = {kept[n].section}
    BY <1>3 DEF SettingsInv, KeptStored, Overwritten
  <2> QED BY <1>0, <1>1, <2>1, <2>2, RunningLeaves
<1>4. CASE w.mode # "discard"
  <2> DEFINE ns == w.ns
             held == UNION document[ns]
  <2>1. /\ document' = stored
        /\ revision' = [revision EXCEPT ![ns] = IF UNION stored[ns] # held THEN @ + 1 ELSE @]
        /\ kept' = [kept EXCEPT ![ns] = [written |-> TRUE, section |-> Applied(held, w)]]
        /\ staleWon' = staleWon \cup IF w.checked /\ w.base # held THEN {w.life} ELSE {}
    BY <1>4 DEF commit
  <2>2. ns \in Namespaces /\ Viewed(w) /\ Serving /\ Namespaces \subseteq Stored /\ Legacy # ns /\ Legacy \in Stored
    BY <1>2, <1>4, SettingsConstants DEF QueuedFits, Viewed, Stored
  <2>3. (w.checked => w.expected = revision[ns]) /\ Valid(next[ns]) BY <1>1, <1>4 DEF Refused
  <2>4. /\ stored = [n \in Stored |-> stored[n]] /\ stored[ns] = {Applied(held, w)}
        /\ \A n \in Stored : n # ns => stored[n] = document[n]
    <3>1. /\ next = [n \in Stored |-> next[n]]
          /\ next[ns] = IF w.mode = "discard" THEN {} ELSE {Applied(UNION document[ns], w)}
          /\ \A n \in Stored : n # ns => next[n] = document[n]
      BY <1>2, NextIs DEF SettingsInv, SettingsTypes
    <3> QED BY <1>1, <1>4, <3>1
  <2>5. /\ DOMAIN Tail(queue) = 1..(Len(queue) - 1) /\ Len(queue) \in Nat /\ DOMAIN queue = 1..Len(queue)
        /\ \A i \in DOMAIN Tail(queue) : Tail(queue)[i] = queue[i + 1] /\ i + 1 \in DOMAIN queue
        /\ \E S : Tail(queue) \in Seq(S)
    BY <1>1, HeadOfQueue
  <2>6. \A i \in DOMAIN queue : queue[i].mode # "discard"
    <3>1. \A i \in DOMAIN queue : i # 1 => 1 < i BY <2>5
    <3> QED BY <1>2, <1>4, <3>1 DEF SettingsInv, RemovalsFirst
  <2>7. /\ \A n \in Namespaces : n # ns => revision'[n] = revision[n]
        /\ revision[ns] \in Nat /\ revision' \in [Namespaces -> Nat]
        /\ UNION stored[ns] # held => revision'[ns] = revision[ns] + 1
        /\ UNION stored[ns] = held => revision'[ns] = revision[ns]
    BY <2>1, <2>2 DEF SettingsInv, SettingsTypes
  <2>8. ASSUME NEW v, Viewed(v) PROVE Viewed(v)'
    <3>1. ASSUME v.life = "this"
          PROVE  /\ v.expected <= revision'[v.ns]
                 /\ v.expected = revision'[v.ns] => v.base = UNION document'[v.ns]
      <4>1. /\ v.ns \in Namespaces /\ v.expected \in Nat /\ v.expected <= revision[v.ns]
            /\ v.expected = revision[v.ns] => v.base = UNION document[v.ns]
        BY <2>8, <3>1 DEF Viewed, Current
      <4>2. CASE v.ns # ns BY <2>1, <2>2, <2>4, <2>7, <4>1, <4>2
      <4>3. CASE v.ns = ns /\ UNION stored[ns] = held BY <2>1, <2>7, <4>1, <4>3
      <4>4. CASE v.ns = ns /\ UNION stored[ns] # held BY <2>7, <4>1, <4>4
      <4> QED BY <4>2, <4>3, <4>4
    <3> QED BY <1>0, <2>2, <2>8, <3>1 DEF Viewed, Current, Serving
  <2>9. /\ kept' = [n \in Namespaces |-> kept'[n]]
        /\ stored[ns] = {kept'[ns].section} /\ \A n \in Namespaces : n # ns => kept'[n] = kept[n]
    BY <2>1, <2>2, <2>4 DEF SettingsInv, SettingsTypes
  <2>10. stored[Legacy] = {} BY <1>1, <1>4, NextToStore
  <2>11. "this" \notin staleWon'
    <3>1. w.checked /\ w.life = "this" => w.base = held BY <2>2, <2>3 DEF Viewed, Current
    <3>2. staleWon' = staleWon \/ (w.life # "this" /\ staleWon' = staleWon \cup {w.life})
      BY <2>1, <3>1
    <3> QED BY <3>2 DEF SettingsInv
  <2>12. Valid(stored[ns]) BY <1>1, <1>4, <2>3
  <2> HIDE DEF ns, held
  <2>13. SettingsTypes' BY <1>0, <2>1, <2>4, <2>5, <2>7, <2>9 DEF SettingsInv, SettingsTypes
  <2>14. ViewsFit'
    <3>1. \A g \in Pages : \A v \in page[g] : Viewed(v)' BY <2>8 DEF SettingsInv, ViewsFit
    <3> QED BY <1>0, <3>1 DEF ViewsFit
  <2>15. \A i \in DOMAIN queue' : QueuedFits(queue[i])' /\ queue'[i].mode # "discard"
    <3> SUFFICES ASSUME NEW i \in DOMAIN queue'
                 PROVE  QueuedFits(queue[i])' /\ queue'[i].mode # "discard"
      OBVIOUS
    <3>1. PICK j \in DOMAIN queue : queue'[i] = queue[j] BY <1>0, <2>5
    <3>2. /\ queue[j].mode \in {"merge", "replace", "mutate"} /\ Viewed(queue[j])
          /\ queue[j].checked \in BOOLEAN
      BY <2>6 DEF SettingsInv, QueueFits, QueuedFits
    <3>3. PICK v : v = queue[j] OBVIOUS
    <3>4. Viewed(v)' BY <2>8, <3>2, <3>3
    <3>5. Viewed(queue[i])' BY <3>1, <3>3, <3>4 DEF Viewed, Current
    <3> QED BY <1>0, <2>2, <2>6, <3>1, <3>2, <3>5 DEF QueuedFits, Serving
  <2>16. QueueFits' /\ RemovalsFirst' BY <2>15 DEF QueueFits, RemovalsFirst
  <2>17. KeptServed'
    <3> SUFFICES ASSUME NEW n \in Namespaces, kept'[n].written
                 PROVE  stored[n] = {kept'[n].section} /\ Valid(stored[n])
      BY <1>0, <2>1 DEF KeptServed
    <3>1. CASE n = ns BY <2>9, <2>12, <3>1
    <3>2. CASE n # ns BY <2>2, <2>4, <2>9, <3>2 DEF SettingsInv, KeptServed
    <3> QED BY <3>1, <3>2
  <2>18. KeptStored' BY <1>0, <2>1, <2>17 DEF KeptServed, KeptStored
  <2>19. LegacyWaits' BY <1>0, <2>1, <2>10 DEF LegacyWaits
  <2> QED BY <1>0, <2>11, <2>13, <2>14, <2>16, <2>17, <2>18, <2>19 DEF SettingsInv, PutFits
<1> QED BY <1>3, <1>4

\* A page reads a section with its revision.
LEMMA DescribeKeeps ==
    ASSUME SettingsInv, NEW g \in Pages, NEW n \in Namespaces, describe(g, n) PROVE SettingsInv'
<1> DEFINE u == [ns |-> n, base |-> UNION document[n], expected |-> revision[n], life |-> "this"]
<1>0. /\ page' = [page EXCEPT ![g] = {u}] /\ Serving
      /\ UNCHANGED <<stored, document, registered, revision, queue, putting, kept, staleWon>>
  BY DEF describe
<1>1. Viewed(u) /\ u = [ns |-> u.ns, base |-> u.base, expected |-> u.expected, life |-> u.life]
  BY <1>0 DEF SettingsInv, SettingsTypes, Viewed, Current
<1> HIDE DEF u
<1>2. /\ page' = [h \in Pages |-> page'[h]]
      /\ \A h \in Pages : \A v \in page'[h] : v = u \/ v \in page[h]
  BY <1>0 DEF SettingsInv, SettingsTypes
<1>3. SettingsTypes' BY <1>0, <1>1, <1>2 DEF SettingsInv, SettingsTypes
<1>4. \A h \in Pages : \A v \in page'[h] : Viewed(v) BY <1>1, <1>2 DEF SettingsInv, ViewsFit
<1>5. ViewsFit' BY <1>0, <1>4 DEF ViewsFit, Viewed, Current, Serving
<1>6. QueueFits' /\ RemovalsFirst'
  BY <1>0 DEF SettingsInv, QueueFits, QueuedFits, Viewed, Current, Serving, RemovalsFirst
<1>7. PutFits' /\ KeptServed' /\ KeptStored' /\ LegacyWaits'
  BY <1>0 DEF SettingsInv, PutFits, KeptServed, KeptStored, LegacyWaits, Overwritten, Refused,
    nextDocument, MovedOf, renameSection
<1> QED BY <1>0, <1>3, <1>5, <1>6, <1>7 DEF SettingsInv

\* A page's write goes behind the removals.
LEMMA WriteKeeps == ASSUME SettingsInv, NEW g \in Pages, write(g) PROVE SettingsInv'
<1>0. /\ UNCHANGED <<stored, document, registered, revision, putting, kept, staleWon>> /\ Serving
      /\ page' = [page EXCEPT ![g] = {}]
  BY DEF write
<1>1. PICK e \in Edits, seen \in page[g], checks \in BOOLEAN :
        queue' = Append(queue, [mode |-> e.mode, input |-> e.input, op |-> e.op, ns |-> seen.ns,
                                base |-> seen.base, expected |-> seen.expected, life |-> seen.life,
                                checked |-> checks])
  BY DEF write
<1> DEFINE w == [mode |-> e.mode, input |-> e.input, op |-> e.op, ns |-> seen.ns,
                 base |-> seen.base, expected |-> seen.expected, life |-> seen.life,
                 checked |-> checks]
<1>3. QueuedFits(w) /\ w.mode # "discard"
  <2>1. w.mode \in {"merge", "replace", "mutate"} BY SettingsConstants
  <2>2. Viewed(seen) BY DEF SettingsInv, ViewsFit
  <2>3. Viewed(w) BY <2>2 DEF Viewed, Current
  <2> QED BY <1>0, <2>1, <2>3 DEF QueuedFits
<1>4. queue' = Append(queue, w) BY <1>1
<1> HIDE DEF w
<1>5. PICK S : queue \in Seq(S) BY DEF SettingsInv, SettingsTypes
<1>6. PICK T : T = S \cup {w} OBVIOUS
<1>7. queue \in Seq(T) /\ w \in T BY <1>5, <1>6
<1>8. /\ queue' \in Seq(T) /\ Len(queue) \in Nat /\ DOMAIN queue = 1..Len(queue)
      /\ DOMAIN queue' = 1..(Len(queue) + 1)
      /\ queue'[Len(queue) + 1] = w /\ \A i \in 1..Len(queue) : queue'[i] = queue[i]
  BY <1>4, <1>7, AppendProperties, LenProperties
<1>9. /\ page' = [h \in Pages |-> page'[h]]
      /\ \A h \in Pages : \A v \in page'[h] : v \in page[h]
  BY <1>0 DEF SettingsInv, SettingsTypes
<1>10. SettingsTypes' BY <1>0, <1>8, <1>9 DEF SettingsInv, SettingsTypes
<1>11. ViewsFit' BY <1>0, <1>9 DEF SettingsInv, ViewsFit, Viewed, Current, Serving
<1>12. \A i \in DOMAIN queue' : QueuedFits(queue'[i]) BY <1>3, <1>8 DEF SettingsInv, QueueFits
<1>13. QueueFits' BY <1>0, <1>12 DEF QueueFits, QueuedFits, Viewed, Current, Serving
<1>14. RemovalsFirst' BY <1>3, <1>8 DEF SettingsInv, RemovalsFirst
<1>15. queue # <<>> => Head(queue') = Head(queue) /\ queue' # <<>>
  BY <1>7, <1>8, EmptySeq, LenProperties, HeadTailProperties
<1>16. putting # {} => Head(queue') = Head(queue) /\ queue' # <<>> BY <1>15 DEF SettingsInv, PutFits
<1>17. PutFits' BY <1>0, <1>16 DEF SettingsInv, PutFits, Refused, nextDocument
<1>18. KeptServed' /\ KeptStored' /\ LegacyWaits'
  BY <1>0, <1>16 DEF SettingsInv, KeptServed, KeptStored, LegacyWaits, Overwritten, MovedOf, renameSection
<1> QED BY <1>0, <1>10, <1>11, <1>13, <1>14, <1>17, <1>18 DEF SettingsInv

\* The invariant outlives every step of the store, of the pages, and a restart.
LEMMA SettingsInvStep == SettingsInv /\ [SettingsNext]_settingsVars => SettingsInv'
<1> SUFFICES ASSUME SettingsInv, [SettingsNext]_settingsVars PROVE SettingsInv' OBVIOUS
<1>1. CASE UNCHANGED settingsVars
  <2>1. UNCHANGED <<stored, document, registered, revision, queue, putting, page, kept, staleWon>>
    BY <1>1 DEF settingsVars
  <2>2. SettingsTypes' /\ ViewsFit' /\ QueueFits' /\ RemovalsFirst'
    BY <2>1 DEF SettingsInv, SettingsTypes, ViewsFit, QueueFits, QueuedFits, Viewed, Current,
      Serving, RemovalsFirst
  <2>3. PutFits' /\ KeptServed' /\ KeptStored' /\ LegacyWaits'
    BY <2>1 DEF SettingsInv, PutFits, KeptServed, KeptStored, LegacyWaits, Overwritten, Refused,
      nextDocument, MovedOf, renameSection
  <2> QED BY <2>1, <2>2, <2>3 DEF SettingsInv
<1>2. CASE SettingsNext
  BY <1>2, RegisterKeeps, RefuseKeeps, StoreKeeps, PutFailsKeeps, CommitKeeps, RestartKeeps,
    WriteKeeps, DescribeKeeps DEF SettingsNext
<1> QED BY <1>1, <1>2

\* The one step that changes what is stored is the start of a put.
LEMMA SectionMoves ==
    ASSUME SettingsInv, [SettingsNext]_settingsVars, stored[Legacy] # {}, stored'[Legacy] = {}
    PROVE  stored'[Successor] = IF Head(queue).ns = Successor
                                THEN {Applied(UNION MovedOf(stored), Head(queue))} ELSE MovedOf(stored)
<1>1. storeDocument
  BY DEF SettingsNext, settingsVars, register, refuse, putFails, commit, restartStore, write, describe
<1> DEFINE w == Head(queue)
<1>2. stored' = nextDocument(w) /\ queue # <<>> BY <1>1 DEF storeDocument
<1>3. QueuedFits(w) /\ w.ns \in Stored BY <1>2, HeadOfQueue
<1>4. /\ nextDocument(w)[w.ns] = IF w.mode = "discard" THEN {} ELSE {Applied(UNION document[w.ns], w)}
      /\ \A n \in Stored : n # w.ns => nextDocument(w)[n] = document[n]
  BY <1>3, NextIs DEF SettingsInv, SettingsTypes
<1>5. Legacy \in Stored /\ Successor \in Stored /\ Legacy # Successor /\ Successor \notin Discarding
  BY SettingsConstants DEF Stored
<1>6. document[Legacy] = {}
  <2>1. CASE w.mode = "discard" BY <1>2, <1>3, <2>1, NextToStore
  <2>2. CASE w.mode # "discard" BY <1>2, <2>2, NextToStore
  <2> QED BY <2>1, <2>2
<1>7. document[Successor] = MovedOf(stored) BY <1>6 DEF SettingsInv, LegacyWaits
<1>8. w.ns = Successor => w.mode # "discard" BY <1>3, <1>5 DEF QueuedFits
<1> QED BY <1>2, <1>4, <1>5, <1>7, <1>8

----------------------------------------
\* The settings page.  Of a setting that is not excused at most one write
\* is on its way, and the newest request tells what the page will show.

FieldOf(s) == requests[s].field
IsWrite(s) == Writes(requests[s].kind)
IsRead(s) == requests[s].kind \in {"read", "reread"}
InWrite(f) == \E s \in Slots : FieldOf(s) = f /\ IsWrite(s)
InLate(f) == \E v \in late : v[1] = f

Requested == [kind : {"none", "read", "reread", "save", "policy", "health"},
              field : Fields \cup {"none", "health"}, gen : Nat, value : Nat,
              at : {"none", "sent", "served", "refused", "lost"}, load : Nat]
\* A free slot is NoRequest; a health request asks for no setting, a policy and
\* the reread after a save are of the MCP list.
Shaped(r) ==
    /\ r.kind = "none" => r = NoRequest
    /\ r.kind = "health" => r.field = "health"
    /\ r.kind \in {"read", "reread", "save", "policy"} => r.field \in Fields
    /\ r.kind \in {"reread", "policy"} => r.field = "mcp"
ClientTypes ==
    /\ server \in [Fields -> Nat] /\ late \subseteq Fields \X Nat
    /\ shown \in [Fields -> Nat] /\ told \in [Fields -> BOOLEAN] /\ saving \in [Fields -> BOOLEAN]
    /\ mcpLoaded \in BOOLEAN /\ loadGeneration \in Nat /\ generation \in [Fields -> Nat]
    /\ requests \in [Slots -> Requested] /\ saves \in Nat /\ refreshes \in Nat
    /\ \A s \in Slots : Shaped(requests[s])

RequestsFit ==
    \A s \in Slots :
      /\ IsWrite(s) \/ IsRead(s) => requests[s].gen <= generation[FieldOf(s)]
      /\ requests[s].kind = "health" => requests[s].gen <= loadGeneration
\* A setting that is not excused has one write at a time, the newest request.
WriteFits(f, s) ==
    /\ requests[s].gen = generation[f]
    /\ requests[s].at # "lost" => ~InLate(f)
    /\ requests[s].at = "served" => server[f] = requests[s].value
    /\ requests[s].kind = "policy" => \A t \in Slots : FieldOf(t) = f => ~IsRead(t)
OneWrite(f) ==
    /\ \A s, t \in Slots : FieldOf(s) = f /\ FieldOf(t) = f /\ IsWrite(s) /\ IsWrite(t) => s = t
    /\ \A u, v \in late : u[1] = f /\ v[1] = f => u = v
    /\ \A s \in Slots : FieldOf(s) = f /\ IsWrite(s) => WriteFits(f, s)
    /\ InWrite(f) \/ InLate(f) =>
         \A s \in Slots : FieldOf(s) = f /\ IsRead(s) => requests[s].gen < generation[f]
    /\ InLate(f) /\ ~InWrite(f) => told[f]
\* With no write on its way, what is shown without an error and what the newest
\* read brings back are what the deployment holds.
NewestShown(f) ==
    ~InWrite(f) /\ ~InLate(f) =>
      /\ shown[f] # 0 /\ ~told[f] => shown[f] = server[f]
      /\ \A s \in Slots :
           FieldOf(s) = f /\ IsRead(s) /\ requests[s].at = "served" /\ requests[s].gen = generation[f]
             => requests[s].value = server[f]
Spinners ==
    /\ pageStatus = "loading" =>
         \E s \in Slots : requests[s].kind = "health" /\ requests[s].gen = loadGeneration
    /\ \A f \in Fields : saving[f] =>
         \E s \in Slots : FieldOf(s) = f /\ requests[s].kind \in {"save", "reread"}

SettingFits(f) == OneWrite(f) /\ NewestShown(f)
ClientInv ==
    /\ ClientTypes /\ RequestsFit /\ Spinners
    /\ \A f \in Fields \ excused : SettingFits(f)

\* With no request in flight and no late write, the page shows what is served.
LEMMA ClientHolds == ClientInv => SettingsPageSettles
<1> SUFFICES ASSUME ClientInv PROVE SettingsPageSettles OBVIOUS
<1>1. ASSUME Quiet, NEW s \in Slots
      PROVE  requests[s].field = "none" /\ requests[s].kind = "none"
  BY <1>1 DEF Quiet, Free, NoRequest
<1>2. ASSUME Quiet, NEW f \in Fields \ excused, shown[f] # 0, ~told[f]
      PROVE  shown[f] = server[f]
  <2>1. ~InWrite(f) /\ ~InLate(f) BY <1>1, <1>2 DEF InWrite, InLate, IsWrite, Writes, Quiet
  <2> QED BY <1>2, <2>1 DEF ClientInv, SettingFits, NewestShown
<1>3. Quiet => pageStatus # "loading" /\ \A f \in Fields : ~saving[f]
  BY <1>1 DEF ClientInv, Spinners
<1> QED BY <1>2, <1>3 DEF SettingsPageSettles, SettledShowsServer, SpinnersStop

\* The page begins with what the server has, and nothing asked.
LEMMA ClientInvInit == ClientInit => ClientInv
<1> SUFFICES ASSUME ClientInit PROVE ClientInv OBVIOUS
<1>1. NoRequest \in Requested /\ Shaped(NoRequest) /\ NoRequest.kind = "none"
  BY DEF NoRequest, Requested, Shaped
<1>2. \A s \in Slots : requests[s] = NoRequest BY DEF ClientInit
<1>3. ClientTypes BY <1>1, <1>2 DEF ClientInit, ClientTypes
<1>4. \A s \in Slots : requests[s].kind = "none" /\ ~IsWrite(s) /\ ~IsRead(s)
  BY <1>1, <1>2 DEF IsWrite, IsRead, Writes
<1>5. RequestsFit /\ Spinners BY <1>4 DEF RequestsFit, Spinners, ClientInit
<1>6. \A f \in Fields : SettingFits(f)
  BY <1>4 DEF SettingFits, OneWrite, NewestShown, InWrite, InLate, ClientInit
<1> QED BY <1>3, <1>5, <1>6 DEF ClientInv

\* One slot changes: what it holds after, and that the others rest.
Becomes(s, n) == requests' = [requests EXCEPT ![s] = n]
\* One request changes, the others stay.
LEMMA SlotChanges ==
    ASSUME ClientTypes, NEW s \in Slots, NEW n \in Requested, Shaped(n), Becomes(s, n)
    PROVE  /\ requests' \in [Slots -> Requested] /\ requests'[s] = n
           /\ \A t \in Slots : t # s => requests'[t] = requests[t]
           /\ \A t \in Slots : Shaped(requests'[t])
BY DEF ClientTypes, Becomes

\* A setting that the slot is not about before or after rests.
LEMMA OtherSetting ==
    ASSUME ClientTypes, NEW s \in Slots, NEW n \in Requested, Shaped(n), Becomes(s, n),
           NEW f \in Fields, SettingFits(f), requests[s].field # f, n.field # f,
           generation'[f] = generation[f], server'[f] = server[f],
           shown'[f] = shown[f], told'[f] = told[f],
           \A v \in late \cup late' : v[1] = f => v \in late /\ v \in late'
    PROVE  SettingFits(f)'
<1>1. /\ requests'[s] = n /\ \A t \in Slots : t # s => requests'[t] = requests[t] BY SlotChanges
<1>2. \A t \in Slots : requests'[t].field = f \/ requests[t].field = f => requests'[t] = requests[t]
  BY <1>1
<1>3. InLate(f)' <=> InLate(f) BY DEF InLate
<1>4. InWrite(f)' <=> InWrite(f) BY <1>2 DEF InWrite, IsWrite, FieldOf
<1>5. NewestShown(f)' BY <1>2, <1>3, <1>4 DEF SettingFits, NewestShown, FieldOf, IsRead
<1>6. \A t \in Slots : FieldOf(t)' = f /\ IsWrite(t)' => WriteFits(f, t)'
  <2> SUFFICES ASSUME NEW t \in Slots, FieldOf(t)' = f, IsWrite(t)' PROVE WriteFits(f, t)' OBVIOUS
  <2>1. requests'[t] = requests[t] /\ WriteFits(f, t)
    BY <1>2 DEF SettingFits, OneWrite, FieldOf, IsWrite
  <2> QED BY <1>2, <1>3, <2>1 DEF WriteFits, FieldOf, IsRead
<1>7. OneWrite(f)'
  <2>1. \A t, u \in Slots : FieldOf(t)' = f /\ FieldOf(u)' = f /\ IsWrite(t)' /\ IsWrite(u)' => t = u
    BY <1>2 DEF SettingFits, OneWrite, FieldOf, IsWrite
  <2>2. \A u, v \in late' : u[1] = f /\ v[1] = f => u = v BY DEF SettingFits, OneWrite
  <2>3. (InWrite(f) \/ InLate(f))' =>
          \A t \in Slots : FieldOf(t)' = f /\ IsRead(t)' => requests'[t].gen < generation'[f]
    BY <1>2, <1>3, <1>4 DEF SettingFits, OneWrite, FieldOf, IsRead
  <2>4. (InLate(f) /\ ~InWrite(f))' => told'[f] BY <1>3, <1>4 DEF SettingFits, OneWrite
  <2> QED BY <1>6, <2>1, <2>2, <2>3, <2>4 DEF OneWrite
<1> QED BY <1>5, <1>7 DEF SettingFits

\* A read of a setting begins while no other write of it is on its way.
LEMMA ReadBegins ==
    ASSUME ClientTypes, RequestsFit, NEW s \in Slots, NEW n \in Requested, Shaped(n), Becomes(s, n),
           NEW f \in Fields, ~Unsettled(s, f),
           n.field = f, n.kind \in {"read", "reread"}, n.at = "sent", n.gen = generation[f] + 1,
           generation'[f] = generation[f] + 1, late' = late, server' = server,
           shown'[f] # 0 /\ ~told'[f] => shown'[f] = server[f]
    PROVE  SettingFits(f)'
<1>1. /\ requests'[s] = n /\ \A t \in Slots : t # s => requests'[t] = requests[t] BY SlotChanges
<1>2. ~InLate(f)' /\ \A v \in late : v[1] # f BY DEF Unsettled, InLate
<1>3. \A t \in Slots : ~(FieldOf(t)' = f /\ IsWrite(t)')
  BY <1>1 DEF Unsettled, InFlight, FieldOf, IsWrite, Writes
<1>4. \A t \in Slots : t # s /\ requests[t].field = f /\ IsRead(t)' => requests[t].gen < generation'[f]
  BY <1>1 DEF RequestsFit, IsRead, FieldOf, ClientTypes, Requested
<1>5. NewestShown(f)'
  <2> SUFFICES ASSUME NEW t \in Slots, FieldOf(t)' = f, IsRead(t)', requests'[t].at = "served",
                      requests'[t].gen = generation'[f] PROVE FALSE
    BY DEF NewestShown
  <2>1. t # s BY <1>1
  <2>2. requests[t].gen < generation'[f] /\ requests[t].gen \in Nat /\ requests'[t] = requests[t]
    BY <1>1, <1>4, <2>1 DEF FieldOf, ClientTypes, Requested
  <2> QED BY <2>2
<1>6. OneWrite(f)' BY <1>2, <1>3 DEF OneWrite, InWrite
<1> QED BY <1>5, <1>6 DEF SettingFits

\* A save of a setting begins while no other write of it is on its way.
LEMMA SaveBegins ==
    ASSUME ClientTypes, RequestsFit, NEW s \in Slots, NEW n \in Requested, Shaped(n), Becomes(s, n),
           NEW f \in Fields, ~Unsettled(s, f),
           n.field = f, n.kind = "save", n.at = "sent", n.gen = generation[f] + 1,
           generation'[f] = generation[f] + 1, late' = late
    PROVE  SettingFits(f)'
<1>1. /\ requests'[s] = n /\ \A t \in Slots : t # s => requests'[t] = requests[t] BY SlotChanges
<1>2. ~InLate(f)' /\ \A v \in late : v[1] # f BY DEF Unsettled, InLate
<1>3. \A t \in Slots : FieldOf(t)' = f /\ IsWrite(t)' => t = s
  BY <1>1 DEF Unsettled, InFlight, FieldOf, IsWrite, Writes
<1>4. InWrite(f)' BY <1>1 DEF InWrite, FieldOf, IsWrite, Writes
<1>5. \A t \in Slots : FieldOf(t)' = f /\ IsRead(t)' => requests'[t].gen < generation'[f]
  <2> SUFFICES ASSUME NEW t \in Slots, FieldOf(t)' = f, IsRead(t)' PROVE requests'[t].gen < generation'[f]
    OBVIOUS
  <2>1. t # s /\ requests'[t] = requests[t] BY <1>1 DEF IsRead
  <2>2. requests[t].gen <= generation[f] /\ requests[t].gen \in Nat /\ generation[f] \in Nat
    BY <2>1 DEF RequestsFit, FieldOf, IsRead, ClientTypes, Requested
  <2> QED BY <2>1, <2>2
<1>6. WriteFits(f, s)' BY <1>1, <1>2 DEF WriteFits
<1>7. OneWrite(f)' BY <1>2, <1>3, <1>4, <1>5, <1>6 DEF OneWrite
<1> QED BY <1>4, <1>7 DEF SettingFits, NewestShown

\* A tool policy is saved while no request of the list is on its way.
LEMMA PolicyBegins ==
    ASSUME ClientTypes, NEW s \in Slots, NEW n \in Requested, Shaped(n), Becomes(s, n),
           NEW f \in Fields, InFlight(f) = {}, ~Unsettled(s, f),
           n.field = f, n.kind = "policy", n.at = "sent", n.gen = generation[f],
           generation'[f] = generation[f], late' = late
    PROVE  SettingFits(f)'
<1>1. /\ requests'[s] = n /\ \A t \in Slots : t # s => requests'[t] = requests[t] BY SlotChanges
<1>2. ~InLate(f)' /\ \A v \in late : v[1] # f BY DEF Unsettled, InLate
<1>3. \A t \in Slots : FieldOf(t)' = f => t = s BY <1>1 DEF InFlight, FieldOf
<1>4. InWrite(f)' /\ ~IsRead(s)' BY <1>1 DEF InWrite, FieldOf, IsWrite, Writes, IsRead
<1>5. WriteFits(f, s)' BY <1>1, <1>2, <1>3, <1>4 DEF WriteFits
<1>6. OneWrite(f)' BY <1>2, <1>3, <1>4, <1>5 DEF OneWrite
<1> QED BY <1>4, <1>6 DEF SettingFits, NewestShown

\* A read of a setting is answered: nothing is shown for it, or an error, or what
\* the newest one brought back.
LEMMA ReadEnds ==
    ASSUME ClientTypes, NEW s \in Slots, NEW n \in Requested, Shaped(n), Becomes(s, n),
           NEW f \in Fields, SettingFits(f), requests[s].field = f, IsRead(s), n.field # f,
           generation'[f] = generation[f], server' = server, late' = late,
           \/ shown'[f] = shown[f] /\ (told[f] => told'[f])
           \/ /\ requests[s].gen = generation[f] /\ requests[s].at = "served"
              /\ shown'[f] = requests[s].value
    PROVE  SettingFits(f)'
<1>1. /\ requests'[s] = n /\ \A t \in Slots : t # s => requests'[t] = requests[t] BY SlotChanges
<1>2. \A t \in Slots : requests'[t].field = f => requests'[t] = requests[t] BY <1>1
<1>3. ~IsWrite(s) BY DEF IsRead, IsWrite, Writes
<1>4. InLate(f)' <=> InLate(f) BY DEF InLate
<1>5. InWrite(f)' <=> InWrite(f) BY <1>1, <1>2, <1>3 DEF InWrite, IsWrite, FieldOf
<1>6. \A t \in Slots : FieldOf(t)' = f /\ IsWrite(t)' => WriteFits(f, t)'
  <2> SUFFICES ASSUME NEW t \in Slots, FieldOf(t)' = f, IsWrite(t)' PROVE WriteFits(f, t)' OBVIOUS
  <2>1. requests'[t] = requests[t] /\ WriteFits(f, t)
    BY <1>2 DEF SettingFits, OneWrite, FieldOf, IsWrite
  <2> QED BY <1>2, <1>4, <2>1 DEF WriteFits, FieldOf, IsRead
<1>7. requests[s].gen = generation[f] => ~InLate(f) /\ ~InWrite(f)
  <2>1. InLate(f) \/ InWrite(f) => requests[s].gen < generation[f]
    BY DEF SettingFits, OneWrite, FieldOf
  <2>2. requests[s].gen \in Nat /\ generation[f] \in Nat BY DEF ClientTypes, Requested
  <2> QED BY <2>1, <2>2
<1>8. OneWrite(f)'
  <2>1. \A t, u \in Slots : FieldOf(t)' = f /\ FieldOf(u)' = f /\ IsWrite(t)' /\ IsWrite(u)' => t = u
    BY <1>2 DEF SettingFits, OneWrite, FieldOf, IsWrite
  <2>2. \A u, v \in late' : u[1] = f /\ v[1] = f => u = v BY DEF SettingFits, OneWrite
  <2>3. (InWrite(f) \/ InLate(f))' =>
          \A t \in Slots : FieldOf(t)' = f /\ IsRead(t)' => requests'[t].gen < generation'[f]
    BY <1>2, <1>4, <1>5 DEF SettingFits, OneWrite, FieldOf, IsRead
  <2>4. (InLate(f) /\ ~InWrite(f))' => told'[f] BY <1>4, <1>5, <1>7 DEF SettingFits, OneWrite
  <2> QED BY <1>6, <2>1, <2>2, <2>3, <2>4 DEF OneWrite
<1>9. NewestShown(f)'
  <2> SUFFICES ASSUME ~InWrite(f), ~InLate(f)
               PROVE  /\ shown'[f] # 0 /\ ~told'[f] => shown'[f] = server[f]
                      /\ \A t \in Slots :
                           /\ requests'[t].field = f /\ requests'[t].kind \in {"read", "reread"}
                           /\ requests'[t].at = "served" /\ requests'[t].gen = generation[f]
                           => requests'[t].value = server[f]
    BY <1>4, <1>5 DEF NewestShown, FieldOf, IsRead
  <2>1. /\ shown[f] # 0 /\ ~told[f] => shown[f] = server[f]
        /\ \A t \in Slots :
             /\ requests[t].field = f /\ requests[t].kind \in {"read", "reread"}
             /\ requests[t].at = "served" /\ requests[t].gen = generation[f]
             => requests[t].value = server[f]
    BY DEF SettingFits, NewestShown, FieldOf, IsRead
  <2>2. shown'[f] # 0 /\ ~told'[f] => shown'[f] = server[f] BY <2>1 DEF IsRead
  <2> QED BY <1>2, <2>1, <2>2
<1> QED BY <1>8, <1>9 DEF SettingFits

\* A write of a setting is answered: what it wrote is shown, or an error.
LEMMA WriteEnds ==
    ASSUME ClientTypes, NEW s \in Slots, NEW n \in Requested, Shaped(n), Becomes(s, n),
           NEW f \in Fields, SettingFits(f), requests[s].field = f, IsWrite(s), n.field # f,
           generation'[f] = generation[f], server' = server, late' = late,
           \/ requests[s].at = "served" /\ shown'[f] = requests[s].value
           \/ told'[f]
    PROVE  SettingFits(f)'
<1>1. /\ requests'[s] = n /\ \A t \in Slots : t # s => requests'[t] = requests[t] BY SlotChanges
<1>2. \A t \in Slots : requests'[t].field = f => requests'[t] = requests[t] /\ t # s BY <1>1
<1>3. WriteFits(f, s) /\ InWrite(f) BY DEF SettingFits, OneWrite, FieldOf, InWrite
<1>4. \A t \in Slots : ~(FieldOf(t)' = f /\ IsWrite(t)')
  BY <1>2 DEF SettingFits, OneWrite, FieldOf, IsWrite
<1>5. InLate(f)' <=> InLate(f) BY DEF InLate
<1>6. InLate(f) => told'[f] BY <1>3 DEF WriteFits
<1>7. \A t \in Slots : FieldOf(t)' = f /\ IsRead(t)' => requests'[t].gen < generation'[f]
  BY <1>2, <1>3 DEF SettingFits, OneWrite, FieldOf, IsRead
<1>8. OneWrite(f)'
  <2>1. \A u, v \in late' : u[1] = f /\ v[1] = f => u = v BY DEF SettingFits, OneWrite
  <2> QED BY <1>4, <1>5, <1>6, <1>7, <2>1 DEF OneWrite
<1>9. NewestShown(f)'
  <2>1. shown'[f] # 0 /\ ~told'[f] => shown'[f] = server'[f] BY <1>3 DEF WriteFits
  <2>2. \A t \in Slots : FieldOf(t)' = f /\ IsRead(t)' => requests'[t].gen # generation'[f]
    BY <1>2, <1>7 DEF ClientTypes, Requested, FieldOf
  <2> QED BY <2>1, <2>2 DEF NewestShown
<1> QED BY <1>8, <1>9 DEF SettingFits

\* A request goes on its way: it stays the request it is, a served write reached
\* the deployment, and one cut off before that may still be late.
LEMMA SlotGoesOn ==
    ASSUME ClientTypes, NEW s \in Slots, NEW n \in Requested, Shaped(n), Becomes(s, n),
           NEW f \in Fields, SettingFits(f), requests[s].field = f, n.field = f,
           n.kind = requests[s].kind, n.gen = requests[s].gen,
           requests[s].at = "lost" => n.at = "lost",
           UNCHANGED <<generation, shown, told>>,
           IsWrite(s) => /\ n.value = requests[s].value
                         /\ n.at = "served" => server'[f] = n.value
                         /\ \/ late' = late
                            \/ requests[s].at # "lost" /\ n.at = "lost" /\ late' = late \cup {<<f, n.value>>},
           ~IsWrite(s) => /\ late' = late /\ server' = server
                          /\ n.at = "served" => n.value = server[f]
    PROVE  SettingFits(f)'
<1>1. /\ requests'[s] = n /\ \A t \in Slots : t # s => requests'[t] = requests[t] BY SlotChanges
<1>2. \A t \in Slots : /\ FieldOf(t)' = FieldOf(t) /\ (IsWrite(t)' <=> IsWrite(t))
                       /\ (IsRead(t)' <=> IsRead(t)) /\ requests'[t].gen = requests[t].gen
                       /\ requests'[t].kind = requests[t].kind
  BY <1>1 DEF FieldOf, IsWrite, IsRead, Writes
<1>3. InWrite(f)' <=> InWrite(f) BY <1>2 DEF InWrite
<1>4. \A t, u \in Slots : FieldOf(t)' = f /\ FieldOf(u)' = f /\ IsWrite(t)' /\ IsWrite(u)' => t = u
  BY <1>2 DEF SettingFits, OneWrite
<1>5. CASE IsWrite(s)
  <2>1. WriteFits(f, s) /\ InWrite(f) BY <1>5 DEF SettingFits, OneWrite, FieldOf, InWrite
  <2>2. \A u, v \in late' : u[1] = f /\ v[1] = f => u = v
    <3>1. CASE late' = late BY <3>1 DEF SettingFits, OneWrite
    <3>2. CASE requests[s].at # "lost" /\ late' = late \cup {<<f, n.value>>}
      <4>1. \A v \in late : v[1] # f BY <2>1, <3>2 DEF WriteFits, InLate
      <4> QED BY <3>2, <4>1
    <3> QED BY <1>5, <3>1, <3>2
  <2>3. n.at # "lost" => ~InLate(f)' BY <1>5, <2>1 DEF WriteFits, InLate
  <2>4. \A t \in Slots : FieldOf(t)' = f /\ IsWrite(t)' => t = s
    BY <1>2, <1>5 DEF SettingFits, OneWrite, FieldOf
  <2>5. WriteFits(f, s)' BY <1>1, <1>2, <1>5, <2>1, <2>3 DEF WriteFits
  <2>6. \A t \in Slots : FieldOf(t)' = f /\ IsRead(t)' => requests'[t].gen < generation'[f]
    BY <1>2, <2>1 DEF SettingFits, OneWrite
  <2>7. OneWrite(f)' BY <1>3, <1>4, <2>1, <2>2, <2>4, <2>5, <2>6 DEF OneWrite
  <2> QED BY <1>3, <2>1, <2>7 DEF SettingFits, NewestShown
<1>6. CASE ~IsWrite(s)
  <2>1. late' = late /\ server' = server /\ (InLate(f)' <=> InLate(f)) BY <1>6 DEF InLate
  <2>2. \A t \in Slots : FieldOf(t)' = f /\ IsWrite(t)' => WriteFits(f, t)'
    <3> SUFFICES ASSUME NEW t \in Slots, FieldOf(t)' = f, IsWrite(t)' PROVE WriteFits(f, t)' OBVIOUS
    <3>1. WriteFits(f, t) /\ requests'[t] = requests[t]
      BY <1>1, <1>2, <1>6 DEF SettingFits, OneWrite
    <3> QED BY <1>2, <2>1, <3>1 DEF WriteFits
  <2>3. OneWrite(f)'
    <3>1. (InWrite(f) \/ InLate(f))' =>
            \A t \in Slots : FieldOf(t)' = f /\ IsRead(t)' => requests'[t].gen < generation'[f]
      BY <1>2, <1>3, <2>1 DEF SettingFits, OneWrite
    <3>2. (InLate(f) /\ ~InWrite(f))' => told'[f] BY <1>3, <2>1 DEF SettingFits, OneWrite
    <3> QED BY <1>4, <2>1, <2>2, <3>1, <3>2 DEF SettingFits, OneWrite
  <2>4. NewestShown(f)'
    <3> SUFFICES ASSUME ~InWrite(f), ~InLate(f)
                 PROVE  /\ shown[f] # 0 /\ ~told[f] => shown[f] = server[f]
                        /\ \A t \in Slots :
                             FieldOf(t) = f /\ IsRead(t) /\ requests'[t].at = "served"
                             /\ requests[t].gen = generation[f] => requests'[t].value = server[f]
      BY <1>2, <1>3, <2>1 DEF NewestShown
    <3>1. \A t \in Slots : t = s \/ requests'[t] = requests[t] BY <1>1
    <3> QED BY <1>1, <1>6, <3>1 DEF SettingFits, NewestShown
  <2> QED BY <2>3, <2>4 DEF SettingFits
<1> QED BY <1>5, <1>6

\* A late write reaches the deployment: an error is shown beside the setting.
LEMMA LateArrives ==
    ASSUME ClientTypes, NEW f \in Fields, SettingFits(f), NEW w \in late, late' = late \ {w},
           UNCHANGED <<requests, generation, shown, told>>, w[1] # f => server'[f] = server[f]
    PROVE  SettingFits(f)'
<1>1. /\ InWrite(f)' <=> InWrite(f)
      /\ \A t \in Slots : /\ FieldOf(t)' = FieldOf(t) /\ (IsWrite(t)' <=> IsWrite(t))
                          /\ (IsRead(t)' <=> IsRead(t))
  BY DEF InWrite, FieldOf, IsWrite, IsRead
<1>2. InLate(f)' => InLate(f) BY DEF InLate
<1>3. w[1] = f => InLate(f) /\ ~InLate(f)' BY DEF InLate, SettingFits, OneWrite
<1>4. w[1] # f => (InLate(f)' <=> InLate(f)) BY DEF InLate
<1>5. \A t \in Slots : FieldOf(t) = f /\ IsWrite(t) => WriteFits(f, t)'
  <2> SUFFICES ASSUME NEW t \in Slots, FieldOf(t) = f, IsWrite(t) PROVE WriteFits(f, t)' OBVIOUS
  <2>1. WriteFits(f, t) BY DEF SettingFits, OneWrite
  <2>2. requests[t].at = "served" => w[1] # f BY <1>3, <2>1 DEF WriteFits
  <2> QED BY <1>1, <1>2, <2>1, <2>2 DEF WriteFits
<1>6. OneWrite(f)' BY <1>1, <1>2, <1>5 DEF SettingFits, OneWrite
<1>7. NewestShown(f)'
  <2>1. CASE w[1] = f
    <3>1. InLate(f) BY <1>3, <2>1
    <3>2. ~InWrite(f) => told[f] BY <3>1 DEF SettingFits, OneWrite
    <3>3. \A t \in Slots : FieldOf(t) = f /\ IsRead(t) => requests[t].gen # generation[f]
      <4>1. \A t \in Slots : FieldOf(t) = f /\ IsRead(t) => requests[t].gen < generation[f]
        BY <3>1 DEF SettingFits, OneWrite
      <4> QED BY <4>1 DEF ClientTypes, Requested
    <3> QED BY <1>1, <3>2, <3>3 DEF NewestShown
  <2>2. CASE w[1] # f BY <1>1, <1>4, <2>2 DEF SettingFits, NewestShown
  <2> QED BY <2>1, <2>2
<1> QED BY <1>6, <1>7 DEF SettingFits

\* A slot ends what it held: the settings it goes on without.
LEMMA SettingAfter ==
    ASSUME ClientTypes, NEW s \in Slots, NEW n \in Requested, Shaped(n), Becomes(s, n),
           NEW f \in Fields, SettingFits(f), n.field # f,
           generation'[f] = generation[f], server' = server, late' = late,
           requests[s].field # f => shown'[f] = shown[f] /\ told'[f] = told[f],
           requests[s].field = f /\ IsRead(s) =>
              \/ shown'[f] = shown[f] /\ (told[f] => told'[f])
              \/ /\ requests[s].gen = generation[f] /\ requests[s].at = "served"
                 /\ shown'[f] = requests[s].value,
           requests[s].field = f /\ IsWrite(s) =>
              \/ requests[s].at = "served" /\ shown'[f] = requests[s].value
              \/ told'[f]
    PROVE  SettingFits(f)'
<1>1. CASE requests[s].field # f BY <1>1, OtherSetting
<1>2. CASE requests[s].field = f /\ IsRead(s) BY <1>2, ReadEnds
<1>3. CASE requests[s].field = f /\ IsWrite(s) BY <1>3, WriteEnds
<1>4. requests[s].field = f => IsRead(s) \/ IsWrite(s)
  <2>1. requests[s] \in Requested /\ Shaped(requests[s]) BY DEF ClientTypes
  <2>2. requests[s].field = f => requests[s].kind \notin {"none", "health"}
    BY <2>1 DEF Shaped, NoRequest, Fields
  <2> QED BY <2>1, <2>2 DEF Requested, IsRead, IsWrite, Writes
<1> QED BY <1>1, <1>2, <1>3, <1>4

VarTypes ==
    /\ server \in [Fields -> Nat] /\ late \subseteq Fields \X Nat
    /\ shown \in [Fields -> Nat] /\ told \in [Fields -> BOOLEAN] /\ saving \in [Fields -> BOOLEAN]
    /\ mcpLoaded \in BOOLEAN /\ loadGeneration \in Nat /\ generation \in [Fields -> Nat]
    /\ saves \in Nat /\ refreshes \in Nat

\* What is left to show of a step that changes one slot.
LEMMA Assembles ==
    ASSUME ClientInv, NEW s \in Slots, NEW n \in Requested, Shaped(n), Becomes(s, n), VarTypes',
           \A f \in Fields : generation[f] <= generation'[f], loadGeneration <= loadGeneration',
           n.kind \in {"read", "reread", "save", "policy"} => n.gen <= generation'[n.field],
           n.kind = "health" => n.gen <= loadGeneration',
           pageStatus' = "loading" =>
              \/ n.kind = "health" /\ n.gen = loadGeneration'
              \/ /\ pageStatus = "loading" /\ loadGeneration' = loadGeneration
                 /\ ~(requests[s].kind = "health" /\ requests[s].gen = loadGeneration),
           \A f \in Fields : saving'[f] =>
              \/ n.field = f /\ n.kind \in {"save", "reread"}
              \/ saving[f] /\ ~(requests[s].field = f /\ requests[s].kind \in {"save", "reread"}),
           \A f \in Fields \ excused' : SettingFits(f)'
    PROVE  ClientInv'
<1>1. /\ requests' \in [Slots -> Requested] /\ requests'[s] = n
      /\ \A t \in Slots : t # s => requests'[t] = requests[t]
      /\ \A t \in Slots : Shaped(requests'[t])
  BY SlotChanges DEF ClientInv
<1>2. ClientTypes' BY <1>1 DEF ClientTypes, VarTypes
<1>3. RequestsFit'
  <2> SUFFICES ASSUME NEW t \in Slots
               PROVE  /\ IsWrite(t)' \/ IsRead(t)' => requests'[t].gen <= generation'[requests'[t].field]
                      /\ requests'[t].kind = "health" => requests'[t].gen <= loadGeneration'
    BY DEF RequestsFit, FieldOf
  <2>1. CASE t = s BY <1>1, <2>1 DEF IsWrite, IsRead, Writes
  <2>2. CASE t # s
    <3>1. requests'[t] = requests[t] /\ (IsWrite(t)' <=> IsWrite(t)) /\ (IsRead(t)' <=> IsRead(t))
      BY <1>1, <2>2 DEF IsWrite, IsRead
    <3>2. requests[t] \in Requested /\ Shaped(requests[t]) BY DEF ClientInv, ClientTypes
    <3>3. IsWrite(t) \/ IsRead(t) => requests[t].field \in Fields
      BY <3>2 DEF Shaped, IsWrite, IsRead, Writes
    <3>4. /\ IsWrite(t) \/ IsRead(t) => requests[t].gen <= generation[requests[t].field]
          /\ requests[t].kind = "health" => requests[t].gen <= loadGeneration
      BY DEF ClientInv, RequestsFit, FieldOf
    <3>5. requests[t].gen \in Nat /\ loadGeneration \in Nat /\ loadGeneration' \in Nat
          /\ \A f \in Fields : generation[f] \in Nat /\ generation'[f] \in Nat
      BY <3>2 DEF Requested, ClientInv, ClientTypes, VarTypes
    <3> QED BY <3>1, <3>3, <3>4, <3>5
  <2> QED BY <2>1, <2>2
<1>4. Spinners'
  <2>1. pageStatus' = "loading" =>
          \E t \in Slots : requests'[t].kind = "health" /\ requests'[t].gen = loadGeneration'
    BY <1>1 DEF ClientInv, Spinners
  <2>2. \A f \in Fields : saving'[f] =>
          \E t \in Slots : requests'[t].field = f /\ requests'[t].kind \in {"save", "reread"}
    BY <1>1 DEF ClientInv, Spinners, FieldOf
  <2> QED BY <2>1, <2>2 DEF Spinners, FieldOf
<1> QED BY <1>2, <1>3, <1>4 DEF ClientInv

\* What the page sends is a request of its kind.
LEMMA RequestFits ==
    ASSUME NEW kind, NEW f, NEW gen \in Nat, NEW value \in Nat, NEW from \in Nat,
           \/ kind \in {"read", "save"} /\ f \in Fields
           \/ kind \in {"reread", "policy"} /\ f = "mcp"
           \/ kind = "health" /\ f = "health"
    PROVE  /\ Request(kind, f, gen, value, from) \in Requested
           /\ Shaped(Request(kind, f, gen, value, from))
           /\ Request(kind, f, gen, value, from).kind = kind
           /\ Request(kind, f, gen, value, from).field = f
           /\ Request(kind, f, gen, value, from).gen = gen
           /\ Request(kind, f, gen, value, from).value = value
           /\ Request(kind, f, gen, value, from).at = "sent"
BY DEF Request, Requested, Shaped, Fields

\* A free slot asks for nothing.
LEMMA NoneFits ==
    /\ NoRequest \in Requested /\ Shaped(NoRequest) /\ NoRequest.kind = "none"
    /\ NoRequest.field = "none" /\ "none" \notin Fields /\ "health" \notin Fields
BY DEF NoRequest, Requested, Shaped, Fields

\* What a slot holds, with what every step reads of the invariant.
LEMMA HeldFits ==
    ASSUME ClientInv, NEW s \in Slots
    PROVE  /\ requests[s] \in Requested /\ Shaped(requests[s])
           /\ Free(s) => requests[s].kind = "none" /\ requests[s].field = "none"
           /\ VarTypes /\ ClientTypes /\ RequestsFit
           /\ \A f \in Fields : generation[f] \in Nat
BY NoneFits DEF ClientInv, ClientTypes, VarTypes, Free

\* load reads one setting and gives the read the newest generation.
LEMMA LoadKeeps == ASSUME ClientInv, NEW s \in Slots, load(s) PROVE ClientInv'
<1> DEFINE g == loadGeneration + 1
           n == Request("health", "health", g, 0, g)
<1>1. /\ Free(s) /\ loadGeneration' = g /\ pageStatus' = "loading" /\ mcpLoaded' = FALSE /\ Becomes(s, n)
      /\ UNCHANGED <<server, late, shown, told, saving, generation, saves, refreshes, excused>>
  BY DEF load, Becomes
<1>2. /\ VarTypes /\ requests[s].kind = "none" /\ requests[s].field = "none" /\ ClientTypes
      /\ g \in Nat /\ loadGeneration \in Nat
  BY <1>1, HeldFits DEF VarTypes
<1>3. n \in Requested /\ Shaped(n) /\ n.kind = "health" /\ n.field = "health" /\ n.gen = g
  BY <1>2, RequestFits
<1> HIDE DEF n
<1>6. mcpLoaded' \in BOOLEAN /\ \A f \in Fields : generation[f] \in Nat BY <1>1, HeldFits
<1>4. VarTypes' /\ \A f \in Fields : generation[f] <= generation'[f]
  BY <1>1, <1>2, <1>6 DEF VarTypes
<1>5. \A f \in Fields \ excused' : SettingFits(f)'
  BY <1>1, <1>2, <1>3, NoneFits, SettingAfter DEF ClientInv
<1> QED BY <1>1, <1>2, <1>3, <1>4, <1>5, NoneFits, Assembles

\* A read begins in a slot: the settings it and what the slot held are about.
LEMMA ReadFits ==
    ASSUME ClientInv, NEW s \in Slots, NEW kind \in {"read", "reread"}, NEW f \in Fields, NEW from \in Nat,
           kind = "reread" => f = "mcp", Read(s, kind, f, from), server' = server, late' = late,
           f \notin excused' => (shown'[f] # 0 /\ ~told'[f] => shown'[f] = server[f]),
           \A h \in Fields \ {f} : SettingFits(h) =>
              /\ requests[s].field # h => shown'[h] = shown[h] /\ told'[h] = told[h]
              /\ requests[s].field = h /\ IsRead(s) =>
                   \/ shown'[h] = shown[h] /\ (told[h] => told'[h])
                   \/ /\ requests[s].gen = generation[h] /\ requests[s].at = "served"
                      /\ shown'[h] = requests[s].value
              /\ ~(requests[s].field = h /\ IsWrite(s))
    PROVE  /\ \E n \in Requested : /\ Shaped(n) /\ Becomes(s, n) /\ n.kind = kind /\ n.field = f
                                   /\ n.gen = generation'[f]
           /\ generation' \in [Fields -> Nat] /\ \A h \in Fields : generation[h] <= generation'[h]
           /\ \A h \in Fields \ excused' : SettingFits(h)'
<1> DEFINE n == Request(kind, f, generation[f] + 1, 0, from)
<1>1. /\ generation' = [generation EXCEPT ![f] = @ + 1] /\ Becomes(s, n)
      /\ excused' = IF Unsettled(s, f) THEN excused \cup {f} ELSE excused
  BY DEF Read, Becomes
<1>2. ClientTypes /\ RequestsFit /\ generation[f] + 1 \in Nat /\ generation \in [Fields -> Nat]
  BY HeldFits DEF ClientTypes
<1>3. /\ n \in Requested /\ Shaped(n) /\ n.kind = kind /\ n.field = f /\ n.gen = generation[f] + 1
      /\ n.at = "sent"
  BY <1>2, RequestFits
<1> HIDE DEF n
<1>4. /\ generation'[f] = generation[f] + 1 /\ \A h \in Fields \ {f} : generation'[h] = generation[h]
      /\ generation' \in [Fields -> Nat] /\ \A h \in Fields : generation[h] <= generation'[h]
  BY <1>1, <1>2
<1>5. f \notin excused' => SettingFits(f)' BY <1>1, <1>2, <1>3, <1>4, ReadBegins
<1>6. ASSUME NEW h \in Fields \ excused', h # f PROVE SettingFits(h)'
  <2>1. SettingFits(h) BY <1>1, <1>6 DEF ClientInv
  <2> QED BY <1>2, <1>3, <1>1, <1>4, <1>6, <2>1, SettingAfter
<1> QED BY <1>1, <1>3, <1>4, <1>5, <1>6

\* refreshMcp reads the health of the servers.
LEMMA RefreshKeeps == ASSUME ClientInv, NEW s \in Slots, refreshMcp(s) PROVE ClientInv'
<1>1. /\ Free(s) /\ refreshes' = refreshes + 1
      /\ UNCHANGED <<server, late, shown, told, saving, pageStatus, mcpLoaded, loadGeneration, saves>>
  BY DEF refreshMcp
<1>2. PICK f \in Fields : Read(s, "read", f, 0) BY DEF refreshMcp, Fields
<1>3. /\ VarTypes /\ requests[s].kind = "none" /\ requests[s].field = "none" /\ ClientTypes
  BY <1>1, HeldFits
<1>4. f \notin excused' => (shown[f] # 0 /\ ~told[f] => shown[f] = server[f])
  <2> SUFFICES ASSUME f \notin excused' PROVE shown[f] # 0 /\ ~told[f] => shown[f] = server[f]
    OBVIOUS
  <2>1. ~Unsettled(s, f) /\ SettingFits(f) BY <1>2 DEF Read, ClientInv
  <2>2. ~InWrite(f) /\ ~InLate(f)
    BY <1>3, <2>1 DEF Unsettled, InFlight, InWrite, InLate, FieldOf, IsWrite, Writes
  <2> QED BY <2>1, <2>2 DEF SettingFits, NewestShown
<1>5. /\ \E n \in Requested : /\ Shaped(n) /\ Becomes(s, n) /\ n.kind = "read" /\ n.field = f
                              /\ n.gen = generation'[f]
      /\ generation' \in [Fields -> Nat] /\ \A h \in Fields : generation[h] <= generation'[h]
      /\ \A h \in Fields \ excused' : SettingFits(h)'
  BY <1>1, <1>2, <1>3, <1>4, NoneFits, ReadFits
<1>6. PICK n \in Requested : Shaped(n) /\ Becomes(s, n) /\ n.kind = "read" /\ n.field = f /\ n.gen = generation'[f]
  BY <1>5
<1>7. VarTypes' /\ loadGeneration \in Nat BY <1>1, <1>3, <1>5 DEF VarTypes
<1>8. n.gen <= generation'[n.field] BY <1>5, <1>6
<1> QED BY <1>1, <1>3, <1>5, <1>6, <1>7, <1>8, NoneFits, Assembles

\* A save is the newest request of its setting, and the only write unless the
\* setting is excused (saveSetting).
LEMMA SaveKeeps == ASSUME ClientInv, NEW s \in Slots, NEW f \in Fields, saveSetting(s, f) PROVE ClientInv'
<1> DEFINE n == Request("save", f, generation[f] + 1, saves + 2, 0)
<1>1. /\ Free(s) /\ saves' = saves + 1 /\ generation' = [generation EXCEPT ![f] = @ + 1]
      /\ Becomes(s, n) /\ saving' = [saving EXCEPT ![f] = TRUE] /\ told' = [told EXCEPT ![f] = FALSE]
      /\ excused' = IF Unsettled(s, f) THEN excused \cup {f} ELSE excused
      /\ UNCHANGED <<server, late, shown, pageStatus, mcpLoaded, loadGeneration, refreshes>>
  BY DEF saveSetting, Becomes
<1>2. /\ VarTypes /\ requests[s].kind = "none" /\ requests[s].field = "none" /\ ClientTypes
      /\ RequestsFit /\ generation[f] + 1 \in Nat /\ saves + 2 \in Nat /\ generation \in [Fields -> Nat]
  BY <1>1, HeldFits DEF VarTypes
<1>3. /\ n \in Requested /\ Shaped(n) /\ n.kind = "save" /\ n.field = f /\ n.gen = generation[f] + 1
      /\ n.at = "sent"
  BY <1>2, RequestFits
<1> HIDE DEF n
<1>4. /\ generation'[f] = generation[f] + 1 /\ \A h \in Fields \ {f} : generation'[h] = generation[h]
      /\ generation' \in [Fields -> Nat] /\ \A h \in Fields : generation[h] <= generation'[h]
  BY <1>1, <1>2
<1>5. told' \in [Fields -> BOOLEAN] /\ saving' \in [Fields -> BOOLEAN]
      /\ \A h \in Fields \ {f} : told'[h] = told[h] /\ saving'[h] = saving[h]
  BY <1>1, <1>2 DEF VarTypes
<1>6. VarTypes' BY <1>1, <1>2, <1>4, <1>5 DEF VarTypes
<1>7. f \notin excused' => SettingFits(f)' BY <1>1, <1>2, <1>3, <1>4, SaveBegins
<1>8. ASSUME NEW h \in Fields \ excused', h # f PROVE SettingFits(h)'
  <2>1. SettingFits(h) BY <1>1, <1>8 DEF ClientInv
  <2>2. /\ generation'[h] = generation[h] /\ told'[h] = told[h] /\ UNCHANGED <<server, late, shown>>
        /\ n.field # h /\ requests[s].field # h
    BY <1>1, <1>2, <1>3, <1>4, <1>5, <1>8, NoneFits
  <2> QED BY <1>1, <1>2, <1>3, <2>1, <2>2, SettingAfter
<1>9. loadGeneration \in Nat /\ n.gen <= generation'[n.field] BY <1>2, <1>3, <1>4 DEF VarTypes
<1> QED BY <1>1, <1>2, <1>3, <1>4, <1>5, <1>6, <1>7, <1>8, <1>9, NoneFits, Assembles

\* A policy is a write of the MCP list under the generation there was; asked for
\* beside another request it excuses the list (setMcpToolPolicy).
LEMMA PolicyKeeps == ASSUME ClientInv, NEW s \in Slots, setMcpToolPolicy(s) PROVE ClientInv'
<1> DEFINE n == Request("policy", "mcp", generation["mcp"], saves + 2, 0)
<1>1. /\ Free(s) /\ saves' = saves + 1 /\ Becomes(s, n)
      /\ excused' = IF InFlight("mcp") # {} \/ Unsettled(s, "mcp") THEN excused \cup {"mcp"} ELSE excused
      /\ UNCHANGED <<server, late, shown, told, saving, pageStatus, mcpLoaded, loadGeneration, generation,
                     refreshes>>
  BY DEF setMcpToolPolicy, Becomes
<1>2. /\ VarTypes /\ requests[s].kind = "none" /\ requests[s].field = "none" /\ ClientTypes
      /\ "mcp" \in Fields /\ generation["mcp"] \in Nat /\ saves + 2 \in Nat
      /\ generation \in [Fields -> Nat]
  BY <1>1, HeldFits DEF VarTypes, Fields
<1>3. /\ n \in Requested /\ Shaped(n) /\ n.kind = "policy" /\ n.field = "mcp" /\ n.gen = generation["mcp"]
      /\ n.at = "sent"
  BY <1>2, RequestFits
<1> HIDE DEF n
<1>4. VarTypes' /\ loadGeneration \in Nat /\ \A h \in Fields : generation[h] <= generation'[h]
  BY <1>1, <1>2 DEF VarTypes
<1>5. "mcp" \notin excused' => SettingFits("mcp")' BY <1>1, <1>2, <1>3, PolicyBegins
<1>6. ASSUME NEW h \in Fields \ excused', h # "mcp" PROVE SettingFits(h)'
  <2>1. SettingFits(h) BY <1>1, <1>6 DEF ClientInv
  <2> QED BY <1>1, <1>2, <1>3, <1>6, <2>1, NoneFits, SettingAfter
<1>7. n.gen <= generation'[n.field] BY <1>1, <1>2, <1>3
<1> QED BY <1>1, <1>2, <1>3, <1>4, <1>5, <1>6, <1>7, NoneFits, Assembles

\* A request on its way, for its own setting and the others.
LEMMA OnItsWay ==
    ASSUME ClientInv, NEW s \in Slots, NEW n \in Requested, Becomes(s, n), requests[s].kind # "none",
           n.kind = requests[s].kind, n.gen = requests[s].gen, n.field = requests[s].field,
           requests[s].at = "lost" => n.at = "lost",
           UNCHANGED <<shown, told, saving, pageStatus, mcpLoaded, loadGeneration, generation, saves,
                       refreshes, excused>>,
           server' \in [Fields -> Nat], late' \subseteq Fields \X Nat,
           \A f \in Fields : f # n.field =>
              server'[f] = server[f] /\ \A v \in late \cup late' : v[1] = f => v \in late /\ v \in late',
           IsWrite(s) => /\ n.value = requests[s].value
                         /\ n.at = "served" => server'[n.field] = n.value
                         /\ \/ late' = late
                            \/ /\ requests[s].at # "lost" /\ n.at = "lost"
                               /\ late' = late \cup {<<n.field, n.value>>},
           ~IsWrite(s) => /\ late' = late /\ server' = server
                          /\ n.at = "served" /\ n.field \in Fields => n.value = server[n.field]
    PROVE  ClientInv'
<1>1. /\ requests[s] \in Requested /\ Shaped(requests[s]) /\ VarTypes /\ ClientTypes BY HeldFits
<1>2. Shaped(n) BY <1>1 DEF Shaped
<1>3. VarTypes' BY <1>1 DEF VarTypes
<1>4. ASSUME NEW f \in Fields \ excused' PROVE SettingFits(f)'
  <2>1. SettingFits(f) BY DEF ClientInv
  <2>2. CASE n.field = f BY <1>1, <1>2, <2>1, <2>2, SlotGoesOn
  <2>3. CASE n.field # f BY <1>1, <1>2, <2>1, <2>3, OtherSetting
  <2> QED BY <2>2, <2>3
<1>5. /\ n.kind \in {"read", "reread", "save", "policy"} => n.gen <= generation[n.field]
      /\ n.kind = "health" => n.gen <= loadGeneration
  BY DEF ClientInv, RequestsFit, FieldOf, IsRead, IsWrite, Writes
<1>6. loadGeneration \in Nat /\ \A f \in Fields : generation[f] \in Nat BY <1>1 DEF VarTypes
<1>7. loadGeneration <= loadGeneration' /\ \A f \in Fields : generation[f] <= generation'[f] BY <1>6
<1> QED BY <1>2, <1>3, <1>4, <1>5, <1>7, Assembles

\* An answer's record is the request's but for how far it is and its value.
LEMMA GoesOn ==
    ASSUME NEW r \in Requested, NEW stage \in {"none", "sent", "served", "refused", "lost"}, NEW n,
           n = [r EXCEPT !.at = stage]
    PROVE  /\ n \in Requested /\ n.at = stage /\ n.kind = r.kind /\ n.field = r.field /\ n.gen = r.gen
           /\ n.value = r.value /\ n.load = r.load
BY DEF Requested
\* The answer adds its value to the request, and changes nothing else of it.
LEMMA Brings ==
    ASSUME NEW r \in Requested, NEW value \in Nat, NEW n, n = [r EXCEPT !.value = value]
    PROVE  /\ n \in Requested /\ n.at = r.at /\ n.kind = r.kind /\ n.field = r.field /\ n.gen = r.gen
           /\ n.value = value /\ n.load = r.load
BY DEF Requested

\* The server answers a read, or takes a write.
LEMMA ServeKeeps == ASSUME ClientInv, NEW s \in Slots, Serve(s) PROVE ClientInv'
<1> DEFINE r == requests[s]
<1>1. /\ r.at = "sent"
      /\ UNCHANGED <<late, shown, told, saving, pageStatus, mcpLoaded, loadGeneration, generation, saves,
                     refreshes, excused>>
  BY DEF Serve
<1>2. /\ r \in Requested /\ Shaped(r) /\ VarTypes /\ requests \in [Slots -> Requested]
  BY HeldFits DEF ClientTypes
<1>3. r.kind # "none" BY <1>1, <1>2 DEF Shaped, NoRequest
<1>4. r.kind # "health" => r.field \in Fields BY <1>2, <1>3 DEF Shaped, Requested
<1>5. PICK n : n = [r EXCEPT !.at = "served"] OBVIOUS
<1>6. /\ n \in Requested /\ n.at = "served" /\ n.kind = r.kind /\ n.field = r.field /\ n.gen = r.gen
      /\ n.value = r.value
  BY <1>2, <1>5, GoesOn
<1>7. CASE Writes(r.kind)
  <2>1. server' = [server EXCEPT ![r.field] = r.value] /\ Becomes(s, n)
    BY <1>5, <1>7 DEF Serve, Becomes
  <2>2. /\ r.field \in Fields /\ r.value \in Nat /\ server' \in [Fields -> Nat]
        /\ server'[r.field] = r.value /\ \A f \in Fields : f # r.field => server'[f] = server[f]
    BY <1>2, <1>4, <1>7, <2>1 DEF Writes, Requested, VarTypes
  <2>3. IsWrite(s) BY <1>7 DEF IsWrite
  <2>4. late \subseteq Fields \X Nat BY <1>2 DEF VarTypes
  <2> HIDE DEF r
  <2> QED BY <1>1, <1>3, <1>6, <2>1, <2>2, <2>3, <2>4, OnItsWay DEF r
<1>8. CASE ~Writes(r.kind)
  <2>1. PICK value : value = IF r.kind = "health" THEN 0 ELSE server[r.field] OBVIOUS
  <2>2. PICK m : m = [n EXCEPT !.value = value] OBVIOUS
  <2>3. value \in Nat /\ (r.field \in Fields => value = server[r.field])
    BY <1>2, <1>4, <2>1, NoneFits DEF VarTypes, Shaped
  <2>4. /\ m \in Requested /\ m.at = "served" /\ m.kind = r.kind /\ m.field = r.field /\ m.gen = r.gen
        /\ m.value = value
    BY <1>6, <2>2, <2>3, Brings
  <2>5. server' = server /\ Becomes(s, m)
    <3>1. requests' = [requests EXCEPT ![s].at = "served",
                         ![s].value = IF r.kind = "health" THEN 0 ELSE server[r.field]]
          /\ server' = server
      BY <1>8 DEF Serve
    <3>2. requests' = [[requests EXCEPT ![s] = n] EXCEPT ![s].value = value] BY <1>5, <2>1, <3>1
    <3>3. [requests EXCEPT ![s] = n][s] = n BY <1>2
    <3>4. requests' = [[requests EXCEPT ![s] = n] EXCEPT ![s] = m] BY <2>2, <3>2, <3>3
    <3>5. requests' = [requests EXCEPT ![s] = m] BY <1>2, <3>4
    <3> QED BY <3>1, <3>5 DEF Becomes
  <2>6. ~IsWrite(s) BY <1>8 DEF IsWrite
  <2>7. late \subseteq Fields \X Nat /\ server \in [Fields -> Nat] BY <1>2 DEF VarTypes
  <2> HIDE DEF r
  <2> QED BY <1>1, <1>3, <2>3, <2>4, <2>5, <2>6, <2>7, OnItsWay DEF r
<1> QED BY <1>7, <1>8

\* The server refuses a write, or a read fails.
LEMMA RefusalKeeps == ASSUME ClientInv, NEW s \in Slots, Refuse(s) PROVE ClientInv'
<1> DEFINE r == requests[s]
<1>1. /\ r.at = "sent" /\ requests' = [requests EXCEPT ![s].at = "refused"]
      /\ UNCHANGED <<server, late, shown, told, saving, pageStatus, mcpLoaded, loadGeneration, generation,
                     saves, refreshes, excused>>
  BY DEF Refuse
<1>2. r \in Requested /\ Shaped(r) /\ server \in [Fields -> Nat] /\ late \subseteq Fields \X Nat
  BY HeldFits DEF VarTypes
<1>3. r.kind # "none" BY <1>1, <1>2 DEF Shaped, NoRequest
<1>4. PICK n : n = [r EXCEPT !.at = "refused"] OBVIOUS
<1>5. /\ n \in Requested /\ n.at = "refused" /\ n.kind = r.kind /\ n.field = r.field /\ n.gen = r.gen
      /\ n.value = r.value
  BY <1>2, <1>4, GoesOn
<1>6. Becomes(s, n) BY <1>1, <1>4 DEF Becomes
<1> HIDE DEF r
<1> QED BY <1>1, <1>2, <1>3, <1>5, <1>6, OnItsWay DEF r

\* The connection is lost: a write that was not served may still arrive.
LEMMA CutOffKeeps == ASSUME ClientInv, NEW s \in Slots, CutOff(s) PROVE ClientInv'
<1> DEFINE r == requests[s]
<1>1. /\ r.at \in {"sent", "served"} /\ requests' = [requests EXCEPT ![s].at = "lost"]
      /\ late' = IF Writes(r.kind) /\ r.at = "sent" THEN late \cup {<<r.field, r.value>>} ELSE late
      /\ UNCHANGED <<server, shown, told, saving, pageStatus, mcpLoaded, loadGeneration, generation,
                     saves, refreshes, excused>>
  BY DEF CutOff
<1>2. r \in Requested /\ Shaped(r) /\ server \in [Fields -> Nat] /\ late \subseteq Fields \X Nat
  BY HeldFits DEF VarTypes
<1>3. r.kind # "none" BY <1>1, <1>2 DEF Shaped, NoRequest
<1>4. PICK n : n = [r EXCEPT !.at = "lost"] OBVIOUS
<1>5. /\ n \in Requested /\ n.at = "lost" /\ n.kind = r.kind /\ n.field = r.field /\ n.gen = r.gen
      /\ n.value = r.value
  BY <1>2, <1>4, GoesOn
<1>6. Becomes(s, n) BY <1>1, <1>4 DEF Becomes
<1>7. Writes(r.kind) => r.field \in Fields /\ r.value \in Nat BY <1>2 DEF Writes, Shaped, Requested
<1>8. IsWrite(s) <=> Writes(r.kind) BY DEF IsWrite
<1> HIDE DEF r
<1>9. /\ late' \subseteq Fields \X Nat
      /\ \A f \in Fields : f # n.field => \A v \in late \cup late' : v[1] = f => v \in late /\ v \in late'
      /\ IsWrite(s) => late' = late \/ late' = late \cup {<<n.field, n.value>>}
      /\ ~IsWrite(s) => late' = late
  BY <1>1, <1>2, <1>5, <1>7, <1>8
<1>10. r.at # "lost" BY <1>1
<1> QED BY <1>1, <1>2, <1>3, <1>5, <1>6, <1>9, <1>10, OnItsWay DEF r

\* The late write arrives.
LEMMA ArriveKeeps == ASSUME ClientInv, Arrive PROVE ClientInv'
<1>1. PICK w \in late : late' = late \ {w} /\ server' = [server EXCEPT ![w[1]] = w[2]] BY DEF Arrive
<1>2. UNCHANGED <<shown, told, saving, pageStatus, mcpLoaded, loadGeneration, generation, requests, saves,
                  refreshes, excused>>
  BY DEF Arrive
<1>3. w[1] \in Fields /\ w[2] \in Nat BY DEF ClientInv, ClientTypes
<1>4. ClientTypes'
  <2>1. server' \in [Fields -> Nat] /\ late' \subseteq Fields \X Nat
    BY <1>1, <1>3 DEF ClientInv, ClientTypes
  <2> QED BY <1>2, <2>1 DEF ClientInv, ClientTypes, Shaped
<1>5. RequestsFit' /\ Spinners'
  BY <1>2 DEF ClientInv, RequestsFit, Spinners, IsRead, IsWrite, FieldOf
<1>6. ASSUME NEW f \in Fields \ excused PROVE SettingFits(f)'
  <2>1. SettingFits(f) /\ ClientTypes BY DEF ClientInv
  <2>2. w[1] # f => server'[f] = server[f] BY <1>1, <1>3, <2>1 DEF ClientTypes
  <2> QED BY <1>1, <1>2, <2>1, <2>2, LateArrives
<1> QED BY <1>2, <1>4, <1>5, <1>6 DEF ClientInv

\* The answer about the health of the servers changes no setting.
LEMMA HealthKeeps == ASSUME ClientInv, NEW s \in Slots, healthAnswer(s) PROVE ClientInv'
<1> DEFINE r == requests[s]
<1>1. /\ r.kind = "health"
      /\ UNCHANGED <<server, late, shown, told, saving, mcpLoaded, loadGeneration, saves, refreshes>>
  BY DEF healthAnswer
<1>2. /\ r \in Requested /\ Shaped(r) /\ VarTypes /\ ClientTypes /\ RequestsFit
      /\ \A f \in Fields : generation[f] \in Nat
  BY HeldFits
<1>3. r.field = "health" /\ r.load \in Nat /\ loadGeneration \in Nat /\ ~IsRead(s) /\ ~IsWrite(s)
  BY <1>1, <1>2 DEF Shaped, Requested, VarTypes, IsRead, IsWrite, Writes
<1>4. CASE Done(s) /\ ((r.gen # loadGeneration /\ pageStatus' = pageStatus) \/ pageStatus' = "error")
  <2>1. Becomes(s, NoRequest) /\ UNCHANGED <<generation, excused>> BY <1>4 DEF Done, Becomes
  <2>2. VarTypes' BY <1>1, <1>2, <2>1 DEF VarTypes
  <2>3. \A f \in Fields \ excused' : SettingFits(f)'
    BY <1>1, <1>2, <1>3, <2>1, NoneFits, SettingAfter DEF ClientInv
  <2>4. \A f \in Fields : generation[f] <= generation'[f] /\ loadGeneration <= loadGeneration'
    BY <1>1, <1>2, <1>3, <2>1
  <2> QED BY <1>1, <1>3, <1>4, <2>1, <2>2, <2>3, <2>4, NoneFits, Assembles
<1>5. CASE pageStatus' = "ready" /\ Read(s, "read", "approval", r.load)
  <2> DEFINE f == "approval"
  <2>1. f \in Fields BY DEF Fields
  <2>2. ASSUME f \notin excused' PROVE shown[f] # 0 /\ ~told[f] => shown[f] = server[f]
    <3>1. ~Unsettled(s, f) /\ SettingFits(f) BY <1>5, <2>1, <2>2 DEF Read, ClientInv
    <3>2. ~InWrite(f) /\ ~InLate(f)
      BY <1>3, <3>1 DEF Unsettled, InFlight, InWrite, InLate, FieldOf, IsWrite, Writes
    <3> QED BY <3>1, <3>2 DEF SettingFits, NewestShown
  <2> HIDE DEF f
  <2>3. /\ \E n \in Requested : /\ Shaped(n) /\ Becomes(s, n) /\ n.kind = "read" /\ n.field = f
                                /\ n.gen = generation'[f]
        /\ generation' \in [Fields -> Nat] /\ \A h \in Fields : generation[h] <= generation'[h]
        /\ \A h \in Fields \ excused' : SettingFits(h)'
    <3>1. Read(s, "read", f, r.load) BY <1>5 DEF f
    <3> QED BY <1>1, <1>3, <2>1, <2>2, <3>1, ReadFits
  <2>4. PICK n \in Requested : Shaped(n) /\ Becomes(s, n) /\ n.kind = "read" /\ n.field = f /\ n.gen = generation'[f]
    BY <2>3
  <2>5. VarTypes' BY <1>1, <1>2, <2>3 DEF VarTypes
  <2>6. n.gen <= generation'[n.field] /\ loadGeneration <= loadGeneration'
    BY <1>1, <1>3, <2>1, <2>3, <2>4
  <2> QED BY <1>1, <1>3, <1>5, <2>3, <2>4, <2>5, <2>6, NoneFits, Assembles
<1> QED BY <1>4, <1>5 DEF healthAnswer

\* The answer of a read is shown only if nothing newer was asked.
LEMMA ReadAnswerKeeps == ASSUME ClientInv, NEW s \in Slots, readAnswer(s) PROVE ClientInv'
<1> DEFINE r == requests[s]
           e == r.field
<1>1. /\ r.kind = "read" /\ GoOn(s)
      /\ UNCHANGED <<server, late, saving, pageStatus, loadGeneration, saves, refreshes>>
  BY DEF readAnswer
<1>2. /\ r \in Requested /\ Shaped(r) /\ VarTypes /\ ClientTypes /\ RequestsFit
      /\ \A f \in Fields : generation[f] \in Nat
  BY HeldFits
<1>3. e \in Fields /\ r.load \in Nat /\ r.value \in Nat /\ loadGeneration \in Nat /\ IsRead(s) /\ ~IsWrite(s)
  BY <1>1, <1>2 DEF Shaped, Requested, VarTypes, IsRead, IsWrite, Writes
<1>4. /\ shown' \in [Fields -> Nat] /\ told' \in [Fields -> BOOLEAN] /\ mcpLoaded' \in BOOLEAN
      /\ \A h \in Fields : h # e => shown'[h] = shown[h] /\ told'[h] = told[h]
      /\ \/ shown'[e] = shown[e] /\ (told[e] => told'[e])
         \/ r.gen = generation[e] /\ r.at = "served" /\ shown'[e] = r.value
  <2>1. CASE ~Latest(r) BY <1>2, <1>3, <2>1 DEF readAnswer, VarTypes
  <2>2. CASE Latest(r) /\ Served(s)
    <3>1. PICK b \in BOOLEAN : b = (told[e] /\ e = "mcp") OBVIOUS
    <3>2. PICK c \in BOOLEAN : c = (mcpLoaded \/ e = "mcp") OBVIOUS
    <3>3. shown' = [shown EXCEPT ![e] = r.value] /\ told' = [told EXCEPT ![e] = @ /\ e = "mcp"]
          /\ mcpLoaded' = (mcpLoaded \/ e = "mcp")
      BY <2>2 DEF readAnswer
    <3>4. told' = [told EXCEPT ![e] = b] /\ mcpLoaded' = c BY <3>1, <3>2, <3>3
    <3>5. r.gen = generation[e] /\ r.at = "served" BY <2>2 DEF Latest, newest, Served
    <3> QED BY <1>2, <1>3, <3>3, <3>4, <3>5 DEF VarTypes
  <2>3. CASE Latest(r) /\ ~Served(s)
    <3>1. PICK b \in BOOLEAN : b = (told[e] \/ e # "mcp") OBVIOUS
    <3>2. told' = [told EXCEPT ![e] = @ \/ e # "mcp"] /\ UNCHANGED <<shown, mcpLoaded>>
      BY <2>3 DEF readAnswer
    <3>3. told' = [told EXCEPT ![e] = b] BY <3>1, <3>2
    <3>4. told[e] => b BY <3>1
    <3> QED BY <1>2, <1>3, <3>2, <3>3, <3>4 DEF VarTypes
  <2> QED BY <2>1, <2>2, <2>3
<1>5. CASE Done(s)
  <2>1. Becomes(s, NoRequest) /\ UNCHANGED <<generation, excused>> BY <1>5 DEF Done, Becomes
  <2>2. VarTypes' BY <1>1, <1>2, <1>4, <2>1 DEF VarTypes
  <2>3. ASSUME NEW f \in Fields \ excused' PROVE SettingFits(f)'
    <3>1. SettingFits(f) /\ NoRequest.field # f /\ generation'[f] = generation[f]
      BY <2>1, NoneFits DEF ClientInv
    <3>2. e # f => shown'[f] = shown[f] /\ told'[f] = told[f] BY <1>4
    <3>3. e = f => \/ shown'[f] = shown[f] /\ (told[f] => told'[f])
                   \/ r.gen = generation[f] /\ r.at = "served" /\ shown'[f] = r.value
      BY <1>4
    <3> QED BY <1>1, <1>2, <1>3, <2>1, <3>1, <3>2, <3>3, NoneFits, SettingAfter
  <2>4. \A f \in Fields : generation[f] <= generation'[f] /\ loadGeneration <= loadGeneration'
    BY <1>1, <1>2, <1>3, <2>1
  <2> QED BY <1>1, <1>3, <2>1, <2>2, <2>3, <2>4, NoneFits, Assembles
<1>6. CASE e # "mcp" /\ Read(s, "read", After(e), r.load)
  <2> DEFINE f == After(e)
  <2>1. f \in Fields /\ f # e BY <1>3, <1>6 DEF After, Fields
  <2>2. ASSUME f \notin excused' PROVE shown'[f] # 0 /\ ~told'[f] => shown'[f] = server[f]
    <3>1. ~Unsettled(s, f) /\ SettingFits(f) BY <1>6, <2>1, <2>2 DEF Read, ClientInv
    <3>2. ~InWrite(f) /\ ~InLate(f)
      BY <2>1, <3>1 DEF Unsettled, InFlight, InWrite, InLate, FieldOf, IsWrite, Writes
    <3> QED BY <1>4, <2>1, <3>1, <3>2 DEF SettingFits, NewestShown
  <2>0. Read(s, "read", f, r.load) BY <1>6
  <2> HIDE DEF f
  <2>3. /\ \E n \in Requested : /\ Shaped(n) /\ Becomes(s, n) /\ n.kind = "read" /\ n.field = f
                                /\ n.gen = generation'[f]
        /\ generation' \in [Fields -> Nat] /\ \A h \in Fields : generation[h] <= generation'[h]
        /\ \A h \in Fields \ excused' : SettingFits(h)'
    <3>1. \A h \in Fields \ {f} :
              /\ e # h => shown'[h] = shown[h] /\ told'[h] = told[h]
              /\ e = h /\ IsRead(s) =>
                   \/ shown'[h] = shown[h] /\ (told[h] => told'[h])
                   \/ r.gen = generation[h] /\ r.at = "served" /\ shown'[h] = r.value
              /\ ~(e = h /\ IsWrite(s))
      BY <1>3, <1>4
    <3> QED BY <1>1, <1>3, <2>0, <2>1, <2>2, <3>1, ReadFits
  <2>4. PICK n \in Requested : Shaped(n) /\ Becomes(s, n) /\ n.kind = "read" /\ n.field = f /\ n.gen = generation'[f]
    BY <2>3
  <2>5. VarTypes' BY <1>1, <1>2, <1>4, <2>3 DEF VarTypes
  <2>6. n.gen <= generation'[n.field] /\ loadGeneration <= loadGeneration'
    BY <1>1, <1>3, <2>1, <2>3, <2>4
  <2> QED BY <1>1, <1>3, <2>3, <2>4, <2>5, <2>6, NoneFits, Assembles
<1> QED BY <1>1, <1>5, <1>6 DEF GoOn

\* The answer of a save is shown, and frees the spinner.
LEMMA SaveAnswerKeeps == ASSUME ClientInv, NEW s \in Slots, saveAnswer(s) PROVE ClientInv'
<1> DEFINE r == requests[s]
           e == r.field
<1>1. /\ r.kind = "save" /\ e # "mcp" /\ Becomes(s, NoRequest) /\ UNCHANGED <<generation, excused>>
      /\ saving' = [saving EXCEPT ![e] = FALSE]
      /\ UNCHANGED <<server, late, pageStatus, mcpLoaded, loadGeneration, saves, refreshes>>
  BY DEF saveAnswer, Done, Becomes, SavingEnds, stopsSaving
<1>2. /\ r \in Requested /\ Shaped(r) /\ VarTypes /\ ClientTypes /\ RequestsFit
      /\ \A f \in Fields : generation[f] \in Nat
  BY HeldFits
<1>3. e \in Fields /\ r.value \in Nat /\ loadGeneration \in Nat /\ ~IsRead(s) /\ IsWrite(s)
  BY <1>1, <1>2 DEF Shaped, Requested, VarTypes, IsRead, IsWrite, Writes
<1>4. e \notin excused => r.gen = generation[e]
  BY <1>3 DEF ClientInv, SettingFits, OneWrite, WriteFits, FieldOf
<1>5. /\ shown' \in [Fields -> Nat] /\ told' \in [Fields -> BOOLEAN]
      /\ \A h \in Fields : h # e => shown'[h] = shown[h] /\ told'[h] = told[h]
      /\ e \notin excused => (r.at = "served" /\ shown'[e] = r.value) \/ told'[e]
  <2>1. CASE Served(s)
    <3>1. told' = told /\ shown' = IF e = "runtime" /\ ~Latest(r) THEN shown ELSE [shown EXCEPT ![e] = r.value]
      BY <2>1 DEF saveAnswer
    <3>2. e \notin excused => shown' = [shown EXCEPT ![e] = r.value] /\ r.at = "served"
      BY <1>4, <2>1, <3>1 DEF Latest, newest, Served
    <3> QED BY <1>2, <1>3, <3>1, <3>2 DEF VarTypes
  <2>2. CASE ~Served(s)
    <3>1. told' = [told EXCEPT ![e] = TRUE] /\ shown' = shown BY <2>2 DEF saveAnswer
    <3>2. told \in [Fields -> BOOLEAN] /\ shown \in [Fields -> Nat] BY <1>2 DEF VarTypes
    <3>3. told' \in [Fields -> BOOLEAN] /\ told'[e] /\ \A h \in Fields : h # e => told'[h] = told[h]
      BY <1>3, <3>1, <3>2
    <3> QED BY <3>1, <3>2, <3>3
  <2> QED BY <2>1, <2>2
<1>6. saving' \in [Fields -> BOOLEAN] /\ \A f \in Fields : saving'[f] => f # e /\ saving[f]
  <2>1. saving \in [Fields -> BOOLEAN] BY <1>2 DEF VarTypes
  <2> QED BY <1>1, <1>3, <2>1
<1>7. VarTypes' BY <1>1, <1>2, <1>5, <1>6 DEF VarTypes
<1>8. ASSUME NEW f \in Fields \ excused' PROVE SettingFits(f)'
  <2>1. SettingFits(f) /\ NoRequest.field # f /\ generation'[f] = generation[f]
    BY <1>1, NoneFits DEF ClientInv
  <2>2. e # f => shown'[f] = shown[f] /\ told'[f] = told[f] BY <1>5
  <2>3. e = f => (r.at = "served" /\ shown'[f] = r.value) \/ told'[f] BY <1>1, <1>5
  <2> QED BY <1>1, <1>2, <1>3, <2>1, <2>2, <2>3, NoneFits, SettingAfter
<1>9. \A f \in Fields : generation[f] <= generation'[f] /\ loadGeneration <= loadGeneration'
  BY <1>1, <1>2, <1>3
<1> QED BY <1>1, <1>3, <1>6, <1>7, <1>8, <1>9, NoneFits, Assembles

\* The MCP list that was saved is read again (saveMcpServers).
LEMMA SavedListKeeps == ASSUME ClientInv, NEW s \in Slots, saveMcpServers(s) PROVE ClientInv'
<1> DEFINE r == requests[s]
<1>1. /\ r.kind = "save" /\ r.field = "mcp"
      /\ UNCHANGED <<server, late, pageStatus, mcpLoaded, loadGeneration, saves, refreshes>>
  BY DEF saveMcpServers
<1>2. /\ r \in Requested /\ Shaped(r) /\ VarTypes /\ ClientTypes /\ RequestsFit
      /\ \A f \in Fields : generation[f] \in Nat
  BY HeldFits
<1>3. "mcp" \in Fields /\ r.value \in Nat /\ loadGeneration \in Nat /\ ~IsRead(s) /\ IsWrite(s)
  BY <1>1, <1>2 DEF Requested, VarTypes, IsRead, IsWrite, Writes, Fields
<1>4. CASE Served(s)
  <2>1. shown' = [shown EXCEPT !["mcp"] = r.value] /\ Read(s, "reread", "mcp", 0) /\ UNCHANGED <<saving, told>>
    BY <1>4 DEF saveMcpServers
  <2>2. /\ shown' \in [Fields -> Nat] /\ shown'["mcp"] = r.value
        /\ \A h \in Fields : h # "mcp" => shown'[h] = shown[h]
    BY <1>2, <1>3, <2>1 DEF VarTypes
  <2>3. ASSUME "mcp" \notin excused' PROVE shown'["mcp"] = server["mcp"]
    <3>1. "mcp" \notin excused BY <2>1, <2>3 DEF Read
    <3>2. WriteFits("mcp", s) BY <1>1, <1>3, <3>1 DEF ClientInv, SettingFits, OneWrite, FieldOf
    <3> QED BY <1>4, <2>2, <3>2 DEF WriteFits, Served
  <2>4. /\ \E n \in Requested : /\ Shaped(n) /\ Becomes(s, n) /\ n.kind = "reread" /\ n.field = "mcp"
                                /\ n.gen = generation'["mcp"]
        /\ generation' \in [Fields -> Nat] /\ \A h \in Fields : generation[h] <= generation'[h]
        /\ \A h \in Fields \ excused' : SettingFits(h)'
    BY <1>1, <1>3, <2>1, <2>2, <2>3, ReadFits
  <2>5. PICK n \in Requested : Shaped(n) /\ Becomes(s, n) /\ n.kind = "reread" /\ n.field = "mcp"
                               /\ n.gen = generation'["mcp"]
    BY <2>4
  <2>6. VarTypes' BY <1>1, <1>2, <2>1, <2>2, <2>4 DEF VarTypes
  <2>7. n.gen <= generation'[n.field] /\ loadGeneration <= loadGeneration' BY <1>1, <1>3, <2>4, <2>5
  <2>8. \A f \in Fields : saving'[f] =>
           \/ n.field = f /\ n.kind \in {"save", "reread"}
           \/ saving[f] /\ ~(r.field = f /\ r.kind \in {"save", "reread"})
    BY <1>1, <2>1, <2>5
  <2> QED BY <1>1, <1>3, <2>4, <2>5, <2>6, <2>7, <2>8, NoneFits, Assembles
<1>5. CASE ~Served(s)
  <2>1. /\ saving' = [saving EXCEPT !["mcp"] = FALSE] /\ told' = [told EXCEPT !["mcp"] = TRUE] /\ shown' = shown
        /\ Becomes(s, NoRequest) /\ UNCHANGED <<generation, excused>>
    BY <1>5 DEF saveMcpServers, Done, Becomes
  <2>2. saving \in [Fields -> BOOLEAN] /\ told \in [Fields -> BOOLEAN] BY <1>2 DEF VarTypes
  <2>3. /\ saving' \in [Fields -> BOOLEAN] /\ \A f \in Fields : saving'[f] => f # "mcp" /\ saving[f]
        /\ told' \in [Fields -> BOOLEAN] /\ told'["mcp"]
        /\ \A h \in Fields : h # "mcp" => told'[h] = told[h]
    BY <1>3, <2>1, <2>2
  <2>4. VarTypes' BY <1>1, <1>2, <2>1, <2>3 DEF VarTypes
  <2>5. ASSUME NEW f \in Fields \ excused' PROVE SettingFits(f)'
    <3>1. SettingFits(f) /\ NoRequest.field # f /\ generation'[f] = generation[f]
      BY <2>1, NoneFits DEF ClientInv
    <3>2. r.field # f => shown'[f] = shown[f] /\ told'[f] = told[f] BY <1>1, <2>1, <2>3
    <3>3. r.field = f => told'[f] BY <1>1, <2>3
    <3> QED BY <1>1, <1>2, <1>3, <2>1, <3>1, <3>2, <3>3, NoneFits, SettingAfter
  <2>6. \A f \in Fields : generation[f] <= generation'[f] /\ loadGeneration <= loadGeneration'
    BY <1>1, <1>2, <1>3, <2>1
  <2>7. \A f \in Fields : saving'[f] => saving[f] /\ ~(r.field = f /\ r.kind \in {"save", "reread"})
    BY <1>1, <2>3
  <2> QED BY <1>1, <1>3, <2>1, <2>4, <2>5, <2>6, <2>7, NoneFits, Assembles
<1> QED BY <1>4, <1>5

\* The answer of that reading is shown only if nothing newer was asked.
LEMMA RereadKeeps == ASSUME ClientInv, NEW s \in Slots, refreshMcpServers(s) PROVE ClientInv'
<1> DEFINE r == requests[s]
<1>1. /\ r.kind = "reread" /\ Becomes(s, NoRequest) /\ UNCHANGED <<generation, excused>>
      /\ saving' = [saving EXCEPT !["mcp"] = FALSE]
      /\ UNCHANGED <<server, late, told, pageStatus, loadGeneration, saves, refreshes>>
  BY DEF refreshMcpServers, Done, Becomes
<1>2. /\ r \in Requested /\ Shaped(r) /\ VarTypes /\ ClientTypes /\ RequestsFit
      /\ \A f \in Fields : generation[f] \in Nat
  BY HeldFits
<1>3. /\ r.field = "mcp" /\ "mcp" \in Fields /\ r.value \in Nat /\ loadGeneration \in Nat
      /\ IsRead(s) /\ ~IsWrite(s)
  BY <1>1, <1>2 DEF Requested, Shaped, VarTypes, IsRead, IsWrite, Writes, Fields
<1>4. /\ shown' \in [Fields -> Nat] /\ mcpLoaded' \in BOOLEAN
      /\ \A h \in Fields : h # "mcp" => shown'[h] = shown[h]
      /\ \/ shown' = shown
         \/ r.gen = generation["mcp"] /\ r.at = "served" /\ shown'["mcp"] = r.value
  <2>1. CASE Latest(r) /\ Served(s)
    <3>1. shown' = [shown EXCEPT !["mcp"] = r.value] /\ mcpLoaded' = TRUE
      BY <2>1 DEF refreshMcpServers
    <3>2. r.gen = generation["mcp"] /\ r.at = "served" BY <1>3, <2>1 DEF Latest, newest, Served
    <3>3. mcpLoaded' \in BOOLEAN BY <3>1
    <3>4. shown \in [Fields -> Nat] BY <1>2 DEF VarTypes
    <3> QED BY <1>3, <3>1, <3>2, <3>3, <3>4
  <2>2. CASE ~(Latest(r) /\ Served(s)) BY <1>2, <2>2 DEF refreshMcpServers, VarTypes
  <2> QED BY <2>1, <2>2
<1>5. saving' \in [Fields -> BOOLEAN] /\ \A f \in Fields : saving'[f] => f # "mcp" /\ saving[f]
  <2>1. saving \in [Fields -> BOOLEAN] BY <1>2 DEF VarTypes
  <2> QED BY <1>1, <1>3, <2>1
<1>6. VarTypes' BY <1>1, <1>2, <1>4, <1>5 DEF VarTypes
<1>7. ASSUME NEW f \in Fields \ excused' PROVE SettingFits(f)'
  <2>1. SettingFits(f) /\ NoRequest.field # f /\ generation'[f] = generation[f] /\ told'[f] = told[f]
    BY <1>1, NoneFits DEF ClientInv
  <2>2. r.field # f => shown'[f] = shown[f] BY <1>3, <1>4
  <2>3. r.field = f => \/ shown'[f] = shown[f]
                       \/ r.gen = generation[f] /\ r.at = "served" /\ shown'[f] = r.value
    BY <1>3, <1>4
  <2> QED BY <1>1, <1>2, <1>3, <2>1, <2>2, <2>3, NoneFits, SettingAfter
<1>8. \A f \in Fields : generation[f] <= generation'[f] /\ loadGeneration <= loadGeneration'
  BY <1>1, <1>2, <1>3
<1>9. \A f \in Fields : saving'[f] => saving[f] /\ ~(r.field = f /\ r.kind \in {"save", "reread"})
  BY <1>3, <1>5
<1> QED BY <1>1, <1>3, <1>6, <1>7, <1>8, <1>9, NoneFits, Assembles

\* The answer of a policy, which is served in the list.
LEMMA PolicyAnswerKeeps == ASSUME ClientInv, NEW s \in Slots, policyAnswer(s) PROVE ClientInv'
<1> DEFINE r == requests[s]
<1>1. /\ r.kind = "policy" /\ Becomes(s, NoRequest) /\ Answered(s)
      /\ UNCHANGED <<server, late, saving, pageStatus, mcpLoaded, loadGeneration, generation, saves, refreshes>>
  BY DEF policyAnswer, Becomes
<1>2. /\ r \in Requested /\ Shaped(r) /\ VarTypes /\ ClientTypes /\ RequestsFit
      /\ \A f \in Fields : generation[f] \in Nat
  BY HeldFits
<1>3. /\ r.field = "mcp" /\ "mcp" \in Fields /\ r.value \in Nat /\ loadGeneration \in Nat
      /\ ~IsRead(s) /\ IsWrite(s)
  BY <1>1, <1>2 DEF Requested, Shaped, VarTypes, IsRead, IsWrite, Writes, Fields
<1>4. told \in [Fields -> BOOLEAN] /\ shown \in [Fields -> Nat] BY <1>2 DEF VarTypes
<1>5. /\ shown' \in [Fields -> Nat] /\ told' \in [Fields -> BOOLEAN] /\ excused \subseteq excused'
      /\ \A h \in Fields : h # "mcp" => shown'[h] = shown[h] /\ told'[h] = told[h]
      /\ \/ r.at = "served" /\ shown'["mcp"] = r.value
         \/ told'["mcp"]
         \/ "mcp" \in excused'
  <2>1. CASE r.at = "served"
    <3>1. /\ shown' = [shown EXCEPT !["mcp"] = r.value] /\ told' = [told EXCEPT !["mcp"] = FALSE]
          /\ excused' = excused
      BY <2>1 DEF policyAnswer, Served
    <3>2. told' \in [Fields -> BOOLEAN] /\ \A h \in Fields : h # "mcp" => told'[h] = told[h]
      BY <1>3, <1>4, <3>1
    <3> QED BY <1>3, <1>4, <2>1, <3>1, <3>2
  <2>2. CASE r.at = "refused"
    <3>1. shown' = shown /\ told' = [told EXCEPT !["mcp"] = TRUE] /\ excused' = excused
      BY <2>2 DEF policyAnswer, Served
    <3>2. told' \in [Fields -> BOOLEAN] /\ told'["mcp"] /\ \A h \in Fields : h # "mcp" => told'[h] = told[h]
      BY <1>3, <1>4, <3>1
    <3> QED BY <1>4, <3>1, <3>2
  <2>3. CASE r.at = "lost"
    <3>1. shown' = shown /\ told' = told /\ excused' = excused \cup {"mcp"}
      BY <2>3 DEF policyAnswer, Served
    <3> QED BY <1>4, <3>1
  <2> QED BY <1>1, <2>1, <2>2, <2>3 DEF Answered
<1>6. VarTypes' BY <1>1, <1>2, <1>5 DEF VarTypes
<1>7. ASSUME NEW f \in Fields \ excused' PROVE SettingFits(f)'
  <2>1. SettingFits(f) /\ NoRequest.field # f /\ generation'[f] = generation[f]
    BY <1>1, <1>5, NoneFits DEF ClientInv
  <2>2. r.field # f => shown'[f] = shown[f] /\ told'[f] = told[f] BY <1>3, <1>5
  <2>3. r.field = f => (r.at = "served" /\ shown'[f] = r.value) \/ told'[f] BY <1>3, <1>5, <1>7
  <2> QED BY <1>1, <1>2, <1>3, <2>1, <2>2, <2>3, NoneFits, SettingAfter
<1>8. \A f \in Fields : generation[f] <= generation'[f] /\ loadGeneration <= loadGeneration'
  BY <1>1, <1>2, <1>3
<1>9. \A f \in Fields : saving'[f] => saving[f] /\ ~(r.field = f /\ r.kind \in {"save", "reread"})
  BY <1>1
<1> QED BY <1>1, <1>3, <1>6, <1>7, <1>8, <1>9, NoneFits, Assembles

\* The invariant outlives every step of the page, the server and the network.
LEMMA ClientInvStep == ClientInv /\ [ClientNext]_clientVars => ClientInv'
<1> SUFFICES ASSUME ClientInv, [ClientNext]_clientVars PROVE ClientInv' OBVIOUS
<1>1. CASE UNCHANGED clientVars
  <2>1. UNCHANGED <<server, late, shown, told, saving, pageStatus, mcpLoaded, loadGeneration, generation,
                    requests, saves, refreshes, excused>>
    BY <1>1 DEF clientVars
  <2>2. ClientTypes' /\ RequestsFit' /\ Spinners'
    BY <2>1 DEF ClientInv, ClientTypes, RequestsFit, Spinners, IsRead, IsWrite, FieldOf
  <2>3. \A f \in Fields : SettingFits(f)' <=> SettingFits(f)
    BY <2>1 DEF SettingFits, OneWrite, NewestShown, WriteFits, InWrite, InLate, IsRead, IsWrite, FieldOf
  <2> QED BY <2>1, <2>2, <2>3 DEF ClientInv
<1>2. CASE ClientNext
  BY <1>2, LoadKeeps, RefreshKeeps, PolicyKeeps, SaveKeeps, ServeKeeps, RefusalKeeps,
    CutOffKeeps, HealthKeeps, ReadAnswerKeeps, SaveAnswerKeeps, SavedListKeeps, RereadKeeps,
    PolicyAnswerKeeps, ArriveKeeps DEF ClientNext
<1> QED BY <1>1, <1>2

----------------------------------------
\* Skills.  What a discovery found follows from its listing but for the
\* files it has yet to read, and a listing that is not the one of now never
\* becomes it again: edits are numbered.

Entries == Skills \X (1..edits)
Runnings == [at : {"none", "scan", "check"}, cwd : Cwds \cup {NoCwd}, stamps : SUBSET Entries,
        todo : SUBSET Entries, found : SUBSET Entries, complete : BOOLEAN, overtaken : BOOLEAN]
Fingerprints == [cwd : Cwds, stamps : SUBSET Entries, late : BOOLEAN]
CatalogTypes ==
    /\ edits \in Nat /\ files \in [Skills -> 0..edits]
    /\ fingerprints \in Seq(Fingerprints) /\ IsInjective(fingerprints)
    /\ cached \in [Cwds -> SUBSET Entries] /\ hasCatalog \in [Cwds -> BOOLEAN]
    /\ runs \in [Runs -> Runnings] /\ pending \subseteq Cwds

\* What was found follows from the stamps but for the files of todo: a file that
\* still is the edit of its stamp was read as that edit, and no other was read.
FoundAsListed(stamps, missing, found) ==
    /\ \A e \in stamps \ missing : files[e[1]] = e[2] => e \in found
    /\ \A g \in found : \E e \in stamps : e[1] = g[1] /\ (files[e[1]] = e[2] => g[2] = e[2])

OneEach == \A f, g \in ToSet(fingerprints) : f.cwd = g.cwd => f = g
RunsFollow ==
    \A r \in Runs : runs[r].at = "scan" =>
      /\ runs[r].cwd \in Cwds /\ runs[r].todo \subseteq runs[r].stamps
      /\ runs[r].complete => FoundAsListed(runs[r].stamps, runs[r].todo, runs[r].found)
CatalogsFollow ==
    \A f \in ToSet(fingerprints) :
      hasCatalog[f.cwd] /\ ~f.late => FoundAsListed(f.stamps, {}, cached[f.cwd])
KeptWhileRoom ==
    Cardinality(Cwds) <= MaxFingerprints =>
      \A c \in Cwds : hasCatalog[c] => \E f \in ToSet(fingerprints) : f.cwd = c

CatalogInv == CatalogTypes /\ OneEach /\ RunsFollow /\ CatalogsFollow /\ KeptWhileRoom

\* Before the first discovery there are no catalogs.
LEMMA CatalogInvInit == CatalogInit => CatalogInv
<1> SUFFICES ASSUME CatalogInit PROVE CatalogInv OBVIOUS
<1>1. ToSet(fingerprints) = {} /\ fingerprints \in Seq(Fingerprints) /\ IsInjective(fingerprints)
  BY EmptySeq DEF CatalogInit, ToSet, IsInjective
<1>2. CatalogTypes BY <1>1 DEF CatalogInit, CatalogTypes, NoRun, Run, Runnings, Gone
<1>3. \A r \in Runs : runs[r].at = "none" BY DEF CatalogInit, NoRun, Run
<1> QED BY <1>1, <1>2, <1>3 DEF CatalogInv, OneEach, RunsFollow, CatalogsFollow, KeptWhileRoom, CatalogInit

\* A discovery that finds every file as it was listed gives the catalog of now,
\* if the listing says what is there now.
LEMMA FoundIsCurrent ==
    ASSUME CatalogTypes, NEW c \in Cwds, NEW found \in SUBSET Entries,
           FoundAsListed(rootEntries(c), {}, found) PROVE found = rootEntries(c)
<1>1. \A e \in rootEntries(c) : files[e[1]] = e[2] BY DEF rootEntries
<1>2. ASSUME NEW g \in found PROVE g \in rootEntries(c)
  <2>1. PICK e \in rootEntries(c) : e[1] = g[1] /\ (files[e[1]] = e[2] => g[2] = e[2])
    BY DEF FoundAsListed
  <2>2. e = <<e[1], e[2]>> /\ g = <<g[1], g[2]>> BY DEF rootEntries, Entries
  <2> QED BY <1>1, <2>1, <2>2
<1> QED BY <1>1, <1>2 DEF FoundAsListed

\* A catalog whose fingerprint is the listing of now is the catalog of now.
LEMMA CatalogHolds == CatalogInv => SkillsStayCurrent
<1> SUFFICES ASSUME CatalogInv PROVE SkillsStayCurrent OBVIOUS
<1>1. DOMAIN fingerprints = 1..Len(fingerprints) /\ CatalogTypes
      /\ \A i \in DOMAIN fingerprints : fingerprints[i] \in Fingerprints
  BY LenProperties, ElementOfSeq DEF CatalogInv, CatalogTypes
<1>2. ASSUME NEW c \in Cwds, NEW i \in Known(c), hasCatalog[c], cached[c] # rootEntries(c),
             ~fingerprints[i].late, fingerprints[i].stamps = rootEntries(c) PROVE FALSE
  <2>1. fingerprints[i] \in ToSet(fingerprints) /\ fingerprints[i].cwd = c BY <1>2 DEF Known, ToSet
  <2>2. FoundAsListed(rootEntries(c), {}, cached[c]) BY <1>2, <2>1 DEF CatalogInv, CatalogsFollow
  <2>3. cached[c] \in SUBSET Entries BY <1>1 DEF CatalogTypes
  <2> QED BY <1>1, <1>2, <2>2, <2>3, FoundIsCurrent
<1>3. ASSUME NEW c \in Cwds, NEW f \in ToSet(fingerprints), f.cwd = c PROVE Known(c) # {}
  BY <1>1, <1>3 DEF Known, ToSet
<1> QED BY <1>2, <1>3 DEF CatalogInv, KeptWhileRoom, SkillsStayCurrent, StaleIsFoundOut, CachedIsChecked

\* The files and the catalogs rest, and one run goes on.
LEMMA RunStep1 ==
    ASSUME CatalogInv, NEW r \in Runs, NEW run \in Runnings, Step(r, run),
           UNCHANGED <<files, edits, fingerprints, cached, hasCatalog>>, pending' \subseteq Cwds,
           run.at = "scan" =>
             /\ run.cwd \in Cwds /\ run.todo \subseteq run.stamps
             /\ run.complete => FoundAsListed(run.stamps, run.todo, run.found)
    PROVE  CatalogInv'
<1>1. runs' = [runs EXCEPT ![r] = run] /\ runs' \in [Runs -> Runnings]
  BY DEF Step, CatalogInv, CatalogTypes
<1>2. CatalogTypes' BY <1>1 DEF CatalogInv, CatalogTypes, Entries, Runnings, Fingerprints
<1>3. RunsFollow' BY <1>1 DEF CatalogInv, CatalogTypes, RunsFollow, FoundAsListed
<1> QED BY <1>2, <1>3 DEF CatalogInv, OneEach, CatalogsFollow, KeptWhileRoom, FoundAsListed

\* The entries a listing finds are files with their edits.
LEMMA RootEntriesType ==
    ASSUME CatalogTypes, NEW c PROVE rootEntries(c) \in SUBSET Entries
BY DEF CatalogTypes, rootEntries, skillRoots, Entries, Gone

\* A discovery that is over.
LEMMA NoRunIsRun == NoRun \in Runnings /\ NoRun.at = "none"
BY DEF NoRun, Run, Runnings

\* A discovery lists the roots first.
LEMMA ListKeeps == ASSUME CatalogInv, NEW r \in Runs, NEW c \in Cwds, list(r, c) PROVE CatalogInv'
<1> DEFINE n == Run("scan", c, rootEntries(c), rootEntries(c))
<1>1. rootEntries(c) \in SUBSET Entries BY RootEntriesType DEF CatalogInv
<1>3. n \in Runnings /\ n.cwd \in Cwds /\ n.todo \subseteq n.stamps /\ FoundAsListed(n.stamps, n.todo, n.found)
  BY <1>1 DEF Run, Runnings, FoundAsListed
<1> HIDE DEF n
<1>4. Step(r, n) /\ UNCHANGED <<files, edits, fingerprints, cached, hasCatalog, pending>>
  BY DEF list, n
<1> QED BY <1>3, <1>4, RunStep1 DEF CatalogInv, CatalogTypes

\* Then it reads a file, whatever became of it since the listing.
LEMMA ParseKeeps == ASSUME CatalogInv, NEW r \in Runs, parseSkillFile(r) PROVE CatalogInv'
<1> DEFINE o == runs[r]
<1>0. /\ o \in Runnings /\ o.at = "scan" /\ o.cwd \in Cwds /\ o.todo \subseteq o.stamps
      /\ o.complete => FoundAsListed(o.stamps, o.todo, o.found)
      /\ UNCHANGED <<files, edits, fingerprints, cached, hasCatalog, pending>>
  BY DEF CatalogInv, CatalogTypes, RunsFollow, parseSkillFile
<1>1. PICK entry \in o.todo :
        LET file == entry[1]
            present == IF files[file] = Gone THEN {} ELSE {<<file, files[file]>>}
            rest == [o EXCEPT !.todo = @ \ {entry}]
        IN  Step(r, [rest EXCEPT !.found = @ \cup present]) \/ Step(r, [rest EXCEPT !.complete = FALSE])
  BY DEF parseSkillFile
<1> DEFINE file == entry[1]
           present == IF files[file] = Gone THEN {} ELSE {<<file, files[file]>>}
           left == o.todo \ {entry}
           n == [at |-> "scan", cwd |-> o.cwd, stamps |-> o.stamps, todo |-> left,
                 found |-> o.found \cup present, complete |-> o.complete, overtaken |-> o.overtaken]
           m == [at |-> "scan", cwd |-> o.cwd, stamps |-> o.stamps, todo |-> left,
                 found |-> o.found, complete |-> FALSE, overtaken |-> o.overtaken]
<1>2. o = [at |-> "scan", cwd |-> o.cwd, stamps |-> o.stamps, todo |-> o.todo,
           found |-> o.found, complete |-> o.complete, overtaken |-> o.overtaken]
  BY <1>0 DEF Runnings
<1>3. Step(r, n) \/ Step(r, m)
  <2>1. PICK rest : rest = [o EXCEPT !.todo = @ \ {entry}] OBVIOUS
  <2>2. PICK read, unread, cwd, stamps, found, complete, isLate :
          /\ read = present /\ unread = left /\ cwd = o.cwd /\ stamps = o.stamps /\ found = o.found
          /\ complete = o.complete /\ isLate = o.overtaken
    OBVIOUS
  <2>8. PICK no : no = FALSE OBVIOUS
  <2>3. rest = [at |-> "scan", cwd |-> cwd, stamps |-> stamps, todo |-> unread,
                found |-> found, complete |-> complete, overtaken |-> isLate]
    BY <1>2, <2>1, <2>2
  <2>4. /\ n = [at |-> "scan", cwd |-> cwd, stamps |-> stamps, todo |-> unread,
                 found |-> found \cup read, complete |-> complete, overtaken |-> isLate]
        /\ m = [at |-> "scan", cwd |-> cwd, stamps |-> stamps, todo |-> unread,
                 found |-> found, complete |-> no, overtaken |-> isLate]
    BY <2>2, <2>8
  <2>5. [rest EXCEPT !.found = @ \cup read]
          = [at |-> "scan", cwd |-> cwd, stamps |-> stamps, todo |-> unread,
             found |-> found \cup read, complete |-> complete, overtaken |-> isLate]
    BY ONLY <2>3
  <2>6. [rest EXCEPT !.complete = no]
          = [at |-> "scan", cwd |-> cwd, stamps |-> stamps, todo |-> unread,
             found |-> found, complete |-> no, overtaken |-> isLate]
    BY ONLY <2>3
  <2>7. Step(r, [rest EXCEPT !.found = @ \cup read]) \/ Step(r, [rest EXCEPT !.complete = no])
    BY <1>1, <2>1, <2>2, <2>8
  <2> HIDE DEF n, m
  <2> QED BY ONLY <2>4, <2>5, <2>6, <2>7
<1>4. entry \in Entries /\ file \in Skills /\ files[file] \in 0..edits /\ edits \in Nat
  BY <1>0 DEF Runnings, Entries, CatalogInv, CatalogTypes
<1>5. present \in SUBSET Entries BY <1>4 DEF Entries, Gone
<1>6. n \in Runnings /\ m \in Runnings BY <1>0, <1>5 DEF Runnings
<1>7. o.complete => FoundAsListed(o.stamps, left, o.found \cup present)
  <2> SUFFICES ASSUME FoundAsListed(o.stamps, o.todo, o.found)
               PROVE  FoundAsListed(o.stamps, left, o.found \cup present)
    BY <1>0
  <2>1. entry = <<entry[1], entry[2]>> /\ entry[2] # Gone /\ entry \in o.stamps
    BY <1>0, <1>4 DEF Entries, Gone
  <2>2. files[file] = entry[2] => entry \in present BY <2>1
  <2>3. \A e \in o.stamps \ left : files[e[1]] = e[2] => e \in o.found \cup present
    BY <2>2 DEF FoundAsListed
  <2>4. \A g \in present : g[1] = file /\ g[2] = files[file] OBVIOUS
  <2>5. \A g \in o.found \cup present :
          \E e \in o.stamps : e[1] = g[1] /\ (files[e[1]] = e[2] => g[2] = e[2])
    BY <2>1, <2>4 DEF FoundAsListed
  <2> QED BY <2>3, <2>5 DEF FoundAsListed
<1>8. n.at = "scan" => /\ n.cwd \in Cwds /\ n.todo \subseteq n.stamps
                       /\ n.complete => FoundAsListed(n.stamps, n.todo, n.found)
  BY <1>0, <1>7
<1>9. m.at = "scan" => m.cwd \in Cwds /\ m.todo \subseteq m.stamps /\ ~m.complete BY <1>0
<1> HIDE DEF n, m
<1> QED BY <1>0, <1>3, <1>6, <1>8, <1>9, RunStep1 DEF CatalogInv, CatalogTypes

\* preStep and onRefresh compare the fingerprint, or discover at once.
LEMMA ChecksKeep ==
    ASSUME CatalogInv, NEW r \in Runs, NEW c \in Cwds, preStep(r, c) \/ onRefresh(r, c)
    PROVE  CatalogInv'
<1>0. UNCHANGED <<files, edits, fingerprints, cached, hasCatalog>> /\ pending' \subseteq Cwds
  BY DEF preStep, onRefresh, CatalogInv, CatalogTypes
<1>1. CASE runs' = runs
  <2>1. CatalogTypes' BY <1>0, <1>1 DEF CatalogInv, CatalogTypes, Entries, Runnings, Fingerprints
  <2> QED BY <1>0, <1>1, <2>1 DEF CatalogInv, OneEach, RunsFollow, CatalogsFollow, KeptWhileRoom, FoundAsListed
<1>2. CASE runs' # runs
  <2>1. PICK known \in FingerprintOf(c) :
          Step(r, Run("check", c, known, {}))
    BY <1>2 DEF preStep, onRefresh, Check
  <2> DEFINE n == Run("check", c, known, {})
  <2>2. known \in SUBSET Entries
    <3>1. \A i \in DOMAIN fingerprints : fingerprints[i] \in Fingerprints
      BY LenProperties, ElementOfSeq DEF CatalogInv, CatalogTypes
    <3> QED BY <3>1 DEF FingerprintOf, Known, Fingerprints
  <2>4. n \in Runnings /\ n.at # "scan" BY <2>2 DEF Run, Runnings
  <2> HIDE DEF n
  <2> QED BY <1>0, <2>1, <2>4, RunStep1 DEF n
<1> QED BY <1>1, <1>2

\* What is remembered of a working directory.
LEMMA FingerprintsAre ==
    ASSUME CatalogTypes PROVE \A f \in ToSet(fingerprints) : f \in Fingerprints
<1>1. DOMAIN fingerprints = 1..Len(fingerprints) BY LenProperties DEF CatalogTypes
<1> QED BY <1>1, ElementOfSeq DEF CatalogTypes, ToSet

\* remember: the fingerprint of c is the new one, the others are kept while
\* there is room, and none is made up.
LEMMA RememberIs ==
    ASSUME CatalogTypes, OneEach, NEW c \in Cwds, NEW stamps \in SUBSET Entries, NEW isLate \in BOOLEAN,
           remember(c, stamps, isLate)
    PROVE  /\ fingerprints' \in Seq(Fingerprints) /\ IsInjective(fingerprints')
           /\ \A f \in ToSet(fingerprints') :
                f = [cwd |-> c, stamps |-> stamps, late |-> isLate] \/ (f \in ToSet(fingerprints) /\ f.cwd # c)
           /\ Cardinality(Cwds) <= MaxFingerprints =>
                /\ [cwd |-> c, stamps |-> stamps, late |-> isLate] \in ToSet(fingerprints')
                /\ \A f \in ToSet(fingerprints) : f.cwd # c => f \in ToSet(fingerprints')
<1> DEFINE new == [cwd |-> c, stamps |-> stamps, late |-> isLate]
           others == IF Known(c) = {} THEN fingerprints
                     ELSE RemoveAt(fingerprints, CHOOSE i \in Known(c) : TRUE)
           all == Append(others, new)
<1>0. /\ DOMAIN fingerprints = 1..Len(fingerprints)
      /\ \A i \in DOMAIN fingerprints : fingerprints[i] \in ToSet(fingerprints)
  BY LenProperties DEF CatalogTypes, ToSet
<1>1. /\ others \in Seq(Fingerprints) /\ IsInjective(others)
      /\ ToSet(others) = {f \in ToSet(fingerprints) : f.cwd # c}
  <2>1. CASE Known(c) = {}
    <3>1. \A f \in ToSet(fingerprints) : f.cwd # c BY <2>1 DEF Known, ToSet
    <3> QED BY <2>1, <3>1 DEF CatalogTypes
  <2>2. CASE Known(c) # {}
    <3> DEFINE k == CHOOSE i \in Known(c) : TRUE
    <3>1. k \in DOMAIN fingerprints /\ fingerprints[k].cwd = c BY <2>2 DEF Known
    <3>2. others = RemoveAt(fingerprints, k) BY <2>2
    <3> HIDE DEF k, others
    <3>3. /\ others \in Seq(Fingerprints) /\ IsInjective(others)
          /\ ToSet(others) = ToSet(fingerprints) \ {fingerprints[k]}
      BY <3>1, <3>2, LeaveMiddle DEF CatalogTypes
    <3> QED BY <1>0, <3>1, <3>3 DEF OneEach
  <2> QED BY <2>1, <2>2
<1>2. new \in Fingerprints /\ new.cwd = c BY DEF Fingerprints
<1> HIDE DEF others, new
<1>3. /\ all \in Seq(Fingerprints) /\ all # <<>> /\ IsInjective(all)
      /\ ToSet(all) = ToSet(others) \cup {new}
  BY <1>1, <1>2, JoinLine
<1>4. Len(all) \in Nat /\ Cardinality(Cwds) \in Nat /\ Len(all) <= Cardinality(Cwds)
  <2>1. IsFiniteSet(ToSet(all)) /\ Cardinality(ToSet(all)) = Len(all) BY <1>3, LineLength
  <2> DEFINE g == [f \in ToSet(all) |-> f.cwd]
  <2>2. \A f, h \in ToSet(all) : f.cwd = h.cwd => f = h BY <1>1, <1>2, <1>3 DEF OneEach
  <2>3. \A f \in ToSet(all) : f.cwd \in Cwds
    <3> QED BY <1>1, <1>2, <1>3, FingerprintsAre DEF Fingerprints
  <2>4. g \in Injection(ToSet(all), Cwds) BY <2>2, <2>3 DEF Injection, IsInjective
  <2>5. Cardinality(ToSet(all)) <= Cardinality(Cwds) BY <2>4, CatalogLimits, FS_Injection
  <2> QED BY <1>3, <2>1, <2>5, CatalogLimits, FS_CardinalityType, LenProperties
<1>5. fingerprints' = SubSeq(all, IF Len(all) > MaxFingerprints THEN 2 ELSE 1, Len(all))
  BY DEF remember, others, new
<1> HIDE DEF all
<1>6. CASE Len(all) > MaxFingerprints
  <2>1. Len(all) > 1 BY <1>4, <1>6, CatalogLimits
  <2>2. SubSeq(all, 2, Len(all)) = Tail(all)
    <3>1. /\ Tail(all) \in Seq(Fingerprints) /\ Len(Tail(all)) = Len(all) - 1
          /\ \A i \in 1..Len(Tail(all)) : Tail(all)[i] = all[i + 1]
      BY <1>3, HeadTailProperties
    <3>2. /\ SubSeq(all, 2, Len(all)) \in Seq(Fingerprints)
          /\ Len(SubSeq(all, 2, Len(all))) = Len(all) - 1
          /\ \A i \in 1..(Len(all) - 1) : SubSeq(all, 2, Len(all))[i] = all[i + 1]
      BY <1>3, <1>4, <2>1, SubSeqProperties
    <3> QED BY <3>1, <3>2, SeqEqual
  <2>5. fingerprints' = Tail(all) BY ONLY <1>5, <1>6, <2>2
  <2>6. /\ Tail(all) \in Seq(Fingerprints) /\ IsInjective(Tail(all))
        /\ ToSet(Tail(all)) = ToSet(all) \ {Head(all)}
    BY <1>3, LeaveFront
  <2>3. /\ fingerprints' \in Seq(Fingerprints) /\ IsInjective(fingerprints')
        /\ ToSet(fingerprints') = ToSet(all) \ {Head(all)}
    BY ONLY <2>5, <2>6
  <2>4. ~(Cardinality(Cwds) <= MaxFingerprints) BY <1>4, <1>6, CatalogLimits
  <2> QED BY <1>1, <1>3, <2>3, <2>4 DEF new
<1>7. CASE ~(Len(all) > MaxFingerprints)
  <2>1. SubSeq(all, 1, Len(all)) = all
    <3>1. /\ SubSeq(all, 1, Len(all)) \in Seq(Fingerprints)
          /\ Len(SubSeq(all, 1, Len(all))) = Len(all)
          /\ \A i \in 1..Len(all) : SubSeq(all, 1, Len(all))[i] = all[i]
      BY <1>3, <1>4, SubSeqProperties
    <3> QED BY <1>3, <3>1, SeqEqual
  <2> QED BY <1>1, <1>3, <1>5, <1>7, <2>1 DEF new
<1> QED BY <1>6, <1>7

\* discover remembers the listing it began with, and stores the catalog unless
\* a later discovery overtook it.
LEMMA DiscoverKeeps == ASSUME CatalogInv, NEW r \in Runs, discover(r) PROVE CatalogInv'
<1> DEFINE run == runs[r]
<1>0. /\ run \in Runnings /\ run.at = "scan" /\ run.todo = {} /\ run.cwd \in Cwds
      /\ run.complete => FoundAsListed(run.stamps, {}, run.found)
      /\ UNCHANGED <<files, edits, pending>> /\ Step(r, NoRun)
  BY DEF CatalogInv, CatalogTypes, RunsFollow, discover
<1>1. CASE ~run.complete
  <2>1. UNCHANGED <<fingerprints, cached, hasCatalog>> BY <1>1 DEF discover
  <2> QED BY <1>0, <2>1, NoRunIsRun, RunStep1 DEF CatalogInv, CatalogTypes
<1>2. CASE run.complete
  <2> DEFINE c == run.cwd
             new == [cwd |-> c, stamps |-> run.stamps, late |-> run.overtaken]
  <2>1. remember(c, run.stamps, run.overtaken)
    BY <1>2 DEF discover, FingerprintFound, stampsOfTheListing
  <2>2. run.stamps \in SUBSET Entries /\ run.found \in SUBSET Entries /\ run.overtaken \in BOOLEAN
    BY <1>0 DEF Runnings
  <2>3. /\ fingerprints' \in Seq(Fingerprints) /\ IsInjective(fingerprints')
        /\ \A f \in ToSet(fingerprints') : f = new \/ (f \in ToSet(fingerprints) /\ f.cwd # c)
        /\ Cardinality(Cwds) <= MaxFingerprints =>
              /\ new \in ToSet(fingerprints')
              /\ \A f \in ToSet(fingerprints) : f.cwd # c => f \in ToSet(fingerprints')
    BY <1>0, <2>1, <2>2, RememberIs DEF CatalogInv
  <2>4. /\ cached' \in [Cwds -> SUBSET Entries] /\ hasCatalog' \in [Cwds -> BOOLEAN]
        /\ \A d \in Cwds : d # c => cached'[d] = cached[d] /\ hasCatalog'[d] = hasCatalog[d]
        /\ ~run.overtaken => cached'[c] = run.found
    BY <1>0, <1>2, <2>2 DEF discover, CatalogInv, CatalogTypes
  <2>5. runs' \in [Runs -> Runnings] /\ \A other \in Runs : runs'[other] = IF other = r THEN NoRun ELSE runs[other]
    BY <1>0, NoRunIsRun DEF Step, CatalogInv, CatalogTypes
  <2>6. new.cwd = c /\ new.stamps = run.stamps /\ new.late = run.overtaken OBVIOUS
  <2> HIDE DEF new, c, run
  <2>7. CatalogTypes'
    BY <1>0, <2>3, <2>4, <2>5 DEF CatalogInv, CatalogTypes, Entries, Runnings, Fingerprints
  <2>8. OneEach' BY <2>3, <2>6 DEF OneEach, CatalogInv
  <2>9. RunsFollow' BY <1>0, <2>5, NoRunIsRun DEF RunsFollow, CatalogInv, FoundAsListed
  <2>10. ASSUME NEW f \in ToSet(fingerprints'), hasCatalog'[f.cwd], ~f.late
         PROVE  FoundAsListed(f.stamps, {}, cached'[f.cwd])
    <3>1. CASE f = new BY <1>0, <1>2, <2>4, <2>6, <2>10, <3>1
    <3>2. CASE f \in ToSet(fingerprints) /\ f.cwd # c
      <4>1. f.cwd \in Cwds BY <3>2, FingerprintsAre DEF CatalogInv, Fingerprints
      <4> QED BY <2>4, <2>10, <3>2, <4>1 DEF CatalogInv, CatalogsFollow
    <3> QED BY <2>3, <3>1, <3>2
  <2>12. CatalogsFollow'
    <3> SUFFICES ASSUME NEW f \in ToSet(fingerprints'), hasCatalog'[f.cwd], ~f.late
                 PROVE  FoundAsListed(f.stamps, {}, cached[f.cwd])'
      BY DEF CatalogsFollow
    <3> QED BY <1>0, <2>10 DEF FoundAsListed
  <2>11. KeptWhileRoom'
    <3> SUFFICES ASSUME Cardinality(Cwds) <= MaxFingerprints, NEW d \in Cwds, hasCatalog'[d]
                 PROVE  \E f \in ToSet(fingerprints') : f.cwd = d
      BY DEF KeptWhileRoom
    <3>1. CASE d = c BY <2>3, <2>6, <3>1
    <3>2. CASE d # c BY <2>3, <2>4, <3>2 DEF CatalogInv, KeptWhileRoom
    <3> QED BY <3>1, <3>2
  <2> QED BY <2>7, <2>8, <2>9, <2>11, <2>12 DEF CatalogInv
<1> QED BY <1>1, <1>2

\* An invalidation drops the fingerprint and the catalog, and tells the runs.
LEMMA InvalidateKeeps ==
    ASSUME CatalogInv, NEW r \in Runs, invalidate(r), UNCHANGED <<files, edits, pending>>
    PROVE  CatalogInv'
<1>1. ToSet(fingerprints') = {} /\ fingerprints' \in Seq(Fingerprints) /\ IsInjective(fingerprints')
  BY EmptySeq DEF invalidate, ToSet, IsInjective
<1>2. ASSUME NEW other \in Runs
      PROVE  /\ runs'[other] \in Runnings
             /\ runs'[other].at = "scan" => /\ other # r /\ runs[other].at = "scan" /\ runs'[other].cwd = runs[other].cwd
                                            /\ runs'[other].todo = runs[other].todo /\ runs'[other].stamps = runs[other].stamps
                                            /\ runs'[other].found = runs[other].found
                                            /\ runs'[other].complete = runs[other].complete
  <2>1. runs[other] \in Runnings BY DEF CatalogInv, CatalogTypes
  <2>2. runs'[other] = IF other = r THEN NoRun ELSE [runs[other] EXCEPT !.overtaken = runs[other].at = "scan"]
    BY DEF invalidate
  <2>3. CASE other = r BY <2>2, <2>3, NoRunIsRun
  <2>4. CASE other # r
    <3>1. PICK b \in BOOLEAN : b = (runs[other].at = "scan") OBVIOUS
    <3>2. runs'[other] = [runs[other] EXCEPT !.overtaken = b] BY <2>2, <2>4, <3>1
    <3> QED BY <2>1, <2>4, <3>2 DEF Runnings
  <2> QED BY <2>3, <2>4
<1>3. runs' \in [Runs -> Runnings] BY <1>2 DEF invalidate
<1>4. CatalogTypes'
  BY <1>1, <1>3 DEF CatalogInv, CatalogTypes, invalidate, Entries, Runnings, Fingerprints
<1>5. RunsFollow' BY <1>2 DEF RunsFollow, CatalogInv, FoundAsListed
<1>6. \A c \in Cwds : ~hasCatalog'[c] BY DEF invalidate
<1> QED BY <1>1, <1>4, <1>5, <1>6 DEF CatalogInv, OneEach, CatalogsFollow, KeptWhileRoom

\* A check that finds another listing than it remembered invalidates.
LEMMA CheckKeeps == ASSUME CatalogInv, NEW r \in Runs, check(r) PROVE CatalogInv'
<1>1. UNCHANGED <<files, edits, pending>> BY DEF check
<1>2. CASE invalidate(r) BY <1>1, <1>2, InvalidateKeeps
<1>3. CASE Step(r, NoRun) /\ UNCHANGED <<fingerprints, cached, hasCatalog>>
  BY <1>1, <1>3, NoRunIsRun, RunStep1 DEF CatalogInv, CatalogTypes
<1> QED BY <1>2, <1>3 DEF check

\* An edit makes an entry of a listing outdated, never current again.
LEMMA EditKeeps == ASSUME CatalogInv, Edit PROVE CatalogInv'
<1>1. PICK s \in Skills, v \in {Gone, edits + 1} : files' = [files EXCEPT ![s] = v] BY DEF Edit
<1>2. /\ edits \in Nat /\ edits' = edits + 1 /\ Entries \subseteq Entries'
      /\ UNCHANGED <<fingerprints, cached, hasCatalog, runs, pending>>
  BY DEF Edit, CatalogInv, CatalogTypes, Entries
<1>3. ASSUME NEW stamps \in SUBSET Entries, NEW missing, NEW found, FoundAsListed(stamps, missing, found)
      PROVE  FoundAsListed(stamps, missing, found)'
  <2>1. \A e \in stamps : files'[e[1]] = e[2] => files[e[1]] = e[2]
    BY <1>1, <1>2 DEF CatalogInv, CatalogTypes, Entries, Gone
  <2>2. \A e \in stamps \ missing : files'[e[1]] = e[2] => e \in found
    BY <1>3, <2>1 DEF FoundAsListed
  <2>3. \A g \in found : \E e \in stamps : e[1] = g[1] /\ (files'[e[1]] = e[2] => g[2] = e[2])
    BY <1>3, <2>1 DEF FoundAsListed
  <2> QED BY <2>2, <2>3 DEF FoundAsListed
<1>4. files' \in [Skills -> 0..edits'] BY <1>1, <1>2 DEF CatalogInv, CatalogTypes, Gone
<1>5. Runnings \subseteq Runnings' /\ Fingerprints \subseteq Fingerprints'
  BY <1>2 DEF Runnings, Fingerprints
<1>6. CatalogTypes'
  <2>1. fingerprints \in Seq(Fingerprints') BY <1>5 DEF CatalogInv, CatalogTypes
  <2>2. runs \in [Runs -> Runnings'] /\ cached \in [Cwds -> SUBSET (Entries')]
    BY <1>2, <1>5 DEF CatalogInv, CatalogTypes
  <2> QED BY <1>2, <1>4, <2>1, <2>2 DEF CatalogInv, CatalogTypes
<1>7. RunsFollow' BY <1>2, <1>3 DEF CatalogInv, CatalogTypes, RunsFollow, Runnings
<1>8. CatalogsFollow'
  <2>1. \A f \in ToSet(fingerprints) : f.stamps \in SUBSET Entries
    BY FingerprintsAre DEF CatalogInv, Fingerprints
  <2> QED BY <1>2, <1>3, <2>1 DEF CatalogInv, CatalogsFollow
<1> QED BY <1>2, <1>6, <1>7, <1>8 DEF CatalogInv, OneEach, KeptWhileRoom

\* Steps that only mark what a turn must refresh.
LEMMA CatalogRests ==
    ASSUME CatalogInv, UNCHANGED <<files, edits, fingerprints, cached, hasCatalog, runs>>,
           pending' \subseteq Cwds PROVE CatalogInv'
<1>1. CatalogTypes' BY DEF CatalogInv, CatalogTypes, Entries, Runnings, Fingerprints
<1> QED BY <1>1 DEF CatalogInv, OneEach, RunsFollow, CatalogsFollow, KeptWhileRoom, FoundAsListed

\* The invariant outlives every step of discoveries, checks and edits.
LEMMA CatalogInvStep == CatalogInv /\ [CatalogNext]_catalogVars => CatalogInv'
<1> SUFFICES ASSUME CatalogInv, [CatalogNext]_catalogVars PROVE CatalogInv' OBVIOUS
<1>1. CASE UNCHANGED catalogVars BY <1>1, CatalogRests DEF catalogVars, CatalogInv, CatalogTypes
<1>2. ASSUME NEW c \in Cwds, turnStart(c) PROVE CatalogInv'
  BY <1>2, CatalogRests DEF turnStart, CatalogInv, CatalogTypes
<1> QED BY <1>1, <1>2, ListKeeps, ChecksKeep, ParseKeeps, DiscoverKeeps, CheckKeeps, EditKeeps
  DEF CatalogNext

----------------------------------------
\* The theorems.  Each component's, and what follows for MCPlatform, where
\* one component of the deployment acts.

\* However the runs of the installer interleave, an owner who was given a new key
\* learns it, a secrets file that stays was reported, and "ready" is said only of
\* the version this run uploaded (installEdge, observeActivation).
THEOREM InstallationCorrect == InstallSpec => [](KeyIsHandedOver /\ ReadyMeansNew)
<1>1. InstallSpec => []InstallInv BY InstallInvInit, InstallInvStep, PTL DEF InstallSpec
<1> QED BY <1>1, InstallHolds, PTL

\* No upload changes where a deployment stores its data (inspectExisting,
\* storageToKeep).
THEOREM StorageIsKept == InstallSpec => StorageNeverMoves
<1>1. InstallSpec => []InstallInv BY InstallInvInit, InstallInvStep, PTL DEF InstallSpec
<1>2. InstallSpec => [][StorageStep]_installVars BY <1>1, StorageStepHolds, PTL DEF InstallSpec
<1> QED BY <1>2 DEF StorageNeverMoves, StorageStep

\* Whichever adapter fails and however often the object starts, no service is
\* left waiting for another, and a workspace the owner removed stays removed
\* (initialize of session-store.ts).
THEOREM StartCorrect == StartSpec => [](NothingIsLeftWaiting /\ RemovalStays)
<1>1. StartSpec => []StartInv BY StartInvInit, StartInvStep, PTL DEF StartSpec
<1> QED BY <1>1, StartHolds, PTL

\* However many releases come and go, a record is read under the version that
\* wrote it, and one moved aside is never only in memory (edge-storage-unit.ts).
THEOREM StampsCorrect == UnitSpec => [](StampsTellTheWriter /\ MovedIsCopied)
<1>1. UnitSpec => []StampInv BY StampInvInit, StampInvStep, PTL DEF UnitSpec
<1> QED BY <1>1, StampsHold, PTL

\* A migration that is cut off anywhere, and a repair that ran in part, lose no
\* workspace and leave none without a date (migrateWorkspaceKeys).
THEOREM MigrationCorrect == UnitSpec => []WorkspacesSurvive
<1>1. UnitSpec => []MoveInv BY MoveInvInit, MoveInvStep, PTL DEF UnitSpec
<1> QED BY <1>1, MovesHold, PTL

\* An open carrier has its streams, after any eviction (closeExpiredDownlinks).
THEOREM DownlinksCorrect == LinkSpec => []CarriersHavePumps
<1>1. LinkSpec => []LinkInv BY LinkInvInit, LinkInvStep, PTL DEF LinkSpec
<1>2. LinkInv => CarriersHavePumps BY DEF LinkInv
<1> QED BY <1>1, <1>2, PTL

\* An acknowledged write of a setting is stored and survives starts, and one that
\* expects a revision lands on the section its page read (edge-settings.ts).
THEOREM SettingsCorrect == SettingsSpec => []AcknowledgedWritesStay
<1>1. SettingsSpec => []SettingsInv BY SettingsInvInit, SettingsInvStep, PTL DEF SettingsSpec
<1> QED BY <1>1, SettingsHold, PTL

\* The put that takes the section of an earlier release out of storage stores
\* what its successor has of it (renameSection and the queued removals).
THEOREM LegacyCorrect == SettingsSpec => LegacyIsMoved
<1> DEFINE LegacyMove == stored[Legacy] # {} /\ stored'[Legacy] = {} =>
             LET moved == renameSection(stored)[Successor]
             IN stored'[Successor] = IF Head(queue).ns = Successor
                                     THEN {Applied(UNION moved, Head(queue))} ELSE moved
<1>1. SettingsSpec => []SettingsInv BY SettingsInvInit, SettingsInvStep, PTL DEF SettingsSpec
<1>2. SettingsInv /\ [SettingsNext]_settingsVars => [LegacyMove]_settingsVars
  BY SectionMoves DEF MovedOf
<1> HIDE DEF LegacyMove
<1>3. SettingsSpec => [][LegacyMove]_settingsVars BY <1>1, <1>2, PTL DEF SettingsSpec
<1> QED BY <1>3 DEF LegacyIsMoved, LegacyMove

\* Whatever the order of the answers, once nothing is in flight the page shows
\* what the deployment holds, or an error, and no spinner turns (store.ts).
THEOREM SettingsPageCorrect == ClientSpec => []SettingsPageSettles
<1>1. ClientSpec => []ClientInv BY ClientInvInit, ClientInvStep, PTL DEF ClientSpec
<1> QED BY <1>1, ClientHolds, PTL

\* A catalog whose files have changed is found out by its fingerprint
\* (edge-workspace-skills.ts).
THEOREM SkillsCorrect == CatalogSpec => []SkillsStayCurrent
<1>1. CatalogSpec => []CatalogInv BY CatalogInvInit, CatalogInvStep, PTL DEF CatalogSpec
<1> QED BY <1>1, CatalogHolds, PTL

\* A behaviour of the deployment is one of each of its components.
LEMMA ComponentsAct ==
    MCSpec => /\ InstallSpec /\ StartSpec /\ UnitSpec /\ LinkSpec
              /\ SettingsSpec /\ ClientSpec /\ CatalogSpec /\ ScheduleSpec
<1>1. MCInit => /\ InstallInit /\ StartInit /\ UnitInit /\ LinkInit
                /\ SettingsInit /\ ClientInit /\ CatalogInit /\ ScheduleInit
  BY DEF MCInit
<1>2. [MCNext]_mcVars => [InstallNext]_installVars BY DEF MCNext, mcVars
<1>3. [MCNext]_mcVars => [StartNext]_startVars BY DEF MCNext, mcVars
<1>4. [MCNext]_mcVars => [UnitNext]_unitVars BY DEF MCNext, mcVars
<1>5. [MCNext]_mcVars => [LinkNext]_linkVars BY DEF MCNext, mcVars
<1>6. [MCNext]_mcVars => [SettingsNext]_settingsVars BY DEF MCNext, mcVars
<1>7. [MCNext]_mcVars => [ClientNext]_clientVars BY DEF MCNext, mcVars
<1>8. [MCNext]_mcVars => [CatalogNext]_catalogVars BY DEF MCNext, mcVars
<1>9. [MCNext]_mcVars => [ScheduleNext]_scheduleVars BY DEF MCNext, mcVars
<1> QED BY <1>1, <1>2, <1>3, <1>4, <1>5, <1>6, <1>7, <1>8, <1>9, PTL DEF MCSpec, InstallSpec,
  StartSpec, UnitSpec, LinkSpec, SettingsSpec, ClientSpec, CatalogSpec, ScheduleSpec

\* In the deployment, the installer hands over keys and reports only what it
\* uploaded, a start leaves nothing waiting, and records keep their writer.
THEOREM DeploymentCorrect == MCSpec => []DeploymentHolds
<1>1. /\ KeyIsHandedOver /\ ReadyMeansNew /\ NothingIsLeftWaiting /\ RemovalStays
      /\ StampsTellTheWriter /\ MovedIsCopied /\ WorkspacesSurvive
      => DeploymentHolds
  BY DEF DeploymentHolds
<1> QED BY <1>1, ComponentsAct, InstallationCorrect, StartCorrect, StampsCorrect,
  MigrationCorrect, PTL

\* In the deployment, what a page is shown is what is served.
THEOREM PagesCorrect == MCSpec => []PagesAreServed
<1>1. CarriersHavePumps /\ AcknowledgedWritesStay /\ SettingsPageSettles /\ SkillsStayCurrent
      => PagesAreServed
  BY DEF PagesAreServed
<1> QED BY <1>1, ComponentsAct, DownlinksCorrect, SettingsCorrect, SettingsPageCorrect,
  SkillsCorrect, PTL

\* In the deployment, no update moves the storage, and an old section leaves it
\* with what its successor makes of it stored.
THEOREM StorageAndLegacyCorrect == MCSpec => StorageAndLegacyStay
<1>1. MCSpec => StorageNeverMoves /\ LegacyIsMoved BY ComponentsAct, StorageIsKept, LegacyCorrect
<1> QED BY <1>1 DEF StorageAndLegacyStay
==============================================================================
