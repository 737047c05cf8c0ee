---------------------------- MODULE SessionProofs ----------------------------
(***************************************************************************)
(* Proofs about a session, in parts that share no state.  The delivery of  *)
(* its events, for any turns, events and lives of the session: sockets see *)
(* every event once and in order, a new socket none that its baseline      *)
(* covers, and none before it is stored.  What it runs on: the choice of   *)
(* its model, for any operations and prompts, and its resident agent, for  *)
(* any clients and presets.  And what is kept of it: the receipts of its   *)
(* uploads, its place in lists and searches, and its log when the format   *)
(* changes.                                                                *)
(***************************************************************************)
EXTENDS MCSessions, LineLemmas

----------------------------------------
(* One queue. *)

Queues ==
    [pending : Seq(Nat), timer : BOOLEAN, work : Seq(Seq(Nat)),
     step : {"idle", "start", "flush", "deliver"}, failed : BOOLEAN, revision : Nat]

Rising(s) == \A i, j \in DOMAIN s : i < j => s[i] < s[j]
Precedes(D, E) == \A d \in D, e \in E : d < e

\* The batches and what waits for one are one rising line of events.
QueueOK(r) ==
    /\ r \in Queues
    /\ r.step = "idle" <=> r.work = <<>>
    /\ \A i \in DOMAIN r.work : r.work[i] # <<>> /\ Rising(r.work[i])
    /\ \A i, j \in DOMAIN r.work : i < j => Precedes(ToSet(r.work[i]), ToSet(r.work[j]))
    /\ Rising(r.pending)
    /\ \A i \in DOMAIN r.work : Precedes(ToSet(r.work[i]), ToSet(r.pending))
    /\ r.failed => r.work = <<>> /\ r.pending = <<>>

\* s is r with its events scheduled: the batch at work is the same.
SameEvents(r, s) ==
    /\ QueueOK(s) /\ Holds(s) = Holds(r) /\ s.revision = r.revision
    /\ s.step \in {"flush", "deliver"} => s.step = r.step /\ s.work[1] = r.work[1]

\* What a queue holds is in one of its batches or waits for one.
LEMMA HeldBy ==
    ASSUME NEW r
    PROVE  \A e : e \in Holds(r) <=> (\E i \in DOMAIN r.work : e \in ToSet(r.work[i])) \/ e \in ToSet(r.pending)
  BY DEF Holds

\* A queue starts with nothing.
LEMMA NewQueueOK == QueueOK(NewQueue) /\ Holds(NewQueue) = {}
<1>1. NewQueue \in Queues BY DEF NewQueue, Queues
<1>2. Holds(NewQueue) = {} BY DEF NewQueue, Holds, ToSet
<1> QED BY <1>1, <1>2 DEF NewQueue, QueueOK, Rising, ToSet, Precedes

\* Scheduling moves what waits into a batch behind the others.
LEMMA ScheduleSame == ASSUME NEW r, QueueOK(r) PROVE SameEvents(r, schedulePending(r))
<1>1. CASE r.failed \/ r.pending = <<>> BY <1>1 DEF schedulePending, SameEvents
<1>2. CASE ~r.failed /\ r.pending # <<>>
  <2>1. PICK w, p : w = r.work /\ p = r.pending OBVIOUS
  <2>2. w \in Seq(Seq(Nat)) /\ p \in Seq(Nat) /\ r.revision \in Nat /\ r.failed = FALSE /\ r.timer \in BOOLEAN
    BY <1>2, <2>1 DEF QueueOK, Queues
  <2>3. PICK v : v = Append(w, p) OBVIOUS
  <2>4. /\ v \in Seq(Seq(Nat)) /\ DOMAIN v = 1..(Len(w) + 1) /\ DOMAIN w = 1..Len(w) /\ Len(w) \in Nat
        /\ \A i \in DOMAIN w : i \in DOMAIN v /\ v[i] = w[i]
        /\ v[Len(w) + 1] = p /\ v # <<>>
    <3> DEFINE S == Seq(Nat)
    <3>1. w \in Seq(S) /\ p \in S BY <2>2
    <3> HIDE DEF S
    <3>2. v \in Seq(S) /\ v # <<>> /\ Len(v) = Len(w) + 1 /\ v[Len(w) + 1] = p /\ \A i \in 1..Len(w) : v[i] = w[i]
      BY <2>3, <3>1, AppendProperties
    <3>3. Len(w) \in Nat /\ DOMAIN w = 1..Len(w) /\ DOMAIN v = 1..Len(v)
      BY <3>1, <3>2, LenProperties
    <3> QED BY <3>2, <3>3 DEF S
  <2>5. \A i \in DOMAIN v : i \in DOMAIN w \/ (i = Len(w) + 1 /\ v[i] = p) BY <2>4
  <2>6. PICK s : s = schedulePending(r) OBVIOUS
  <2>7. /\ s = [pending |-> <<>>, timer |-> r.timer, work |-> v,
                step |-> IF w = <<>> THEN "start" ELSE r.step, failed |-> r.failed, revision |-> r.revision]
    BY <1>2, <2>1, <2>3, <2>6 DEF schedulePending, QueueOK, Queues
  <2>8. s \in Queues BY <2>2, <2>4, <2>7 DEF QueueOK, Queues
  <2>9. \A i \in DOMAIN v : v[i] # <<>> /\ Rising(v[i]) BY <1>2, <2>1, <2>4, <2>5 DEF QueueOK
  <2>10. \A i, j \in DOMAIN v : i < j => Precedes(ToSet(v[i]), ToSet(v[j]))
    <3> SUFFICES ASSUME NEW i \in DOMAIN v, NEW j \in DOMAIN v, i < j PROVE Precedes(ToSet(v[i]), ToSet(v[j]))
      OBVIOUS
    <3>1. i \in DOMAIN w BY <2>4, <2>5
    <3>2. CASE j \in DOMAIN w BY <2>1, <2>4, <3>1, <3>2 DEF QueueOK
    <3>3. CASE j = Len(w) + 1 BY <2>1, <2>4, <3>1, <3>3 DEF QueueOK
    <3> QED BY <2>5, <3>2, <3>3
  <2>11. ToSet(<<>>) = {} BY DEF ToSet
  <2>12. QueueOK(s)
    <3>1. s.work = v /\ s.pending = <<>> /\ s.failed = FALSE /\ v # <<>> BY <2>2, <2>4, <2>7
    <3>2. s.step # "idle" BY <2>1, <2>7 DEF QueueOK
    <3>3. Rising(s.pending) /\ \A i \in DOMAIN s.work : Precedes(ToSet(s.work[i]), ToSet(s.pending))
      BY <3>1, <2>11 DEF Rising, Precedes
    <3>4. /\ \A i \in DOMAIN s.work : s.work[i] # <<>> /\ Rising(s.work[i])
          /\ \A i, j \in DOMAIN s.work : i < j => Precedes(ToSet(s.work[i]), ToSet(s.work[j]))
      BY <2>9, <2>10, <3>1
    <3> QED BY <2>8, <3>1, <3>2, <3>3, <3>4 DEF QueueOK
  <2>13. Holds(s) = Holds(r)
    <3>1. ASSUME NEW e \in Holds(s) PROVE e \in Holds(r)
      <4>1. PICK i \in DOMAIN v : e \in ToSet(v[i]) BY <2>7, <2>11, <3>1, HeldBy
      <4>2. (\E j \in DOMAIN w : e \in ToSet(w[j])) \/ e \in ToSet(p) BY <2>4, <2>5, <4>1
      <4> QED BY <2>1, <4>2, HeldBy
    <3>2. ASSUME NEW e \in Holds(r) PROVE e \in Holds(s)
      <4>1. (\E i \in DOMAIN w : e \in ToSet(w[i])) \/ e \in ToSet(p) BY <2>1, <3>2, HeldBy
      <4>2. \E i \in DOMAIN v : e \in ToSet(v[i]) BY <2>4, <4>1
      <4> QED BY <2>7, <4>2, HeldBy
    <3> QED BY <3>1, <3>2
  <2>14. s.step \in {"flush", "deliver"} => s.step = r.step /\ s.work[1] = r.work[1]
    <3> SUFFICES ASSUME s.step \in {"flush", "deliver"} PROVE s.step = r.step /\ s.work[1] = r.work[1]
      OBVIOUS
    <3>1. w # <<>> /\ s.step = r.step /\ s.work = v BY <2>7
    <3>2. 1 \in DOMAIN w BY <2>2, <2>4, <3>1
    <3> QED BY <2>1, <2>4, <3>1, <3>2
  <2> QED BY <2>6, <2>7, <2>12, <2>13, <2>14 DEF SameEvents
<1> QED BY <1>1, <1>2

\* So does hurrying, which forgets the timer.
LEMMA HurriedSame == ASSUME NEW r, QueueOK(r) PROVE SameEvents(r, Hurried(r))
<1>1. PICK s : s = [r EXCEPT !.timer = FALSE] OBVIOUS
<1>2. QueueOK(s) /\ Holds(s) = Holds(r) /\ s.work = r.work /\ s.step = r.step /\ s.revision = r.revision
  BY <1>1 DEF QueueOK, Queues, Holds
<1>3. SameEvents(s, schedulePending(s)) BY <1>2, ScheduleSame
<1> QED BY <1>1, <1>2, <1>3 DEF SameEvents, Hurried

\* A failed queue accepts nothing; another takes an event behind all it has.
LEMMA EventTaken ==
    ASSUME NEW r, QueueOK(r), NEW e \in Nat, Precedes(Holds(r), {e}), NEW immediate \in BOOLEAN
    PROVE  LET s == enqueue(r, e, immediate) IN
           /\ QueueOK(s)
           /\ s.step \in {"flush", "deliver"} => s.step = r.step /\ s.work[1] = r.work[1]
           /\ \/ Holds(s) = Holds(r) \cup {e} /\ s.revision = r.revision + 1
              \/ Holds(s) = Holds(r) /\ s.revision = r.revision
<1>1. CASE r.failed BY <1>1 DEF enqueue
<1>2. CASE ~r.failed
  <2>1. PICK s : s = [r EXCEPT !.revision = @ + 1, !.pending = Append(@, e), !.timer = TRUE] OBVIOUS
  <2>2. PICK p, v : p = r.pending /\ v = Append(p, e) OBVIOUS
  <2>3. r \in Queues /\ p \in Seq(Nat) BY <2>2 DEF QueueOK, Queues
  <2>4. /\ v \in Seq(Nat) /\ DOMAIN v = 1..(Len(p) + 1) /\ DOMAIN p = 1..Len(p) /\ Len(p) \in Nat
        /\ \A i \in DOMAIN p : i \in DOMAIN v /\ v[i] = p[i]
        /\ v[Len(p) + 1] = e
    BY <2>2, <2>3, AppendProperties, LenProperties
  <2>5. \A i \in DOMAIN v : i \in DOMAIN p \/ (i = Len(p) + 1 /\ v[i] = e) BY <2>4
  <2>6. /\ s \in Queues /\ s.work = r.work /\ s.step = r.step /\ s.pending = v /\ s.failed = r.failed
        /\ s.revision = r.revision + 1
    <3>1. s = [pending |-> v, timer |-> TRUE, work |-> r.work, step |-> r.step,
               failed |-> r.failed, revision |-> r.revision + 1]
      BY <2>1, <2>2, <2>3 DEF Queues
    <3>2. /\ r.work \in Seq(Seq(Nat)) /\ r.step \in {"idle", "start", "flush", "deliver"}
          /\ r.failed \in BOOLEAN /\ r.revision + 1 \in Nat
      BY <2>3 DEF Queues
    <3> QED BY <2>4, <3>1, <3>2 DEF Queues
  <2>7. ToSet(v) = ToSet(p) \cup {e}
    <3>1. \A d \in ToSet(v) : d \in ToSet(p) \cup {e} BY <2>4, <2>5 DEF ToSet
    <3>2. ToSet(p) \subseteq ToSet(v) /\ e \in ToSet(v) BY <2>4 DEF ToSet
    <3> QED BY <3>1, <3>2
  <2>8. Holds(s) = Holds(r) \cup {e} BY <2>2, <2>6, <2>7 DEF Holds
  <2>9. Rising(v)
    <3> SUFFICES ASSUME NEW i \in DOMAIN v, NEW j \in DOMAIN v, i < j PROVE v[i] < v[j]
      BY DEF Rising
    <3>1. i \in DOMAIN p BY <2>4, <2>5
    <3>2. CASE j \in DOMAIN p BY <2>2, <2>4, <3>1, <3>2 DEF QueueOK, Rising
    <3>3. CASE j = Len(p) + 1
      <4>1. p[i] \in ToSet(p) BY <3>1 DEF ToSet
      <4>2. p[i] \in Holds(r) BY <2>2, <4>1 DEF Holds
      <4> QED BY <2>4, <3>1, <3>3, <4>2 DEF Precedes
    <3> QED BY <2>5, <3>2, <3>3
  <2>10. \A i \in DOMAIN r.work : Precedes(ToSet(r.work[i]), ToSet(v))
    <3> SUFFICES ASSUME NEW i \in DOMAIN r.work, NEW d \in ToSet(r.work[i]), NEW g \in ToSet(v) PROVE d < g
      BY DEF Precedes
    <3>1. d \in Holds(r) BY HeldBy
    <3>2. CASE g \in ToSet(p) BY <2>2, <3>2 DEF QueueOK, Precedes
    <3>3. CASE g = e BY <3>1, <3>3 DEF Precedes
    <3> QED BY <2>7, <3>2, <3>3
  <2>11. QueueOK(s)
    <3>1. s.step = "idle" <=> s.work = <<>> BY <2>6 DEF QueueOK
    <3>2. /\ \A i \in DOMAIN s.work : s.work[i] # <<>> /\ Rising(s.work[i])
          /\ \A i, j \in DOMAIN s.work : i < j => Precedes(ToSet(s.work[i]), ToSet(s.work[j]))
      BY <2>6 DEF QueueOK
    <3>3. Rising(s.pending) /\ \A i \in DOMAIN s.work : Precedes(ToSet(s.work[i]), ToSet(s.pending))
      BY <2>6, <2>9, <2>10
    <3> QED BY <1>2, <2>6, <3>1, <3>2, <3>3 DEF QueueOK
  <2>12. SameEvents(s, Hurried(s)) BY <2>11, HurriedSame
  <2>13. enqueue(r, e, immediate) = IF immediate THEN Hurried(s) ELSE s BY <1>2, <2>1 DEF enqueue
  <2>14. CASE immediate BY <2>6, <2>8, <2>12, <2>13, <2>14 DEF SameEvents
  <2>15. CASE ~immediate BY <2>6, <2>8, <2>11, <2>13, <2>15
  <2> QED BY <2>14, <2>15
<1> QED BY <1>1, <1>2

\* A failed queue has nothing.
LEMMA FailedEmpty ==
    ASSUME NEW r, QueueOK(r)
    PROVE  QueueOK(Failed(r)) /\ Holds(Failed(r)) = {} /\ Failed(r).step = "idle" /\ Failed(r).revision = r.revision
<1>1. PICK s : s = Failed(r) OBVIOUS
<1>2. s \in Queues /\ s.work = <<>> /\ s.pending = <<>> /\ s.step = "idle" /\ s.revision = r.revision
  <2>1. r \in Queues BY DEF QueueOK
  <2>2. s = [pending |-> <<>>, timer |-> FALSE, work |-> <<>>, step |-> "idle",
             failed |-> TRUE, revision |-> r.revision]
    BY <1>1, <2>1 DEF Failed, Queues
  <2>3. r.revision \in Nat BY <2>1 DEF Queues
  <2> QED BY <2>2, <2>3 DEF Queues
<1>3. Holds(s) = {} BY <1>2 DEF Holds, ToSet
<1> QED BY <1>1, <1>2, <1>3 DEF QueueOK, Rising, Precedes

\* A quiet queue has nothing.
LEMMA QuietEmpty == ASSUME NEW r, Quiet(r) PROVE Holds(r) = {}
  BY DEF Quiet, Holds, ToSet

\* A batch that is over leaves the queue; its events were before all others.
LEMMA BatchLeaves ==
    ASSUME NEW r, QueueOK(r), r.work # <<>>
    PROVE  /\ QueueOK(BatchDone(r)) /\ Holds(BatchDone(r)) \subseteq Holds(r)
           /\ Precedes(ToSet(r.work[1]), Holds(BatchDone(r)))
           /\ ToSet(r.work[1]) \subseteq Holds(r)
           /\ BatchDone(r).step \in {"idle", "start"} /\ BatchDone(r).revision = r.revision
<1>1. PICK w, v : w = r.work /\ v = Tail(w) OBVIOUS
<1>2. w \in Seq(Seq(Nat)) /\ w # <<>> /\ r \in Queues BY <1>1 DEF QueueOK, Queues
<1>3. /\ v \in Seq(Seq(Nat)) /\ Len(v) = Len(w) - 1 /\ DOMAIN v = 1..Len(v) /\ DOMAIN w = 1..Len(w) /\ Len(w) \in Nat
      /\ \A i \in DOMAIN v : i + 1 \in DOMAIN w /\ v[i] = w[i + 1]
  BY <1>1, <1>2, HeadTailProperties, LenProperties
<1>4. 1 \in DOMAIN w BY <1>2, <1>3
<1>5. PICK s : s = BatchDone(r) OBVIOUS
<1>6. /\ s \in Queues /\ s.work = v /\ s.pending = r.pending /\ s.failed = r.failed /\ s.revision = r.revision
      /\ s.step = IF Len(w) = 1 THEN "idle" ELSE "start"
  BY <1>1, <1>2, <1>3, <1>5 DEF BatchDone, Queues
<1>7. v = <<>> <=> Len(w) = 1
  <2> DEFINE S == Seq(Nat)
  <2>1. v \in Seq(S) BY <1>3
  <2> HIDE DEF S
  <2>2. v = <<>> <=> Len(v) = 0 BY <2>1, EmptySeq
  <2> QED BY <1>3, <2>2
<1>8. QueueOK(s)
  <2>1. \A i \in DOMAIN v : v[i] # <<>> /\ Rising(v[i]) BY <1>1, <1>3 DEF QueueOK
  <2>2. \A i, j \in DOMAIN v : i < j => Precedes(ToSet(v[i]), ToSet(v[j]))
    <3> SUFFICES ASSUME NEW i \in DOMAIN v, NEW j \in DOMAIN v, i < j PROVE Precedes(ToSet(v[i]), ToSet(v[j]))
      OBVIOUS
    <3>1. i + 1 < j + 1 /\ i + 1 \in DOMAIN w /\ j + 1 \in DOMAIN w BY <1>3
    <3>2. Precedes(ToSet(w[i + 1]), ToSet(w[j + 1])) BY <1>1, <3>1 DEF QueueOK
    <3> QED BY <1>3, <3>2
  <2>3. \A i \in DOMAIN v : Precedes(ToSet(v[i]), ToSet(r.pending)) BY <1>1, <1>3 DEF QueueOK
  <2>4. ~r.failed BY <1>1, <1>2 DEF QueueOK
  <2> QED BY <1>6, <1>7, <2>1, <2>2, <2>3, <2>4 DEF QueueOK
<1>9. Holds(s) \subseteq Holds(r)
  <2> SUFFICES ASSUME NEW e \in Holds(s) PROVE e \in Holds(r) OBVIOUS
  <2>1. (\E i \in DOMAIN v : e \in ToSet(v[i])) \/ e \in ToSet(r.pending) BY <1>6, HeldBy
  <2>2. (\E i \in DOMAIN w : e \in ToSet(w[i])) \/ e \in ToSet(r.pending) BY <1>3, <2>1
  <2> QED BY <1>1, <2>2, HeldBy
<1>10. Precedes(ToSet(w[1]), Holds(s))
  <2> SUFFICES ASSUME NEW d \in ToSet(w[1]), NEW e \in Holds(s) PROVE d < e BY DEF Precedes
  <2>1. CASE e \in ToSet(r.pending) BY <1>1, <1>4, <2>1 DEF QueueOK, Precedes
  <2>2. ASSUME NEW i \in DOMAIN v, e \in ToSet(v[i]) PROVE d < e
    <3>1. 1 < i + 1 /\ i + 1 \in DOMAIN w /\ v[i] = w[i + 1] BY <1>3
    <3>2. Precedes(ToSet(w[1]), ToSet(w[i + 1])) BY <1>1, <1>4, <3>1 DEF QueueOK
    <3> QED BY <2>2, <3>1, <3>2 DEF Precedes
  <2> QED BY <1>6, <2>1, <2>2, HeldBy
<1>11. ToSet(w[1]) \subseteq Holds(r) BY <1>1, <1>4 DEF Holds
<1> QED BY <1>1, <1>5, <1>6, <1>8, <1>9, <1>10, <1>11

\* The first event of a batch leaves, when the batch has more.
LEMMA FirstLeaves ==
    ASSUME NEW r, QueueOK(r), r.work # <<>>, Len(r.work[1]) # 1
    PROVE  LET s == [r EXCEPT !.work[1] = Tail(r.work[1])] IN
           /\ QueueOK(s) /\ Holds(s) \subseteq Holds(r) /\ s.step = r.step /\ s.revision = r.revision
           /\ ToSet(s.work[1]) \subseteq ToSet(r.work[1])
           /\ r.work[1][1] \in ToSet(r.work[1]) /\ r.work[1][1] \in Nat /\ Precedes({r.work[1][1]}, Holds(s))
<1>1. PICK w, b : w = r.work /\ b = w[1] OBVIOUS
<1>2. r \in Queues /\ w \in Seq(Seq(Nat)) /\ w # <<>> BY <1>1 DEF QueueOK, Queues
<1>3. DOMAIN w = 1..Len(w) /\ Len(w) \in Nat /\ 1 \in 1..Len(w) /\ b \in Seq(Nat)
  <2> DEFINE S == Seq(Nat)
  <2>1. w \in Seq(S) BY <1>2
  <2> HIDE DEF S
  <2>2. Len(w) \in Nat \ {0} /\ DOMAIN w = 1..Len(w) BY <1>2, <2>1, EmptySeq, LenProperties
  <2>3. 1 \in 1..Len(w) BY <2>2
  <2>4. b \in S BY <1>1, <2>1, <2>3, ElementOfSeq
  <2> QED BY <2>2, <2>3, <2>4 DEF S
<1>4. b # <<>> /\ Rising(b) /\ Len(b) # 1 BY <1>1, <1>3 DEF QueueOK
<1>5. PICK c : c = Tail(b) OBVIOUS
<1>6. /\ c \in Seq(Nat) /\ c # <<>> /\ DOMAIN c = 1..Len(c) /\ DOMAIN b = 1..Len(b) /\ Len(c) = Len(b) - 1
      /\ Len(b) \in Nat /\ Len(b) > 1 /\ b[1] \in Nat
      /\ \A i \in DOMAIN c : i + 1 \in DOMAIN b /\ c[i] = b[i + 1]
  <2>1. Len(b) \in Nat \ {0} /\ DOMAIN b = 1..Len(b) BY <1>3, <1>4, EmptySeq, LenProperties
  <2>2. Len(b) > 1 BY <1>4, <2>1
  <2>3. c \in Seq(Nat) /\ Len(c) = Len(b) - 1 /\ \A i \in 1..Len(c) : c[i] = b[i + 1]
    BY <1>3, <1>4, <1>5, HeadTailProperties
  <2>4. DOMAIN c = 1..Len(c) /\ c # <<>> BY <2>1, <2>2, <2>3, EmptySeq, LenProperties
  <2>5. 1 \in 1..Len(b) BY <2>1, <2>2
  <2>6. b[1] \in Nat BY <1>3, <2>5, ElementOfSeq
  <2> QED BY <2>1, <2>2, <2>3, <2>4, <2>6
<1>7. PICK v, s : v = [w EXCEPT ![1] = c] /\ s = [r EXCEPT !.work[1] = Tail(r.work[1])] OBVIOUS
<1>8. /\ v \in Seq(Seq(Nat)) /\ DOMAIN v = DOMAIN w /\ v # <<>>
      /\ v[1] = c /\ \A i \in DOMAIN w : i # 1 => v[i] = w[i]
  <2> DEFINE S == Seq(Nat)
  <2>1. w \in Seq(S) /\ c \in S BY <1>2, <1>6
  <2> HIDE DEF S
  <2>2. v \in Seq(S) /\ Len(v) = Len(w) /\ \A j \in 1..Len(w) : v[j] = IF j = 1 THEN c ELSE w[j]
    BY <1>3, <1>7, <2>1, ExceptSeq
  <2>3. DOMAIN v = 1..Len(v) /\ v # <<>> BY <1>3, <2>2, EmptySeq, LenProperties
  <2> QED BY <1>3, <2>2, <2>3 DEF S
<1>9. s = [pending |-> r.pending, timer |-> r.timer, work |-> v, step |-> r.step,
           failed |-> r.failed, revision |-> r.revision]
  BY <1>1, <1>2, <1>5, <1>7 DEF Queues
<1>10. s \in Queues
  <2>1. /\ r.pending \in Seq(Nat) /\ r.timer \in BOOLEAN /\ r.failed \in BOOLEAN /\ r.revision \in Nat
        /\ r.step \in {"idle", "start", "flush", "deliver"}
    BY <1>2 DEF Queues
  <2> QED BY <1>8, <1>9, <2>1 DEF Queues
<1>11. ToSet(c) \subseteq ToSet(b) /\ b[1] \in ToSet(b) BY <1>6 DEF ToSet
<1>12. \A i \in DOMAIN v : ToSet(v[i]) \subseteq ToSet(w[i]) BY <1>1, <1>8, <1>11
<1>13. Rising(c) BY <1>4, <1>6 DEF Rising
<1>14. QueueOK(s)
  <2>1. ASSUME NEW i \in DOMAIN v PROVE v[i] # <<>> /\ Rising(v[i])
    <3>1. CASE i = 1 BY <1>6, <1>8, <1>13, <3>1
    <3>2. CASE i # 1 BY <1>1, <1>8, <3>2 DEF QueueOK
    <3> QED BY <3>1, <3>2
  <2>2. \A i, j \in DOMAIN v : i < j => Precedes(ToSet(v[i]), ToSet(v[j]))
    <3> SUFFICES ASSUME NEW i \in DOMAIN v, NEW j \in DOMAIN v, i < j PROVE Precedes(ToSet(v[i]), ToSet(v[j]))
      OBVIOUS
    <3>1. Precedes(ToSet(w[i]), ToSet(w[j])) BY <1>1, <1>8 DEF QueueOK
    <3> QED BY <1>12, <3>1 DEF Precedes
  <2>3. \A i \in DOMAIN v : Precedes(ToSet(v[i]), ToSet(r.pending))
    <3> SUFFICES ASSUME NEW i \in DOMAIN v PROVE Precedes(ToSet(v[i]), ToSet(r.pending)) OBVIOUS
    <3>1. Precedes(ToSet(w[i]), ToSet(r.pending)) BY <1>1, <1>8 DEF QueueOK
    <3> QED BY <1>12, <3>1 DEF Precedes
  <2>4. ~r.failed /\ r.step # "idle" /\ Rising(r.pending) BY <1>1, <1>2 DEF QueueOK
  <2> QED BY <1>8, <1>9, <1>10, <2>1, <2>2, <2>3, <2>4 DEF QueueOK
<1>15. Holds(s) \subseteq Holds(r)
  <2> SUFFICES ASSUME NEW e \in Holds(s) PROVE e \in Holds(r) OBVIOUS
  <2>1. (\E i \in DOMAIN v : e \in ToSet(v[i])) \/ e \in ToSet(r.pending) BY <1>9, HeldBy
  <2>2. (\E i \in DOMAIN w : e \in ToSet(w[i])) \/ e \in ToSet(r.pending) BY <1>8, <1>12, <2>1
  <2> QED BY <1>1, <2>2, HeldBy
<1>16. Precedes({b[1]}, Holds(s))
  <2> SUFFICES ASSUME NEW e \in Holds(s) PROVE b[1] < e BY DEF Precedes
  <2>1. CASE e \in ToSet(r.pending)
    <3>1. Precedes(ToSet(w[1]), ToSet(r.pending)) BY <1>1, <1>3 DEF QueueOK
    <3> QED BY <1>1, <1>11, <2>1, <3>1 DEF Precedes
  <2>2. CASE e \in ToSet(c)
    <3>1. PICK i \in DOMAIN c : e = c[i] BY <2>2 DEF ToSet
    <3>2. 1 \in DOMAIN b /\ i + 1 \in DOMAIN b /\ 1 < i + 1 /\ e = b[i + 1] BY <1>6, <3>1
    <3> QED BY <1>4, <3>2 DEF Rising
  <2>3. ASSUME NEW i \in DOMAIN v, i # 1, e \in ToSet(v[i]) PROVE b[1] < e
    <3>1. 1 \in DOMAIN w /\ i \in DOMAIN w /\ 1 < i /\ v[i] = w[i] BY <1>3, <1>8, <2>3
    <3>2. Precedes(ToSet(w[1]), ToSet(w[i])) BY <1>1, <3>1 DEF QueueOK
    <3> QED BY <1>1, <1>11, <2>3, <3>1, <3>2 DEF Precedes
  <2>4. (\E i \in DOMAIN v : e \in ToSet(v[i])) \/ e \in ToSet(r.pending) BY <1>9, HeldBy
  <2> QED BY <1>8, <2>1, <2>2, <2>3, <2>4
<1>17. s.step = r.step /\ s.revision = r.revision /\ s.work[1] = c BY <1>8, <1>9
<1>18. /\ QueueOK(s) /\ Holds(s) \subseteq Holds(r) /\ s.step = r.step /\ s.revision = r.revision
       /\ ToSet(s.work[1]) \subseteq ToSet(b) /\ b[1] \in ToSet(b) /\ b[1] \in Nat /\ Precedes({b[1]}, Holds(s))
  BY <1>6, <1>11, <1>14, <1>15, <1>16, <1>17
<1> QED BY <1>1, <1>7, <1>18

----------------------------------------
(* What is sent. *)

\* s with events behind it: they stay in order if no event of s is younger
\* than a new one, but for those in L.
Overtakes(s, L) ==
    \A j \in DOMAIN s : \A i \in 1..(j - 1) : s[i] < s[j] \/ (s[i] # s[j] /\ s[j] \in L)

\* A rising batch sent behind what was sent keeps the order, if each sent event
\* is older than the batch or was left over (muxDeliver's one send per batch).
LEMMA SendBehind ==
    ASSUME NEW L, NEW s \in Seq(Nat), NEW b \in Seq(Nat), Overtakes(s, L), Rising(b),
           \A d \in ToSet(s), e \in ToSet(b) : d < e \/ (d # e /\ e \in L)
    PROVE  /\ s \o b \in Seq(Nat) /\ Overtakes(s \o b, L) /\ ToSet(s \o b) = ToSet(s) \cup ToSet(b)
           /\ Len(s) \in Nat /\ Len(s \o b) \in Nat /\ Len(s) <= Len(s \o b)
           /\ \A i \in 1..Len(s) : (s \o b)[i] = s[i]
           /\ \A i \in (Len(s) + 1)..Len(s \o b) : (s \o b)[i] \in ToSet(b)
<1>1. PICK v : v = s \o b OBVIOUS
<1>2. /\ v \in Seq(Nat) /\ Len(v) = Len(s) + Len(b)
      /\ \A i \in 1..(Len(s) + Len(b)) : v[i] = IF i <= Len(s) THEN s[i] ELSE b[i - Len(s)]
  BY <1>1, ConcatProperties
<1>3. /\ Len(s) \in Nat /\ Len(b) \in Nat /\ DOMAIN s = 1..Len(s) /\ DOMAIN b = 1..Len(b)
      /\ DOMAIN v = 1..(Len(s) + Len(b))
  BY <1>2, LenProperties
<1>4. \A i \in 1..Len(s) : i \in DOMAIN v /\ v[i] = s[i] BY <1>2, <1>3
<1>5. \A i \in DOMAIN v : i \notin 1..Len(s) => i - Len(s) \in DOMAIN b /\ v[i] = b[i - Len(s)]
  BY <1>2, <1>3
<1>6. \A i \in DOMAIN b : i + Len(s) \in DOMAIN v /\ v[i + Len(s)] = b[i]
  <2> SUFFICES ASSUME NEW i \in DOMAIN b PROVE i + Len(s) \in DOMAIN v /\ v[i + Len(s)] = b[i]
    OBVIOUS
  <2>1. i + Len(s) \in 1..(Len(s) + Len(b)) /\ ~(i + Len(s) <= Len(s)) /\ i + Len(s) - Len(s) = i
    BY <1>3
  <2> QED BY <1>2, <1>3, <2>1
<1>7. ToSet(v) = ToSet(s) \cup ToSet(b)
  <2>1. \A i \in DOMAIN v : v[i] \in ToSet(s) \cup ToSet(b) BY <1>3, <1>4, <1>5 DEF ToSet
  <2>2. \A i \in DOMAIN s : s[i] \in ToSet(v) BY <1>3, <1>4 DEF ToSet
  <2>3. \A i \in DOMAIN b : b[i] \in ToSet(v) BY <1>6 DEF ToSet
  <2> QED BY <2>1, <2>2, <2>3 DEF ToSet
<1>8. Overtakes(v, L)
  <2> SUFFICES ASSUME NEW j \in DOMAIN v, NEW i \in 1..(j - 1) PROVE v[i] < v[j] \/ (v[i] # v[j] /\ v[j] \in L)
    BY DEF Overtakes
  <2>1. CASE j \in 1..Len(s)
    <3>1. i \in 1..Len(s) /\ v[i] = s[i] /\ v[j] = s[j] BY <1>3, <1>4, <2>1
    <3> QED BY <1>3, <2>1, <3>1 DEF Overtakes
  <2>2. CASE j \notin 1..Len(s) /\ i \in 1..Len(s)
    <3>1. v[i] \in ToSet(s) /\ v[j] \in ToSet(b) BY <1>3, <1>4, <1>5, <2>2 DEF ToSet
    <3> QED BY <3>1
  <2>3. CASE j \notin 1..Len(s) /\ i \notin 1..Len(s)
    <3>1. i \in DOMAIN v BY <1>3
    <3>2. /\ i - Len(s) \in DOMAIN b /\ j - Len(s) \in DOMAIN b /\ i - Len(s) < j - Len(s)
          /\ v[i] = b[i - Len(s)] /\ v[j] = b[j - Len(s)]
      BY <1>3, <1>5, <2>3, <3>1
    <3> QED BY <3>2 DEF Rising
  <2> QED BY <2>1, <2>2, <2>3
<1>9. \A i \in (Len(s) + 1)..Len(v) : v[i] \in ToSet(b)
  <2> SUFFICES ASSUME NEW i \in (Len(s) + 1)..Len(v) PROVE v[i] \in ToSet(b) OBVIOUS
  <2>1. i \in DOMAIN v /\ i \notin 1..Len(s) BY <1>2, <1>3
  <2> QED BY <1>5, <2>1 DEF ToSet
<1> QED BY <1>1, <1>2, <1>3, <1>4, <1>7, <1>8, <1>9

----------------------------------------
(* The inductive invariant. *)

Held(k) == Holds(q[k])

DeliveryTypeOK ==
    /\ q \in [Callers -> Queues] /\ \A k \in Callers : QueueOK(q[k])
    /\ lateOpen \in BOOLEAN /\ unsettled \subseteq Callers
    /\ drain \in [Drains -> [st : {"no", "waits", "ok", "failed"}, togo : Nat]]
    /\ phase \in [Turns -> {"no", "running", "draining", "finally", "gone"}]
    /\ born \in Nat /\ stored \subseteq 1..born /\ attached \in BOOLEAN
    /\ mem \in Seq(Nat) /\ ToSet(mem) \subseteq 1..born
    /\ promise = [c \in Callers |-> promise[c]]
    /\ \A c \in Callers : promise[c] = None \/
          promise[c] \in [owed : SUBSET Nat, st : {"waiting", "resolved", "rejected"}]
    /\ delivered \in Seq(Nat) /\ ToSet(delivered) \subseteq 1..born

\* An event is in one queue or sent, never both, never in two.
HeldOnce ==
    /\ \A k \in Callers : Held(k) \subseteq 1..born /\ Held(k) \cap ToSet(delivered) = {}
    /\ \A k, l \in Callers : k # l => Held(k) \cap Held(l) = {}

Observes(t) == phase[t] \notin {"no", "gone"}

\* Turns follow each other: what a turn that ended has is left over, and older
\* than what the running one has; the running one sends when nothing late is
\* left.
TurnsFollow ==
    /\ \A t, u \in Turns : Observes(t) /\ Observes(u) => t = u
    /\ \A t \in Turns :
          /\ phase[t] = "no" => Held(t) = {} /\ drain[Prior(t)].st = "no"
          /\ phase[t] = "gone" => Held(t) \subseteq leftover
          /\ q[t].step \in {"flush", "deliver"} => drain[Prior(t)].st = "ok"
          /\ drain[Prior(t)].st = "ok" => Precedes(Held(t), Held(Late))
          /\ drain[Prior(t)].st = "ok" /\ Observes(t) => Held(Late) = {}
          /\ Observes(t) => Precedes(Held(Late), Held(t))
          /\ \A u \in Turns : Observes(t) /\ phase[u] = "gone" => Precedes(Held(u), Held(t))
    /\ Held(Late) # {} => lateOpen

\* Nothing that waits is older than what was sent, but for what was left over.
SentInOrder ==
    /\ \A k \in Callers : \A e \in Held(k) \ leftover, d \in ToSet(delivered) : d < e
    /\ OvertakenIsLeftover

\* Precedes the baseline every queue that has something is listed, and a drain
\* that is through stands for an empty queue until its revision moves; after it
\* no queue has anything it covers.
BaselineIsExact ==
    /\ baseline = None => \A k \in Callers \ unsettled : Held(k) = {}
    /\ mux # None =>
          /\ baseline = None
          /\ \A k \in DOMAIN mux.deliveries :
                /\ k \in Callers /\ drain[Base(k)].st # "no"
                /\ mux.deliveries[k] \in Nat /\ mux.deliveries[k] <= q[k].revision
                /\ drain[Base(k)].st = "ok" /\ mux.deliveries[k] = q[k].revision => Held(k) = {}
    /\ baseline # None =>
          /\ baseline.covers \subseteq 1..born /\ baseline.at \in 0..Len(delivered)
          /\ \A k \in Callers : Held(k) \cap baseline.covers = {}
    /\ BaselineBoundary

\* Whatever a batch holds is emitted by the live session, stored or given up,
\* and its flush owes what is not.
FlushOwes ==
    /\ \A k \in Callers : \A e \in Held(k) : (attached /\ e \in ToSet(mem)) \/ e \in stored \cup unsaved
    /\ \A k \in Callers :
          /\ q[k].step = "flush" /\ promise[k] # None =>
                ToSet(q[k].work[1]) \subseteq promise[k].owed \cup stored \cup unsaved
          /\ q[k].step = "deliver" => ToSet(q[k].work[1]) \subseteq stored \cup unsaved
          /\ promise[k] # None /\ promise[k].st = "resolved" => promise[k].owed \subseteq stored

IInv == DeliveryTypeOK /\ HeldOnce /\ TurnsFollow /\ SentInOrder /\ BaselineIsExact /\ FlushOwes

----------------------------------------
(* What the actions do to the queues. *)

\* r in place of the queue of k: it has no more, and the batch at work is the
\* same, or begins to be flushed or sent.
Shrinks(k, r) ==
    /\ QueueOK(r) /\ Holds(r) \subseteq Held(k) /\ r.revision = q[k].revision
    /\ r.step \in {"flush", "deliver"} =>
          /\ ToSet(r.work[1]) \subseteq ToSet(q[k].work[1])
          /\ \/ r.step = q[k].step
             \/ r.step = "flush" /\ flushBegins(k)
             \/ r.step = "deliver" /\ flushResolves(k)

QueuesShrink == q' = [k \in Callers |-> q'[k]] /\ \A k \in Callers : Shrinks(k, q'[k])

\* A queue that a step leaves alone only shrinks.
LEMMA SameShrinks == ASSUME DeliveryTypeOK, NEW k \in Callers PROVE Shrinks(k, q[k])
  BY DEF DeliveryTypeOK, Shrinks, Held

\* A step that leaves every queue alone lets no queue grow.
LEMMA UnchangedShrinks == ASSUME DeliveryTypeOK, q' = q PROVE QueuesShrink
<1>1. \A k \in Callers : Shrinks(k, q[k]) BY SameShrinks
<1>2. q = [k \in Callers |-> q[k]] BY DEF DeliveryTypeOK
<1> QED BY <1>1, <1>2 DEF QueuesShrink

\* A step that replaces one queue by a part of it lets no queue grow.
LEMMA OneShrinks ==
    ASSUME DeliveryTypeOK, NEW k \in Callers, NEW r, q' = [q EXCEPT ![k] = r], Shrinks(k, r)
    PROVE  QueuesShrink
<1>1. \A l \in Callers : Shrinks(l, q[l]) BY SameShrinks
<1>2. q' = [l \in Callers |-> IF l = k THEN r ELSE q[l]] BY DEF DeliveryTypeOK
<1>3. \A l \in Callers : (q'[l] = r /\ l = k) \/ q'[l] = q[l] BY <1>2
<1>4. \A l \in Callers : Shrinks(l, q'[l]) BY <1>1, <1>3
<1>5. q' = [l \in Callers |-> q'[l]] BY <1>2
<1> QED BY <1>4, <1>5 DEF QueuesShrink

\* Scheduling what waits is no change to what a queue has.
LEMMA HurriedShrinks == ASSUME DeliveryTypeOK, NEW k \in Callers PROVE Shrinks(k, Hurried(q[k]))
<1>1. SameEvents(q[k], Hurried(q[k])) BY HurriedSame DEF DeliveryTypeOK
<1> QED BY <1>1 DEF SameEvents, Shrinks, Held

\* A batch moves to its next step.
LEMMA StepShrinks ==
    ASSUME NEW r, QueueOK(r), r.step # "idle", NEW st \in {"flush", "deliver"}
    PROVE  LET s == [r EXCEPT !.step = st] IN
           QueueOK(s) /\ Holds(s) = Holds(r) /\ s.revision = r.revision /\ s.work = r.work /\ s.step = st
<1>1. PICK s : s = [r EXCEPT !.step = st] OBVIOUS
<1>2. r \in Queues BY DEF QueueOK
<1>3. s = [pending |-> r.pending, timer |-> r.timer, work |-> r.work, step |-> st,
           failed |-> r.failed, revision |-> r.revision]
  BY <1>1, <1>2 DEF Queues
<1>4. s \in Queues /\ s.work = r.work /\ s.pending = r.pending /\ s.failed = r.failed /\ s.revision = r.revision /\ s.step = st
  BY <1>2, <1>3 DEF Queues
<1>5. QueueOK(s) BY <1>4 DEF QueueOK
<1>6. Holds(s) = Holds(r) BY <1>4 DEF Holds
<1> QED BY <1>1, <1>4, <1>5, <1>6

\* The batch taken out to be flushed is a part of its queue.
LEMMA FlushBeginsShrinks == ASSUME DeliveryTypeOK, NEW k \in Callers, flushBegins(k) PROVE QueuesShrink
<1>1. PICK s : s = [q[k] EXCEPT !.step = "flush"] OBVIOUS
<1>2. q' = [q EXCEPT ![k] = s] /\ q[k].step = "start" /\ QueueOK(q[k])
  BY <1>1 DEF flushBegins, DeliveryTypeOK
<1>3. QueueOK(s) /\ Holds(s) = Holds(q[k]) /\ s.revision = q[k].revision /\ s.step = "flush" /\ s.work = q[k].work
  BY <1>1, <1>2, StepShrinks
<1>4. Shrinks(k, s) BY <1>3 DEF Shrinks, Held
<1> QED BY <1>2, <1>4, OneShrinks

\* The batch whose flush resolved is a part of its queue.
LEMMA FlushResolvesShrinks == ASSUME DeliveryTypeOK, NEW k \in Callers, flushResolves(k) PROVE QueuesShrink
<1>1. PICK s : s = [q[k] EXCEPT !.step = "deliver"] OBVIOUS
<1>2. q' = [q EXCEPT ![k] = s] /\ q[k].step = "flush" /\ QueueOK(q[k])
  BY <1>1 DEF flushResolves, DeliveryTypeOK
<1>3. QueueOK(s) /\ Holds(s) = Holds(q[k]) /\ s.revision = q[k].revision /\ s.step = "deliver" /\ s.work = q[k].work
  BY <1>1, <1>2, StepShrinks
<1>4. Shrinks(k, s) BY <1>3 DEF Shrinks, Held
<1> QED BY <1>2, <1>4, OneShrinks

\* A queue that fails drops what it has and takes nothing.
LEMMA FailShrinks == ASSUME DeliveryTypeOK, NEW k \in Callers, QueueFails(k) PROVE QueuesShrink
<1>1. /\ QueueOK(Failed(q[k])) /\ Holds(Failed(q[k])) = {} /\ Failed(q[k]).step = "idle"
      /\ Failed(q[k]).revision = q[k].revision
  BY FailedEmpty DEF DeliveryTypeOK
<1>2. Shrinks(k, Failed(q[k])) BY <1>1 DEF Shrinks
<1> QED BY <1>2, OneShrinks DEF QueueFails

\* Sending takes the first of a batch or all of it, older than what stays.
Sends(k, b, r) ==
    /\ b \in Seq(Nat) /\ Rising(b) /\ ToSet(b) \subseteq ToSet(q[k].work[1]) /\ ToSet(b) \subseteq Held(k)
    /\ delivered' = delivered \o b
    /\ q' = [q EXCEPT ![k] = r] /\ Shrinks(k, r) /\ Precedes(ToSet(b), Holds(r))

\* deliver sends the batch at work of its queue, one pump's worth at a time.
LEMMA DeliverSends ==
    ASSUME DeliveryTypeOK, NEW k \in Callers, deliver(k) PROVE \E b, r : Sends(k, b, r)
<1>1. q[k].step = "deliver" /\ QueueOK(q[k]) /\ q[k].work # <<>> /\ q[k].work \in Seq(Seq(Nat))
  BY DEF deliver, DeliveryTypeOK, QueueOK, Queues
<1>2. PICK w, b : w = q[k].work /\ b = w[1] OBVIOUS
<1>3. 1 \in DOMAIN w /\ b \in Seq(Nat) /\ Rising(b) /\ ToSet(b) \subseteq Held(k)
  <2> DEFINE S == Seq(Nat)
  <2>1. w \in Seq(S) /\ w # <<>> BY <1>1, <1>2
  <2> HIDE DEF S
  <2>2. Len(w) \in Nat \ {0} /\ DOMAIN w = 1..Len(w) BY <2>1, EmptySeq, LenProperties
  <2>3. 1 \in 1..Len(w) BY <2>2
  <2>4. b \in S BY <1>2, <2>1, <2>3, ElementOfSeq
  <2>5. Rising(b) BY <1>1, <1>2, <2>2, <2>3 DEF QueueOK
  <2>6. ToSet(b) \subseteq Held(k) BY <1>1, <1>2, BatchLeaves DEF Held
  <2> QED BY <2>2, <2>3, <2>4, <2>5, <2>6 DEF S
<1>4. CASE k = Late \/ Len(b) = 1
  <2>1. PICK r : r = BatchDone(q[k]) OBVIOUS
  <2>2. delivered' = delivered \o b /\ q' = [q EXCEPT ![k] = r]
    BY <1>2, <1>4, <2>1 DEF deliver, EndBatch
  <2>3. QueueOK(r) /\ Holds(r) \subseteq Held(k) /\ Precedes(ToSet(b), Holds(r)) /\ r.step \in {"idle", "start"} /\ r.revision = q[k].revision
    BY <1>1, <1>2, <2>1, BatchLeaves DEF Held
  <2>4. Shrinks(k, r) BY <2>3 DEF Shrinks
  <2> QED BY <1>2, <1>3, <2>2, <2>3, <2>4 DEF Sends
<1>5. CASE ~(k = Late \/ Len(b) = 1)
  <2>1. PICK r, e, c : r = [q[k] EXCEPT !.work[1] = Tail(b)] /\ e = b[1] /\ c = <<e>> OBVIOUS
  <2>2. delivered' = Append(delivered, e) /\ q' = [q EXCEPT ![k] = r]
    BY <1>2, <1>5, <2>1 DEF deliver
  <2>3. /\ QueueOK(r) /\ Holds(r) \subseteq Holds(q[k]) /\ r.step = q[k].step /\ r.revision = q[k].revision
        /\ ToSet(r.work[1]) \subseteq ToSet(b) /\ e \in ToSet(b) /\ e \in Nat /\ Precedes({e}, Holds(r))
    BY <1>1, <1>2, <1>5, <2>1, FirstLeaves
  <2>4. c \in Seq(Nat) /\ ToSet(c) = {e} /\ Rising(c)
    <3>1. Len(c) = 1 /\ DOMAIN c = {1} /\ c[1] = e BY <2>1
    <3>2. c \in Seq(Nat) BY <2>1, <2>3
    <3> QED BY <3>1, <3>2 DEF ToSet, Rising
  <2>5. delivered' = delivered \o c BY <2>1, <2>2, <2>3, AppendIsConcat DEF DeliveryTypeOK
  <2>6. Shrinks(k, r) BY <1>2, <2>3 DEF Shrinks, Held
  <2> QED BY <1>2, <1>3, <2>2, <2>3, <2>4, <2>5, <2>6 DEF Sends
<1> QED BY <1>4, <1>5

\* Only the emission of an event lets a queue have more.
LEMMA StepShrinksQueues == ASSUME DeliveryTypeOK, Next PROVE emit \/ QueuesShrink
<1> USE DEF Drained
<1>1. ASSUME NEW k \in Callers, timerFires(k) PROVE QueuesShrink
  BY <1>1, HurriedShrinks, OneShrinks DEF timerFires
<1>2. ASSUME NEW k \in Callers, flushRejects(k) \/ priorRejects(k) PROVE QueuesShrink
  BY <1>2, FailShrinks DEF flushRejects, priorRejects
<1>3. ASSUME NEW k \in Callers, deliver(k) PROVE QueuesShrink
  BY <1>3, DeliverSends, OneShrinks DEF Sends
<1>4. ASSUME NEW d \in Drains, DrainGoesOn(d) PROVE QueuesShrink
  <2>1. q' = q \/ (Drained(d) \in Callers /\ q' = [q EXCEPT ![Drained(d)] = Hurried(@)])
    BY <1>4, DeliveryAssumption DEF DrainGoesOn, Drains, Prior, Own, Base, Turns
  <2> QED BY <2>1, UnchangedShrinks, HurriedShrinks, OneShrinks
<1>5. ASSUME NEW t \in Turns, runAgentTurn(t) PROVE QueuesShrink
  BY <1>5, UnchangedShrinks, HurriedShrinks, OneShrinks, DeliveryAssumption DEF runAgentTurn
<1>6. ASSUME NEW t \in Turns, turnCloses(t) \/ turnEnds(t) PROVE QueuesShrink
  <2>1. t \in Callers /\ q' = [q EXCEPT ![t] = Hurried(@)]
    BY <1>6 DEF turnCloses, turnEnds, DrainOwn, Turns
  <2> QED BY <2>1, HurriedShrinks, OneShrinks
<1>7. ASSUME withMuxBaseline PROVE QueuesShrink
  <2>1. q' = [k \in Callers |-> IF k \in unsettled THEN Hurried(q[k]) ELSE q[k]]
    BY <1>7 DEF withMuxBaseline
  <2>2. \A k \in Callers : q'[k] = Hurried(q[k]) \/ q'[k] = q[k] BY <2>1
  <2>3. \A k \in Callers : Shrinks(k, q'[k]) BY <2>2, SameShrinks, HurriedShrinks
  <2>4. q' = [k \in Callers |-> q'[k]] BY <2>1
  <2> QED BY <2>3, <2>4 DEF QueuesShrink
<1>8. ASSUME NEW t \in Turns, stopObserving(t) PROVE QueuesShrink
  BY <1>8, UnchangedShrinks DEF stopObserving
<1>9. ASSUME baselineFails \/ baselineGoesOn \/ attach \/ detach \/ Persistence PROVE QueuesShrink
  BY <1>9, UnchangedShrinks DEF baselineFails, baselineGoesOn, attach, detach, Persistence, deliveryVars
<1> QED BY <1>1, <1>2, <1>3, <1>4, <1>5, <1>6, <1>7, <1>8, <1>9, FlushBeginsShrinks, FlushResolvesShrinks DEF Next

\* The event that is emitted is younger than all others, and goes to one queue.
TakesOver(k, r) ==
    /\ k \in Callers /\ ((k = Late /\ Observing = {}) \/ k \in Observing)
    /\ q' = [q EXCEPT ![k] = r] /\ QueueOK(r)
    /\ r.step \in {"flush", "deliver"} => r.step = q[k].step /\ r.work[1] = q[k].work[1]
    /\ \/ Holds(r) = Held(k) \cup {born + 1} /\ r.revision = q[k].revision + 1
       \/ Holds(r) = Held(k) /\ r.revision = q[k].revision
    /\ unsettled' = unsettled \cup {k} /\ lateOpen' = (lateOpen \/ k = Late)

\* An event emitted goes to one queue: the turn's that observes, or the late one's.
LEMMA EmitTakes == ASSUME DeliveryTypeOK, HeldOnce, emit PROVE \E k, r : TakesOver(k, r)
<1>1. PICK k : k = IF Observing = {} THEN Late ELSE CHOOSE t \in Observing : TRUE OBVIOUS
<1>2. k \in Callers /\ ((k = Late /\ Observing = {}) \/ k \in Observing)
  BY <1>1, DeliveryAssumption DEF Observing, Turns
<1>3. PICK immediate \in BOOLEAN :
          /\ q' = [q EXCEPT ![k] = enqueue(@, born', immediate)]
          /\ unsettled' = unsettled \cup {k} /\ lateOpen' = (lateOpen \/ k = Late)
  BY <1>1 DEF emit
<1>4. born' = born + 1 /\ born \in Nat /\ born + 1 \in Nat /\ QueueOK(q[k])
  BY <1>2 DEF emit, Emit, DeliveryTypeOK
<1>5. Precedes(Holds(q[k]), {born + 1}) BY <1>2, <1>4 DEF HeldOnce, Held, Precedes
<1>6. PICK r : r = enqueue(q[k], born + 1, immediate) OBVIOUS
<1>7. /\ QueueOK(r)
      /\ r.step \in {"flush", "deliver"} => r.step = q[k].step /\ r.work[1] = q[k].work[1]
      /\ \/ Holds(r) = Holds(q[k]) \cup {born + 1} /\ r.revision = q[k].revision + 1
         \/ Holds(r) = Holds(q[k]) /\ r.revision = q[k].revision
  BY <1>4, <1>5, <1>6, EventTaken
<1>8. q' = [q EXCEPT ![k] = r] BY <1>3, <1>4, <1>6
<1> QED BY <1>2, <1>3, <1>7, <1>8 DEF TakesOver, Held

\* What it means for each queue.
LEMMA TakesEach ==
    ASSUME DeliveryTypeOK, NEW k, NEW r, TakesOver(k, r)
    PROVE  /\ q' = [l \in Callers |-> q'[l]]
           /\ \A l \in Callers :
                 /\ QueueOK(q'[l]) /\ q'[l].revision >= q[l].revision
                 /\ q'[l].step \in {"flush", "deliver"} => q'[l].step = q[l].step /\ q'[l].work[1] = q[l].work[1]
                 /\ Holds(q'[l]) \subseteq Held(l) \cup {born + 1}
                 /\ Holds(q'[l]) = Held(l) \/ l = k
                 /\ Holds(q'[l]) = Held(l) \/ q'[l].revision > q[l].revision
<1>1. q' = [l \in Callers |-> IF l = k THEN r ELSE q[l]] /\ k \in Callers
  BY DEF DeliveryTypeOK, TakesOver
<1>2. \A l \in Callers : q[l].revision \in Nat /\ QueueOK(q[l])
  BY DEF DeliveryTypeOK, QueueOK, Queues
<1>3. ASSUME NEW l \in Callers, l # k PROVE q'[l] = q[l]
  BY <1>1, <1>3
<1>4. q'[k] = r BY <1>1
<1>5. q' = [l \in Callers |-> q'[l]] BY <1>1
<1>6. ASSUME NEW l \in Callers
      PROVE  /\ QueueOK(q'[l]) /\ q'[l].revision >= q[l].revision
             /\ q'[l].step \in {"flush", "deliver"} => q'[l].step = q[l].step /\ q'[l].work[1] = q[l].work[1]
             /\ Holds(q'[l]) \subseteq Held(l) \cup {born + 1}
             /\ Holds(q'[l]) = Held(l) \/ l = k
             /\ Holds(q'[l]) = Held(l) \/ q'[l].revision > q[l].revision
  <2>1. CASE l = k
    <3>1. r.revision >= q[k].revision /\ (Holds(r) = Held(k) \/ r.revision > q[k].revision)
      BY <1>1, <1>2 DEF TakesOver
    <3> QED BY <1>4, <2>1, <3>1 DEF TakesOver
  <2>2. CASE l # k BY <1>2, <1>3, <2>2 DEF Held
  <2> QED BY <2>1, <2>2
<1> QED BY <1>5, <1>6

----------------------------------------
(* What the actions do to the drains. *)

\* Each turn has a drain of its own and one of the late queue, each queue a baseline's.
LEMMA DrainNames ==
    /\ \A t \in Turns : /\ t \in Callers /\ t # Late
                        /\ Prior(t) \in Drains /\ Prior(t)[1] = "prior" /\ Prior(t)[2] = t /\ Drained(Prior(t)) = Late
                        /\ Own(t) \in Drains /\ Own(t)[1] = "own" /\ Drained(Own(t)) = t
    /\ \A k \in Callers : Base(k) \in Drains /\ Base(k)[1] = "base" /\ Base(k)[2] = k /\ Drained(Base(k)) = k
    /\ \A d \in Drains : Drained(d) \in Callers
    /\ \A t, u \in Turns : (Prior(t) = Prior(u) => t = u) /\ Prior(t) # Own(u)
    /\ \A t \in Turns, k \in Callers : Prior(t) # Base(k) /\ Own(t) # Base(k)
    /\ Late \in Callers
  BY DeliveryAssumption DEF Drains, Prior, Own, Base, Drained, Turns

Drainings == [st : {"no", "waits", "ok", "failed"}, togo : Nat]

\* A drain is through when its queue has nothing, and stays so, but for a
\* baseline that is given up.
DrainsMove ==
    /\ drain' \in [Drains -> Drainings]
    /\ \A t \in Turns :
          /\ drain'[Prior(t)].st = "ok" => drain[Prior(t)].st = "ok" \/ Holds(q'[Late]) = {}
          /\ drain[Prior(t)].st = "ok" => drain'[Prior(t)].st = "ok" \/ phase[t] = "no"
          /\ drain[Prior(t)].st = "no" => drain'[Prior(t)].st = "no" \/ phase'[t] # "no"
    /\ \A k \in Callers :
          /\ drain'[Base(k)].st = "ok" => drain[Base(k)].st = "ok" \/ Holds(q'[k]) = {}
          /\ drain[Base(k)].st # "no" /\ mux' # None => drain'[Base(k)].st # "no"

\* The same of one drain.
Moves(d, x) ==
    /\ x \in Drainings
    /\ x.st = "ok" => drain[d].st = "ok" \/ Holds(q'[Drained(d)]) = {}
    /\ drain[d].st = "ok" => x.st = "ok"
    /\ drain[d].st = "no" => x.st = "no"
    /\ drain[d].st # "no" => x.st # "no"

\* Drains that each move as drains may, move.
LEMMA AllMove ==
    ASSUME DeliveryTypeOK, NEW f, drain' = [d \in Drains |-> f[d]], \A d \in Drains : Moves(d, f[d])
    PROVE  DrainsMove
<1>1. \A d \in Drains : Moves(d, drain'[d]) OBVIOUS
<1>2. drain' \in [Drains -> Drainings] BY <1>1 DEF Moves
<1>3. ASSUME NEW t \in Turns
      PROVE  /\ drain'[Prior(t)].st = "ok" => drain[Prior(t)].st = "ok" \/ Holds(q'[Late]) = {}
             /\ drain[Prior(t)].st = "ok" => drain'[Prior(t)].st = "ok"
             /\ drain[Prior(t)].st = "no" => drain'[Prior(t)].st = "no"
  <2>1. Prior(t) \in Drains /\ Drained(Prior(t)) = Late BY DrainNames
  <2> QED BY <1>1, <2>1 DEF Moves
<1>4. ASSUME NEW k \in Callers
      PROVE  /\ drain'[Base(k)].st = "ok" => drain[Base(k)].st = "ok" \/ Holds(q'[k]) = {}
             /\ drain[Base(k)].st # "no" => drain'[Base(k)].st # "no"
  <2>1. Base(k) \in Drains /\ Drained(Base(k)) = k BY DrainNames
  <2> QED BY <1>1, <2>1 DEF Moves
<1> QED BY <1>2, <1>3, <1>4 DEF DrainsMove

\* A drain that a step leaves alone moves as drains may.
LEMMA UnmovedDrain == ASSUME DeliveryTypeOK, NEW d \in Drains PROVE Moves(d, drain[d])
  BY DEF Moves, DeliveryTypeOK, Drainings

\* Drains that a step leaves alone move as drains may.
LEMMA UnmovedDrains == ASSUME DeliveryTypeOK, drain' = drain PROVE DrainsMove
<1>1. drain' = [d \in Drains |-> drain[d]] BY DEF DeliveryTypeOK
<1> QED BY <1>1, UnmovedDrain, AllMove

\* One drain that moves as drains may leaves the others where they are.
LEMMA OneMoves ==
    ASSUME DeliveryTypeOK, NEW e \in Drains, NEW x, drain' = [drain EXCEPT ![e] = x], Moves(e, x)
    PROVE  DrainsMove
<1>1. PICK f : f = [d \in Drains |-> IF d = e THEN x ELSE drain[d]] OBVIOUS
<1>2. drain' = f BY <1>1 DEF DeliveryTypeOK
<1>3. drain' = [d \in Drains |-> f[d]] BY <1>1, <1>2
<1>4. \A d \in Drains : Moves(d, f[d]) BY <1>1, UnmovedDrain
<1> QED BY <1>3, <1>4, AllMove

\* A drain that begins waits for batches that are there.
LEMMA DrainBegins ==
    ASSUME NEW r, QueueOK(r) PROVE DrainOf(r) \in Drainings /\ DrainOf(r).st = "waits"
<1>1. r.work \in Seq(Seq(Nat)) BY DEF QueueOK, Queues
<1>2. Len(r.work) \in Nat BY <1>1, LenProperties
<1> QED BY <1>2 DEF DrainOf, Drainings

\* The record of a drain that settles is a drain's record.
LEMMA Settled0 == ASSUME NEW st \in {"no", "waits", "ok", "failed"}
                  PROVE Settles(st) \in Drainings /\ Settles(st).st = st
  BY DEF Settles, Drainings

\* A drain that waited on its queue is over only when the queue failed or is empty.
LEMMA GoesOnMoves ==
    ASSUME DeliveryTypeOK, QueuesShrink, NEW d \in Drains, DrainGoesOn(d) PROVE DrainsMove
<1>1. PICK k : k = Drained(d) /\ k \in Callers BY DrainNames
<1>2. drain[d].st = "waits" BY DEF DrainGoesOn
<1>3. CASE q[k].failed
  <2>1. drain' = [drain EXCEPT ![d] = Settles("failed")] BY <1>1, <1>3 DEF DrainGoesOn
  <2>2. Moves(d, Settles("failed")) BY <1>2, Settled0 DEF Moves
  <2> QED BY <2>1, <2>2, OneMoves
<1>4. CASE ~q[k].failed /\ Quiet(q[k])
  <2>1. drain' = [drain EXCEPT ![d] = Settles("ok")] /\ q' = q BY <1>1, <1>4 DEF DrainGoesOn
  <2>2. Holds(q'[k]) = {} BY <1>4, <2>1, QuietEmpty
  <2>3. Moves(d, Settles("ok")) BY <1>1, <1>2, <2>2, Settled0 DEF Moves
  <2> QED BY <2>1, <2>3, OneMoves
<1>5. CASE ~q[k].failed /\ ~Quiet(q[k])
  <2>1. PICK r : r = q'[k] OBVIOUS
  <2>2. drain' = [drain EXCEPT ![d] = DrainOf(r)] BY <1>1, <1>5, <2>1 DEF DrainGoesOn
  <2>3. QueueOK(r) BY <1>1, <2>1 DEF QueuesShrink, Shrinks
  <2>4. Moves(d, DrainOf(r)) BY <1>2, <2>3, DrainBegins DEF Moves
  <2> QED BY <2>2, <2>4, OneMoves
<1> QED BY <1>3, <1>4, <1>5

\* The drains told of the end of a batch are over only if the queue is empty.
LEMMA AfterBatchMoves ==
    ASSUME DeliveryTypeOK, NEW k \in Callers, NEW gone, AfterBatch(k, gone), gone => Holds(q'[k]) = {}
    PROVE  DrainsMove
<1>1. PICK f : f = [d \in Drains |->
                IF Drained(d) # k \/ drain[d].st # "waits" THEN drain[d]
                ELSE IF gone THEN Settles("ok")
                ELSE [drain[d] EXCEPT !.togo = IF @ = 0 THEN 0 ELSE @ - 1]]
  OBVIOUS
<1>2. drain' = f BY <1>1 DEF AfterBatch
<1>3. drain' = [d \in Drains |-> f[d]] BY <1>1, <1>2
<1>4. ASSUME NEW d \in Drains PROVE Moves(d, f[d])
  <2>1. CASE Drained(d) # k \/ drain[d].st # "waits" BY <1>1, <2>1, UnmovedDrain
  <2>2. CASE ~(Drained(d) # k \/ drain[d].st # "waits") /\ gone BY <1>1, <2>2, Settled0 DEF Moves
  <2>3. CASE ~(Drained(d) # k \/ drain[d].st # "waits") /\ ~gone
    <3>1. drain[d] \in Drainings BY DEF DeliveryTypeOK, Drainings
    <3>2. f[d] = [drain[d] EXCEPT !.togo = IF drain[d].togo = 0 THEN 0 ELSE drain[d].togo - 1]
      BY <1>1, <2>3
    <3>3. f[d] \in Drainings /\ f[d].st = drain[d].st BY <3>1, <3>2 DEF Drainings
    <3> QED BY <3>3 DEF Moves
  <2> QED BY <2>1, <2>2, <2>3
<1> QED BY <1>3, <1>4, AllMove

\* The drains of a queue that fails have nothing more to wait for.
LEMMA FailsMoves == ASSUME DeliveryTypeOK, NEW k \in Callers, QueueFails(k) PROVE DrainsMove
<1>1. PICK f : f = [d \in Drains |-> IF Drained(d) = k THEN [drain[d] EXCEPT !.togo = 0] ELSE drain[d]]
  OBVIOUS
<1>2. drain' = f BY <1>1 DEF QueueFails
<1>3. drain' = [d \in Drains |-> f[d]] BY <1>1, <1>2
<1>4. ASSUME NEW d \in Drains PROVE Moves(d, f[d])
  <2>1. drain[d] \in Drainings BY DEF DeliveryTypeOK, Drainings
  <2>2. f[d] \in Drainings /\ f[d].st = drain[d].st BY <1>1, <2>1 DEF Drainings
  <2> QED BY <2>2 DEF Moves
<1> QED BY <1>3, <1>4, AllMove

\* A delivery moves the drains of its queue only.
LEMMA DeliverMoves == ASSUME DeliveryTypeOK, NEW k \in Callers, deliver(k) PROVE DrainsMove
<1>1. CASE k = Late \/ Len(q[k].work[1]) = 1
  <2>1. PICK r, gone : r = BatchDone(q[k]) /\ gone = (k = Late /\ Quiet(r)) OBVIOUS
  <2>2. q' = [q EXCEPT ![k] = r] /\ AfterBatch(k, gone) BY <1>1, <2>1 DEF deliver, EndBatch
  <2>3. q'[k] = r BY <2>2 DEF DeliveryTypeOK
  <2>4. gone => Holds(q'[k]) = {} BY <2>1, <2>3, QuietEmpty
  <2> QED BY <2>2, <2>4, AfterBatchMoves
<1>2. CASE ~(k = Late \/ Len(q[k].work[1]) = 1) BY <1>2, UnmovedDrains DEF deliver
<1> QED BY <1>1, <1>2

\* A drain that is set anew.
LEMMA ResetMoves ==
    ASSUME DeliveryTypeOK, NEW t \in Turns, NEW x \in Drainings, drain' = [drain EXCEPT ![Own(t)] = x]
    PROVE  DrainsMove
<1>1. drain' \in [Drains -> Drainings] /\ \A d \in Drains : d # Own(t) => drain'[d] = drain[d]
  BY DrainNames DEF DeliveryTypeOK, Drainings
<1>2. \A u \in Turns : drain'[Prior(u)] = drain[Prior(u)] BY <1>1, DrainNames
<1>3. \A k \in Callers : drain'[Base(k)] = drain[Base(k)] BY <1>1, DrainNames
<1> QED BY <1>1, <1>2, <1>3 DEF DrainsMove

\* A turn that begins begins the drain of the late queue, or needs none.
LEMMA RunMoves ==
    ASSUME DeliveryTypeOK, TurnsFollow, QueuesShrink, NEW t \in Turns, runAgentTurn(t) PROVE DrainsMove
<1>1. PICK x : x = IF lateOpen THEN DrainOf(q'[Late]) ELSE Settles("ok") OBVIOUS
<1>2. phase[t] = "no" /\ phase'[t] # "no" /\ drain' = [drain EXCEPT ![Prior(t)] = x]
  BY <1>1 DEF runAgentTurn, DeliveryTypeOK
<1>3. QueueOK(q'[Late]) BY DrainNames DEF QueuesShrink, Shrinks
<1>4. x \in Drainings /\ (x.st = "ok" => ~lateOpen) BY <1>1, <1>3, DrainBegins, Settled0
<1>5. ~lateOpen => Holds(q'[Late]) = {} BY DrainNames DEF QueuesShrink, Shrinks, TurnsFollow
<1>6. drain' \in [Drains -> Drainings] /\ drain'[Prior(t)] = x /\ \A d \in Drains : d # Prior(t) => drain'[d] = drain[d]
  BY <1>2, <1>4, DrainNames DEF DeliveryTypeOK, Drainings
<1>7. \A u \in Turns : u # t => drain'[Prior(u)] = drain[Prior(u)] BY <1>6, DrainNames
<1>8. \A k \in Callers : drain'[Base(k)] = drain[Base(k)] BY <1>6, DrainNames
<1> QED BY <1>2, <1>4, <1>5, <1>6, <1>7, <1>8 DEF DrainsMove

\* A baseline begins the drains of the unsettled queues, and forgets them when it fails
\* or ends.
LEMMA BaselineMoves ==
    ASSUME DeliveryTypeOK, QueuesShrink, withMuxBaseline \/ baselineFails \/ baselineGoesOn PROVE DrainsMove
<1>1. CASE withMuxBaseline
  <2>1. PICK f : f = [d \in Drains |-> IF d[1] = "base" /\ d[2] \in unsettled THEN DrainOf(q'[d[2]]) ELSE drain[d]]
    OBVIOUS
  <2>2. drain' = f BY <1>1, <2>1 DEF withMuxBaseline
  <2>3. \A d \in Drains : f[d] = drain[d] \/ (f[d] \in Drainings /\ f[d].st = "waits" /\ d[1] = "base")
    BY <2>1, DrainBegins DEF QueuesShrink, Shrinks, DeliveryTypeOK
  <2>4. \A d \in Drains : f[d] \in Drainings BY <2>3 DEF DeliveryTypeOK, Drainings
  <2>5. drain' \in [Drains -> Drainings] BY <2>1, <2>2, <2>4
  <2>6. \A t \in Turns : drain'[Prior(t)] = drain[Prior(t)] BY <2>2, <2>3, DrainNames
  <2>7. \A k \in Callers : drain'[Base(k)] = drain[Base(k)] \/ drain'[Base(k)].st = "waits"
    BY <2>2, <2>3, DrainNames
  <2> QED BY <2>5, <2>6, <2>7 DEF DrainsMove
<1>2. CASE baselineFails \/ baselineGoesOn
  <2>1. mux' = None /\ drain' = [d \in Drains |-> IF d[1] = "base" THEN NoDrain ELSE drain[d]]
    BY <1>2 DEF baselineFails, baselineGoesOn, Forgotten
  <2>2. NoDrain \in Drainings /\ NoDrain.st = "no" BY DEF NoDrain, Drainings
  <2>3. \A d \in Drains : drain[d] \in Drainings BY DEF DeliveryTypeOK, Drainings
  <2>4. drain' \in [Drains -> Drainings] BY <2>1, <2>2, <2>3
  <2>5. \A t \in Turns : drain'[Prior(t)] = drain[Prior(t)] BY <2>1, DrainNames
  <2>6. \A k \in Callers : drain'[Base(k)].st = "no" BY <2>1, <2>2, DrainNames
  <2> QED BY <2>1, <2>4, <2>5, <2>6 DEF DrainsMove
<1> QED BY <1>1, <1>2

\* Every step moves each drain as drains may: one found "ok" leaves its queue empty.
LEMMA StepMovesDrains == ASSUME DeliveryTypeOK, TurnsFollow, emit \/ QueuesShrink, Next PROVE DrainsMove
<1>1. ASSUME NEW k \in Callers, flushRejects(k) \/ priorRejects(k) PROVE DrainsMove
  BY <1>1, FailsMoves DEF flushRejects, priorRejects
<1>2. ASSUME NEW k \in Callers, timerFires(k) \/ flushBegins(k) \/ flushResolves(k) PROVE DrainsMove
  BY <1>2, UnmovedDrains DEF timerFires, flushBegins, flushResolves
<1>3. CASE emit BY <1>3, UnmovedDrains DEF emit
<1>4. CASE attach \/ detach \/ Persistence
  BY <1>4, UnmovedDrains DEF attach, detach, Persistence, deliveryVars
<1>5. ASSUME NEW t \in Turns, turnCloses(t) \/ turnEnds(t), QueuesShrink PROVE DrainsMove
  <2>1. PICK x : x = DrainOf(q'[t]) OBVIOUS
  <2>2. x \in Drainings BY <1>5, <2>1, DrainBegins, DrainNames DEF QueuesShrink, Shrinks
  <2>3. drain' = [drain EXCEPT ![Own(t)] = x] BY <1>5, <2>1 DEF turnCloses, turnEnds, DrainOwn
  <2> QED BY <2>2, <2>3, ResetMoves
<1>6. ASSUME NEW t \in Turns, stopObserving(t) PROVE DrainsMove
  <2>1. NoDrain \in Drainings BY DEF NoDrain, Drainings
  <2> QED BY <1>6, <2>1, ResetMoves DEF stopObserving
<1>7. CASE QueuesShrink
  BY <1>1, <1>2, <1>3, <1>4, <1>5, <1>6, <1>7, DeliverMoves, GoesOnMoves, RunMoves, BaselineMoves DEF Next
<1> QED BY <1>3, <1>7

----------------------------------------
(* What the actions do to the log and its promises. *)

\* A write adds events of the session to the log.
LEMMA WriteGrows ==
    ASSUME DeliveryTypeOK, Write PROVE stored \subseteq stored' /\ stored' \subseteq stored \cup ToSet(mem)
<1>1. PICK n \in 0..Len(mem) : stored' = stored \cup ToSet(SubSeq(mem, 1, n)) BY DEF Write
<1>2. mem \in Seq(Nat) /\ Len(mem) \in Nat /\ DOMAIN mem = 1..Len(mem)
  BY LenProperties DEF DeliveryTypeOK
<1>3. PICK v : v = SubSeq(mem, 1, n) OBVIOUS
<1>4. \A i \in 1..n : mem[i] \in Nat BY <1>2, ElementOfSeq
<1>5. n \in Int /\ 1 \in Int /\ n - 1 + 1 = n BY <1>2
<1>6. v \in Seq(Nat) /\ Len(v) = (IF 1 <= n THEN n - 1 + 1 ELSE 0) /\ \A i \in 1..(n - 1 + 1) : v[i] = mem[1 + i - 1]
  BY <1>3, <1>4, <1>5, SubSeqProperties
<1>7. DOMAIN v = 1..Len(v) BY <1>6, LenProperties
<1>8. \A i \in DOMAIN v : i \in DOMAIN mem /\ v[i] = mem[i] BY <1>2, <1>5, <1>6, <1>7
<1>9. ToSet(v) \subseteq ToSet(mem) BY <1>8 DEF ToSet
<1> QED BY <1>1, <1>3, <1>9

\* The events stay events, the log grows, and whatever the session still has
\* it has afterwards, unless it was stored or given up.
LogMoves ==
    /\ born' \in Nat /\ born <= born' /\ stored \subseteq stored' /\ stored' \subseteq 1..born'
    /\ attached' \in BOOLEAN /\ mem' \in Seq(Nat) /\ ToSet(mem') \subseteq 1..born'
    /\ unsaved \subseteq unsaved' /\ leftover \subseteq leftover'
    /\ attached => \A e \in ToSet(mem) : (attached' /\ e \in ToSet(mem')) \/ e \in stored' \cup unsaved'

\* An event is born with the number that follows all others, and is in memory.
LEMMA EmitMoves == ASSUME DeliveryTypeOK, emit PROVE LogMoves /\ attached /\ attached' /\ born' = born + 1 /\ ToSet(mem') = ToSet(mem) \cup {born + 1}
<1>1. /\ attached /\ born' = born + 1 /\ mem' = Append(mem, born + 1)
      /\ stored' = stored /\ attached' = attached /\ unsaved' = unsaved /\ leftover' = leftover
  BY DEF emit, Emit
<1>2. born \in Nat /\ born + 1 \in Nat /\ mem \in Seq(Nat) /\ 1..born \subseteq 1..(born + 1) /\ born + 1 \in 1..(born + 1)
  BY DEF DeliveryTypeOK
<1>3. mem' \in Seq(Nat) /\ ToSet(mem') = ToSet(mem) \cup {born + 1}
  <2>1. PICK v : v = Append(mem, born + 1) OBVIOUS
  <2>2. /\ v \in Seq(Nat) /\ DOMAIN v = 1..(Len(mem) + 1) /\ DOMAIN mem = 1..Len(mem) /\ Len(mem) \in Nat
        /\ v[Len(mem) + 1] = born + 1 /\ \A i \in 1..Len(mem) : v[i] = mem[i]
    BY <1>2, <2>1, AppendProperties, LenProperties
  <2>3. \A i \in DOMAIN v : v[i] \in ToSet(mem) \cup {born + 1} BY <2>2 DEF ToSet
  <2>4. ToSet(mem) \subseteq ToSet(v) /\ born + 1 \in ToSet(v) BY <2>2 DEF ToSet
  <2>5. ToSet(v) = ToSet(mem) \cup {born + 1} BY <2>3, <2>4 DEF ToSet
  <2> QED BY <1>1, <2>1, <2>2, <2>5
<1> QED BY <1>1, <1>2, <1>3 DEF LogMoves, DeliveryTypeOK

\* An attach reads back what is stored, and is told of no event.
LEMMA AttachMoves == ASSUME DeliveryTypeOK, attach PROVE LogMoves
<1>1. /\ ~attached /\ attached' = TRUE /\ mem' \in [1..Cardinality(stored) -> stored]
      /\ born' = born /\ stored' = stored /\ unsaved' = unsaved /\ leftover' = leftover
  BY DEF attach, Attach
<1>2. born \in Nat /\ stored \subseteq 1..born BY DEF DeliveryTypeOK
<1>3. Cardinality(stored) \in Nat
  <2>1. IsFiniteSet(1..born) BY <1>2, FS_Interval
  <2>2. IsFiniteSet(stored) BY <1>2, <2>1, FS_Subset
  <2> QED BY <2>2, FS_CardinalityType
<1>4. PICK n, v : n = Cardinality(stored) /\ v = mem' OBVIOUS
<1>5. n \in Nat /\ v \in [1..n -> stored] /\ stored \subseteq Nat BY <1>1, <1>2, <1>3, <1>4
<1>6. v \in Seq(Nat) /\ ToSet(v) \subseteq stored
  <2>1. v \in [1..n -> Nat] BY <1>5
  <2>2. v \in Seq(Nat) BY <1>5, <2>1, SeqDef
  <2> QED BY <1>5, <2>2 DEF ToSet
<1>7. mem' \in Seq(Nat) /\ ToSet(mem') \subseteq 1..born' BY <1>1, <1>2, <1>4, <1>6
<1>8. attached' \in BOOLEAN BY <1>1
<1> QED BY <1>1, <1>2, <1>7, <1>8 DEF LogMoves

\* Every step moves the log as logs may: what is stored or in memory is never forgotten
\* but by a detach, and what was left over stays so.
LEMMA StepMovesLog == ASSUME DeliveryTypeOK, Next PROVE LogMoves
<1>1. ASSUME born' = born, stored' = stored, attached' = attached, mem' = mem,
             unsaved' = unsaved, leftover \subseteq leftover' PROVE LogMoves
  BY <1>1 DEF LogMoves, DeliveryTypeOK
<1>2. ASSUME born' = born, Write, attached' = attached, mem' = mem, unsaved' = unsaved, leftover' = leftover
      PROVE  LogMoves
  BY <1>2, WriteGrows DEF LogMoves, DeliveryTypeOK
<1>3. ASSUME NEW k \in Callers,
             timerFires(k) \/ flushResolves(k) \/ flushRejects(k) \/ priorRejects(k) \/ deliver(k)
      PROVE  LogMoves
  BY <1>1, <1>3 DEF timerFires, flushResolves, flushRejects, priorRejects, deliver, QueueFails, Return, barrierVars
<1>4. ASSUME NEW k \in Callers, flushBegins(k) PROVE LogMoves BY <1>2, <1>4 DEF flushBegins, Call
<1>5. ASSUME NEW d \in Drains, DrainGoesOn(d) PROVE LogMoves
  BY <1>1, <1>5 DEF DrainGoesOn, barrierVars
<1>6. ASSUME NEW t \in Turns, runAgentTurn(t) \/ turnCloses(t) \/ turnEnds(t) \/ stopObserving(t) PROVE LogMoves
  BY <1>1, <1>6 DEF runAgentTurn, turnCloses, turnEnds, DrainOwn, stopObserving, barrierVars
<1>7. ASSUME withMuxBaseline \/ baselineFails \/ baselineGoesOn PROVE LogMoves
  BY <1>1, <1>7 DEF withMuxBaseline, baselineFails, baselineGoesOn, barrierVars
<1>8. ASSUME detach PROVE LogMoves
  <2>1. /\ born' = born /\ mem' = mem /\ Write /\ attached' = FALSE
        /\ unsaved' = unsaved \cup (ToSet(mem) \ stored') /\ leftover' = leftover
    BY <1>8 DEF detach, Detach
  <2>2. stored \subseteq stored' /\ stored' \subseteq stored \cup ToSet(mem) BY <2>1, WriteGrows
  <2>3. born \in Nat /\ stored \subseteq 1..born /\ mem \in Seq(Nat) /\ ToSet(mem) \subseteq 1..born
    BY DEF DeliveryTypeOK
  <2>4. stored' \subseteq 1..born' /\ \A e \in ToSet(mem) : e \in stored' \cup unsaved'
    BY <2>1, <2>2, <2>3
  <2>5. attached' \in BOOLEAN /\ unsaved \subseteq unsaved' /\ leftover \subseteq leftover' BY <2>1
  <2> QED BY <2>1, <2>2, <2>3, <2>4, <2>5 DEF LogMoves
<1>9. ASSUME Persistence PROVE LogMoves
  <2>1. unsaved' = unsaved /\ leftover' = leftover BY <1>9 DEF Persistence, deliveryVars
  <2>2. CASE Store BY <1>2, <2>1, <2>2 DEF Store
  <2>3. CASE Settle BY <1>1, <2>1, <2>3 DEF Settle
  <2>4. CASE Retire
    <3>1. ~attached /\ mem' = <<>> /\ born' = born /\ stored' = stored /\ attached' = attached
      BY <2>4 DEF Retire
    <3>2. <<>> \in Seq(Nat) /\ ToSet(<<>>) = {} BY DEF ToSet
    <3> QED BY <2>1, <3>1, <3>2 DEF LogMoves, DeliveryTypeOK
  <2> QED BY <1>9, <2>2, <2>3, <2>4 DEF Persistence
<1> QED BY <1>3, <1>4, <1>5, <1>6, <1>7, <1>8, <1>9, EmitMoves, AttachMoves DEF Next

\* A promise is forgotten, stays, is settled - resolved only when what it owes
\* is in the log - or is made anew for a flush that begins.
Promised == [owed : SUBSET Nat, st : {"waiting", "resolved", "rejected"}]

PromiseMoves(c) ==
    /\ promise'[c] = None \/ promise'[c] \in Promised
    /\ \/ promise'[c] = None
       \/ promise'[c] = promise[c]
       \/ /\ promise[c] # None /\ promise'[c].owed = promise[c].owed
          /\ promise'[c].st = "resolved" => promise'[c].owed \subseteq stored
       \/ flushBegins(c) /\ promise'[c].st = "waiting"

PromisesMove == promise' = [c \in Callers |-> promise'[c]] /\ \A c \in Callers : PromiseMoves(c)

\* Promises that a step leaves alone move as promises may.
LEMMA PromisesStay == ASSUME DeliveryTypeOK, promise' = promise PROVE PromisesMove
  BY DEF DeliveryTypeOK, PromisesMove, PromiseMoves, Promised

\* A caller that returns has no promise left.
LEMMA PromiseReturned == ASSUME DeliveryTypeOK, NEW k \in Callers, Return(k) PROVE PromisesMove
<1>1. promise' = [c \in Callers |-> IF c = k THEN None ELSE promise[c]]
  BY DEF Return, DeliveryTypeOK
<1> QED BY <1>1 DEF DeliveryTypeOK, PromisesMove, PromiseMoves, Promised

\* A flush promises what is in memory when it begins.
LEMMA PromiseMade == ASSUME DeliveryTypeOK, NEW k \in Callers, flushBegins(k) PROVE PromisesMove
<1>1. PICK p : p = [owed |-> IF attached THEN ToSet(mem) ELSE {}, st |-> "waiting"] OBVIOUS
<1>2. promise' = [promise EXCEPT ![k] = p] BY <1>1 DEF flushBegins, Call
<1>3. p \in Promised /\ p.st = "waiting" BY <1>1 DEF DeliveryTypeOK, Promised
<1>4. promise' = [c \in Callers |-> IF c = k THEN p ELSE promise[c]] BY <1>2 DEF DeliveryTypeOK
<1> QED BY <1>3, <1>4 DEF DeliveryTypeOK, PromisesMove, PromiseMoves, Promised

\* A barrier that settles resolves a promise only if what it owes is stored.
LEMMA PromisesSettle == ASSUME DeliveryTypeOK, Settled PROVE PromisesMove
<1>1. promise' = [c \in Callers |-> promise'[c]] BY DEF Settled
<1>2. ASSUME NEW c \in Callers PROVE PromiseMoves(c)
  <2>1. PICK p : p = promise[c] OBVIOUS
  <2>2. p = None \/ p \in Promised BY <2>1 DEF DeliveryTypeOK, Promised
  <2>3. promise'[c] \in Outcomes(p) BY <2>1 DEF Settled
  <2>4. CASE promise'[c] = p BY <2>1, <2>2, <2>4 DEF PromiseMoves
  <2>5. CASE promise'[c] # p
    <3>1. /\ p # None
          /\ \/ promise'[c] = [p EXCEPT !.st = "rejected"]
             \/ promise'[c] = [p EXCEPT !.st = "resolved"] /\ p.owed \subseteq stored
      BY <2>3, <2>5 DEF Outcomes
    <3>2. p \in Promised BY <2>2, <3>1
    <3>3. /\ promise'[c] \in Promised /\ promise'[c].owed = p.owed
          /\ promise'[c].st = "resolved" => p.owed \subseteq stored
      BY <3>1, <3>2 DEF Promised
    <3> QED BY <2>1, <3>1, <3>3 DEF PromiseMoves
  <2> QED BY <2>4, <2>5
<1> QED BY <1>1, <1>2 DEF PromisesMove

\* Every step moves the promises as promises may.
LEMMA StepMovesPromises == ASSUME DeliveryTypeOK, Next PROVE PromisesMove
<1>1. ASSUME NEW k \in Callers, timerFires(k) \/ priorRejects(k) \/ deliver(k) PROVE PromisesMove
  BY <1>1, PromisesStay DEF timerFires, priorRejects, deliver, barrierVars
<1>2. ASSUME NEW k \in Callers, flushResolves(k) \/ flushRejects(k) PROVE PromisesMove
  BY <1>2, PromiseReturned DEF flushResolves, flushRejects
<1>3. ASSUME NEW d \in Drains, DrainGoesOn(d) PROVE PromisesMove
  BY <1>3, PromisesStay DEF DrainGoesOn, barrierVars
<1>4. ASSUME NEW t \in Turns, runAgentTurn(t) \/ turnCloses(t) \/ turnEnds(t) \/ stopObserving(t) PROVE PromisesMove
  BY <1>4, PromisesStay DEF runAgentTurn, turnCloses, turnEnds, DrainOwn, stopObserving, barrierVars
<1>5. ASSUME withMuxBaseline \/ baselineFails \/ baselineGoesOn PROVE PromisesMove
  BY <1>5, PromisesStay DEF withMuxBaseline, baselineFails, baselineGoesOn, barrierVars
<1>6. ASSUME emit \/ attach PROVE PromisesMove BY <1>6, PromisesStay DEF emit, Emit, attach, Attach
<1>7. ASSUME detach PROVE PromisesMove BY <1>7, PromisesSettle DEF detach, Detach
<1>8. ASSUME Persistence PROVE PromisesMove
  BY <1>8, PromisesStay, PromisesSettle DEF Persistence, Store, Settle, Retire
<1> QED BY <1>1, <1>2, <1>3, <1>4, <1>5, <1>6, <1>7, <1>8, PromiseMade DEF Next

----------------------------------------
(* What the actions do to the turns, the lists of queues and the sockets. *)

PhaseMoves ==
    /\ phase' \in [Turns -> {"no", "running", "draining", "finally", "gone"}]
    /\ \A t, u \in Turns : Observes(t)' /\ Observes(u)' => t = u
    /\ \A t \in Turns :
          /\ phase'[t] = "no" => phase[t] = "no"
          /\ phase'[t] = "gone" => phase[t] = "gone" \/ Held(t) \subseteq leftover'
          /\ Observes(t)' => Observes(t) \/ (phase[t] = "no" /\ Observing = {})
          /\ phase[t] = "no" => phase'[t] = "no" \/ Observing = {}
          /\ phase'[t] = "gone" => phase[t] \in {"gone", "finally"}
          /\ phase[t] = "gone" => phase'[t] = "gone"

\* Turns that a step leaves alone move as turns may.
LEMMA PhasesStay == ASSUME DeliveryTypeOK, TurnsFollow, phase' = phase PROVE PhaseMoves
  BY DEF DeliveryTypeOK, TurnsFollow, PhaseMoves, Observes

\* One turn that goes one phase on leaves the others where they are.
LEMMA OnePhase ==
    ASSUME DeliveryTypeOK, TurnsFollow, NEW t \in Turns, NEW p \in {"running", "draining", "finally", "gone"},
           phase' = [phase EXCEPT ![t] = p], phase[t] # "gone",
           phase[t] = "no" => Observing = {} /\ p = "running",
           p = "gone" => phase[t] = "finally" /\ Held(t) \subseteq leftover'
    PROVE  PhaseMoves
<1>1. phase' = [u \in Turns |-> IF u = t THEN p ELSE phase[u]] BY DEF DeliveryTypeOK
<1>2. \A u \in Turns : u # t => phase'[u] = phase[u] BY <1>1
<1>3. phase'[t] = p BY <1>1
<1>4. phase' \in [Turns -> {"no", "running", "draining", "finally", "gone"}]
  BY <1>1 DEF DeliveryTypeOK
<1>5. \A u \in Turns : Observes(u)' => Observes(u) \/ (u = t /\ phase[u] = "no" /\ Observing = {})
  BY <1>2, <1>3 DEF Observes
<1>6. \A u, v \in Turns : Observes(u)' /\ Observes(v)' => u = v
  BY <1>5 DEF TurnsFollow, Observing, Observes
<1>7. ASSUME NEW u \in Turns
      PROVE  /\ phase'[u] = "no" => phase[u] = "no"
             /\ phase'[u] = "gone" => phase[u] = "gone" \/ Held(u) \subseteq leftover'
             /\ Observes(u)' => Observes(u) \/ (phase[u] = "no" /\ Observing = {})
             /\ phase[u] = "no" => phase'[u] = "no" \/ Observing = {}
             /\ phase'[u] = "gone" => phase[u] \in {"gone", "finally"}
             /\ phase[u] = "gone" => phase'[u] = "gone"
  <2>1. CASE u = t BY <1>3, <1>5, <2>1
  <2>2. CASE u # t BY <1>2, <1>5, <2>2
  <2> QED BY <2>1, <2>2
<1> QED BY <1>4, <1>6, <1>7 DEF PhaseMoves

\* Every step moves the turns as turns may: one at a time, each phase after the one before.
LEMMA StepMovesPhases == ASSUME DeliveryTypeOK, TurnsFollow, Next PROVE PhaseMoves
<1>1. ASSUME NEW k \in Callers,
             timerFires(k) \/ flushBegins(k) \/ flushResolves(k) \/ flushRejects(k) \/ priorRejects(k) \/ deliver(k)
      PROVE  PhaseMoves
  BY <1>1, PhasesStay DEF timerFires, flushBegins, flushResolves, flushRejects, priorRejects, deliver, QueueFails
<1>2. ASSUME NEW d \in Drains, DrainGoesOn(d) PROVE PhaseMoves BY <1>2, PhasesStay DEF DrainGoesOn
<1>3. ASSUME NEW t \in Turns, runAgentTurn(t) PROVE PhaseMoves BY <1>3, OnePhase DEF runAgentTurn
<1>4. ASSUME NEW t \in Turns, turnCloses(t) PROVE PhaseMoves
  BY <1>4, OnePhase DEF turnCloses, DrainOwn
<1>5. ASSUME NEW t \in Turns, turnEnds(t) PROVE PhaseMoves BY <1>5, OnePhase DEF turnEnds, DrainOwn
<1>6. ASSUME NEW t \in Turns, stopObserving(t) PROVE PhaseMoves
  BY <1>6, OnePhase DEF stopObserving, Held
<1>7. ASSUME withMuxBaseline \/ baselineFails \/ baselineGoesOn \/ emit \/ attach \/ detach \/ Persistence PROVE PhaseMoves
  BY <1>7, PhasesStay DEF withMuxBaseline, baselineFails, baselineGoesOn, emit, attach, detach, Persistence, deliveryVars
<1> QED BY <1>1, <1>2, <1>3, <1>4, <1>5, <1>6, <1>7 DEF Next

\* A queue leaves the lists when it has nothing, or the baseline takes over.
ListsMove ==
    /\ lateOpen' \in BOOLEAN /\ unsettled' \subseteq Callers
    /\ lateOpen /\ ~lateOpen' => Holds(q'[Late]) = {}
    /\ \A k \in unsettled \ unsettled' : Holds(q'[k]) = {} \/ baselineGoesOn

\* A delivery takes a queue off the list of the unsettled only when it is empty.
LEMMA DeliverLists == ASSUME DeliveryTypeOK, NEW k \in Callers, deliver(k) PROVE ListsMove
<1>1. CASE k = Late \/ Len(q[k].work[1]) = 1
  <2>1. PICK r : r = BatchDone(q[k]) OBVIOUS
  <2>2. /\ q' = [q EXCEPT ![k] = r]
        /\ unsettled' = (IF Quiet(r) THEN unsettled \ {k} ELSE unsettled)
        /\ lateOpen' = (lateOpen /\ ~(k = Late /\ Quiet(r)))
    BY <1>1, <2>1 DEF deliver, EndBatch
  <2>3. q'[k] = r BY <2>2 DEF DeliveryTypeOK
  <2>4. Quiet(r) => Holds(q'[k]) = {} BY <2>3, QuietEmpty
  <2>5. lateOpen' \in BOOLEAN /\ (lateOpen /\ ~lateOpen' => k = Late /\ Quiet(r))
    BY <2>2 DEF DeliveryTypeOK
  <2>6. unsettled' \subseteq Callers /\ \A l \in unsettled \ unsettled' : l = k /\ Quiet(r)
    BY <2>2 DEF DeliveryTypeOK
  <2> QED BY <2>4, <2>5, <2>6 DEF ListsMove
<1>2. CASE ~(k = Late \/ Len(q[k].work[1]) = 1) BY <1>2 DEF deliver, ListsMove, DeliveryTypeOK
<1> QED BY <1>1, <1>2

\* Every step keeps a queue that holds an event on the list a baseline waits for.
LEMMA StepMovesLists == ASSUME DeliveryTypeOK, HeldOnce, Next PROVE ListsMove
<1>1. ASSUME lateOpen' = lateOpen, unsettled' = unsettled PROVE ListsMove
  BY <1>1 DEF ListsMove, DeliveryTypeOK
<1>2. ASSUME NEW k \in Callers,
             timerFires(k) \/ flushBegins(k) \/ flushResolves(k) \/ flushRejects(k) \/ priorRejects(k)
      PROVE  ListsMove
  BY <1>1, <1>2 DEF timerFires, flushBegins, flushResolves, flushRejects, priorRejects, QueueFails
<1>3. ASSUME NEW d \in Drains, DrainGoesOn(d) PROVE ListsMove BY <1>1, <1>3 DEF DrainGoesOn
<1>4. ASSUME NEW t \in Turns, runAgentTurn(t) \/ turnCloses(t) \/ turnEnds(t) \/ stopObserving(t) PROVE ListsMove
  BY <1>1, <1>4 DEF runAgentTurn, turnCloses, turnEnds, DrainOwn, stopObserving
<1>5. ASSUME withMuxBaseline \/ baselineFails \/ attach \/ detach \/ Persistence PROVE ListsMove
  BY <1>1, <1>5 DEF withMuxBaseline, baselineFails, attach, detach, Persistence, deliveryVars
<1>6. ASSUME baselineGoesOn PROVE ListsMove
  <2>1. lateOpen' = lateOpen /\ (unsettled' = unsettled \/ unsettled' = {})
    BY <1>6 DEF baselineGoesOn
  <2> QED BY <1>6, <2>1 DEF ListsMove, DeliveryTypeOK
<1>7. ASSUME emit PROVE ListsMove
  <2>1. PICK k, r : TakesOver(k, r) BY <1>7, EmitTakes
  <2> QED BY <2>1 DEF TakesOver, ListsMove, DeliveryTypeOK
<1> QED BY <1>2, <1>3, <1>4, <1>5, <1>6, <1>7, DeliverLists DEF Next

\* Only deliveries send.
LEMMA StepSends ==
    ASSUME Next
    PROVE  \/ delivered' = delivered
           \/ \E k \in Callers : deliver(k) /\ born' = born /\ leftover' = leftover /\ baseline' = baseline
<1>1. ASSUME NEW k \in Callers, timerFires(k) \/ flushBegins(k) \/ flushResolves(k) \/ flushRejects(k) \/ priorRejects(k)
      PROVE  delivered' = delivered
  BY <1>1 DEF timerFires, flushBegins, flushResolves, flushRejects, priorRejects, QueueFails
<1>2. ASSUME NEW d \in Drains, DrainGoesOn(d) PROVE delivered' = delivered BY <1>2 DEF DrainGoesOn
<1>3. ASSUME NEW t \in Turns, runAgentTurn(t) \/ turnCloses(t) \/ turnEnds(t) \/ stopObserving(t)
      PROVE  delivered' = delivered
  BY <1>3 DEF runAgentTurn, turnCloses, turnEnds, DrainOwn, stopObserving
<1>4. ASSUME withMuxBaseline \/ baselineFails \/ baselineGoesOn \/ emit \/ attach \/ detach \/ Persistence
      PROVE  delivered' = delivered
  BY <1>4 DEF withMuxBaseline, baselineFails, baselineGoesOn, emit, attach, detach, Persistence, deliveryVars
<1>5. ASSUME NEW k \in Callers, deliver(k) PROVE born' = born /\ leftover' = leftover /\ baseline' = baseline
  BY <1>5 DEF deliver, barrierVars
<1> QED BY <1>1, <1>2, <1>3, <1>4, <1>5 DEF Next

----------------------------------------
(* The invariant. *)

\* The invariant holds of an object that just started.
LEMMA InitInvariant == Init => IInv
<1> SUFFICES ASSUME Init PROVE IInv OBVIOUS
<1>1. \A k \in Callers : q[k] = NewQueue /\ QueueOK(q[k]) /\ Held(k) = {} /\ q[k].step = "idle"
  BY NewQueueOK DEF Init, Held, NewQueue
<1>2. q \in [Callers -> Queues] BY NewQueueOK DEF Init, QueueOK
<1>3. drain \in [Drains -> [st : {"no", "waits", "ok", "failed"}, togo : Nat]] /\ \A d \in Drains : drain[d].st = "no"
  BY DEF Init, NoDrain
<1>4. /\ born = 0 /\ stored \subseteq 1..0 /\ attached = FALSE /\ mem = <<>>
      /\ promise = [c \in Callers |-> None] /\ delivered = <<>>
  BY DEF Init, BarrierInit
<1>5. <<>> \in Seq(Nat) /\ ToSet(<<>>) = {} BY DEF ToSet
<1>6. DeliveryTypeOK
  <2>1. phase \in [Turns -> {"no", "running", "draining", "finally", "gone"}] /\ lateOpen \in BOOLEAN /\ unsettled \subseteq Callers
    BY DEF Init
  <2>2. promise = [c \in Callers |-> promise[c]] /\ \A c \in Callers : promise[c] = None BY <1>4
  <2>3. born \in Nat /\ attached \in BOOLEAN /\ mem \in Seq(Nat) /\ delivered \in Seq(Nat) /\ ToSet(mem) = {} /\ ToSet(delivered) = {}
    BY <1>4, <1>5
  <2> QED BY <1>1, <1>2, <1>3, <1>4, <2>1, <2>2, <2>3 DEF DeliveryTypeOK
<1>7. HeldOnce BY <1>1 DEF HeldOnce
<1>8. TurnsFollow
  <2>1. \A t \in Turns : phase[t] = "no" /\ t \in Callers /\ Prior(t) \in Drains
    BY DrainNames DEF Init
  <2> QED BY <1>1, <1>3, <2>1, DrainNames DEF TurnsFollow, Observes, Precedes
<1>9. SentInOrder
  <2>1. DOMAIN delivered = {} BY <1>4
  <2> QED BY <1>1, <2>1 DEF SentInOrder, OvertakenIsLeftover
<1>10. BaselineIsExact BY <1>1 DEF Init, BaselineIsExact, BaselineBoundary
<1>11. FlushOwes BY <1>1, <1>4 DEF FlushOwes
<1> QED BY <1>6, <1>7, <1>8, <1>9, <1>10, <1>11 DEF IInv

\* The step, whatever it is.
Moves0 ==
    /\ DrainsMove /\ LogMoves /\ PromisesMove /\ PhaseMoves /\ ListsMove
    /\ (emit /\ \E k, r : TakesOver(k, r)) \/ QueuesShrink
    /\ \/ delivered' = delivered
       \/ \E k \in Callers : deliver(k) /\ born' = born /\ leftover' = leftover /\ baseline' = baseline

\* Every step of the sockets moves the queues, the drains, the log, the promises, the turns
\* and the lists as the lemmas above say.
LEMMA StepMoves == ASSUME IInv, Next PROVE Moves0
<1>1. DeliveryTypeOK /\ HeldOnce /\ TurnsFollow BY DEF IInv
<1>2. (emit /\ \E k, r : TakesOver(k, r)) \/ QueuesShrink BY <1>1, StepShrinksQueues, EmitTakes
<1> QED BY <1>1, <1>2, StepMovesDrains, StepMovesLog, StepMovesPromises, StepMovesPhases, StepMovesLists, StepSends DEF Moves0

\* What the queues hold afterwards.
LEMMA StepHolds ==
    ASSUME IInv, Moves0
    PROVE  /\ q' = [k \in Callers |-> q'[k]]
           /\ \A k \in Callers : QueueOK(q'[k]) /\ Holds(q'[k]) \subseteq Held(k) \cup (1..born' \ 1..born)
<1>1. ASSUME NEW k, NEW r, emit, TakesOver(k, r)
      PROVE  /\ q' = [l \in Callers |-> q'[l]]
             /\ \A l \in Callers : QueueOK(q'[l]) /\ Holds(q'[l]) \subseteq Held(l) \cup (1..born' \ 1..born)
  <2>1. born' = born + 1 /\ born \in Nat BY <1>1 DEF emit, Emit, IInv, DeliveryTypeOK
  <2>2. born + 1 \in 1..born' \ 1..born BY <2>1
  <2> QED BY <1>1, <2>2, TakesEach DEF IInv
<1> QED BY <1>1 DEF Moves0, QueuesShrink, Shrinks

\* A sent batch: whose, what, and what is left of its queue.
LEMMA StepSent ==
    ASSUME IInv, Moves0, delivered' # delivered PROVE \E k \in Callers : \E b, r :
              deliver(k) /\ Sends(k, b, r) /\ born' = born /\ leftover' = leftover /\ baseline' = baseline /\ QueuesShrink
<1>1. PICK k \in Callers : deliver(k) /\ born' = born /\ leftover' = leftover /\ baseline' = baseline
  BY DEF Moves0
<1>2. PICK b, r : Sends(k, b, r) BY <1>1, DeliverSends DEF IInv
<1>3. QueuesShrink BY <1>2, OneShrinks DEF Sends, IInv
<1> QED BY <1>1, <1>2, <1>3

\* What is sent is born and is held by no queue any more.
LEMMA SentWhole ==
    ASSUME IInv, Moves0
    PROVE  /\ delivered' \in Seq(Nat) /\ ToSet(delivered') \subseteq 1..born'
           /\ \A k \in Callers : Holds(q'[k]) \cap ToSet(delivered') = {}
<1>1. born \in Nat /\ born' \in Nat /\ born <= born' /\ delivered \in Seq(Nat) /\ ToSet(delivered) \subseteq 1..born
  BY DEF IInv, DeliveryTypeOK, Moves0, LogMoves
<1>2. \A k \in Callers : Holds(q'[k]) \subseteq Held(k) \cup (1..born' \ 1..born) /\ Held(k) \cap ToSet(delivered) = {}
  BY StepHolds DEF IInv, HeldOnce
<1>3. CASE delivered' = delivered BY <1>1, <1>2, <1>3
<1>4. CASE delivered' # delivered
  <2>0. PICK k \in Callers : \E b, r : Sends(k, b, r) /\ born' = born /\ QueuesShrink
    BY <1>4, StepSent
  <2>1. PICK b, r : Sends(k, b, r) /\ born' = born /\ QueuesShrink BY <2>0
  <2>2. b \in Seq(Nat) /\ ToSet(b) \subseteq Held(k) /\ delivered' = delivered \o b /\ Precedes(ToSet(b), Holds(r))
    BY <2>1 DEF Sends
  <2>3. delivered' \in Seq(Nat) /\ ToSet(delivered') = ToSet(delivered) \cup ToSet(b)
    <3>1. Overtakes(delivered, Nat) /\ \A d \in ToSet(delivered), e \in ToSet(b) : d < e \/ (d # e /\ e \in Nat)
      <4>1. \A d \in ToSet(delivered), e \in ToSet(b) : d # e /\ e \in Nat
        <5>1. Held(k) \subseteq 1..born BY DEF IInv, HeldOnce
        <5> QED BY <1>1, <1>2, <2>2, <5>1
      <4>2. SentInOrder /\ DOMAIN delivered = 1..Len(delivered) BY <1>1, LenProperties DEF IInv
      <4>3. \A j \in DOMAIN delivered : delivered[j] \in Nat BY <1>1, <4>2, ElementOfSeq
      <4> QED BY <4>1, <4>2, <4>3 DEF SentInOrder, OvertakenIsLeftover, Overtakes
    <3>2. Rising(b) BY <2>1 DEF Sends
    <3> QED BY <1>1, <2>2, <3>1, <3>2, SendBehind
  <2>4. \A l \in Callers : Holds(q'[l]) \subseteq Held(l) BY <2>1 DEF QueuesShrink, Shrinks
  <2>5. q'[k] = r BY <2>1 DEF Sends, IInv, DeliveryTypeOK
  <2>6. \A e \in ToSet(b) : e \in 1..born /\ e \notin Holds(r)
    BY <1>1, <2>2 DEF Precedes, IInv, HeldOnce
  <2>7. \A l \in Callers : Holds(q'[l]) \cap ToSet(b) = {}
    <3>1. \A l \in Callers : l # k => Held(l) \cap Held(k) = {} BY DEF IInv, HeldOnce
    <3> QED BY <2>2, <2>4, <2>5, <2>6, <3>1
  <2> QED BY <1>1, <1>2, <2>1, <2>3, <2>4, <2>6, <2>7
<1> QED BY <1>3, <1>4

\* Every step keeps the types.
LEMMA TypeStep == ASSUME IInv, Moves0 PROVE DeliveryTypeOK'
<1>1. q' \in [Callers -> Queues] /\ \A k \in Callers : QueueOK(q'[k]) BY StepHolds DEF QueueOK
<1>2. delivered' \in Seq(Nat) /\ ToSet(delivered') \subseteq 1..born' BY SentWhole
<1> QED BY <1>1, <1>2 DEF Moves0, DeliveryTypeOK, DrainsMove, Drainings, LogMoves, PromisesMove, PromiseMoves, Promised, PhaseMoves, ListsMove

\* Every step keeps each event in one place.
LEMMA HeldStep == ASSUME IInv, Moves0 PROVE HeldOnce'
<1>1. born \in Nat /\ born' \in Nat /\ born <= born' BY DEF IInv, DeliveryTypeOK, Moves0, LogMoves
<1>2. \A k \in Callers : Holds(q'[k]) \subseteq 1..born' /\ Holds(q'[k]) \cap ToSet(delivered') = {}
  BY <1>1, StepHolds, SentWhole DEF IInv, HeldOnce
<1>3. ASSUME NEW k \in Callers, NEW l \in Callers, k # l PROVE Holds(q'[k]) \cap Holds(q'[l]) = {}
  <2>1. Held(k) \cap Held(l) = {} /\ Held(k) \subseteq 1..born /\ Held(l) \subseteq 1..born
    BY <1>3 DEF IInv, HeldOnce
  <2>2. CASE QueuesShrink BY <2>1, <2>2 DEF QueuesShrink, Shrinks
  <2>3. ASSUME NEW c, NEW r, TakesOver(c, r) PROVE Holds(q'[k]) \cap Holds(q'[l]) = {}
    <3>1. /\ Holds(q'[k]) \subseteq Held(k) \cup {born + 1} /\ Holds(q'[l]) \subseteq Held(l) \cup {born + 1}
          /\ Holds(q'[k]) = Held(k) \/ Holds(q'[l]) = Held(l)
      BY <1>3, <2>3, TakesEach DEF IInv
    <3>2. born + 1 \notin Held(k) /\ born + 1 \notin Held(l) BY <1>1, <2>1
    <3> QED BY <2>1, <3>1, <3>2
  <2> QED BY <2>2, <2>3 DEF Moves0
<1> QED BY <1>2, <1>3 DEF HeldOnce, Held

\* A queue at work has something.
LEMMA AtWork == ASSUME NEW r, QueueOK(r), r.step # "idle" PROVE Holds(r) # {}
<1>1. r.work # <<>> /\ r.work \in Seq(Seq(Nat)) BY DEF QueueOK, Queues
<1>2. ToSet(r.work[1]) \subseteq Holds(r) BY <1>1, BatchLeaves
<1>3. ToSet(r.work[1]) # {}
  <2> DEFINE S == Seq(Nat)
  <2>1. r.work \in Seq(S) BY <1>1
  <2> HIDE DEF S
  <2>2. 1 \in 1..Len(r.work) /\ 1 \in DOMAIN r.work BY <1>1, <2>1, EmptySeq, LenProperties
  <2>3. r.work[1] \in S BY <2>1, <2>2, ElementOfSeq
  <2>4. r.work[1] # <<>> BY <2>2 DEF QueueOK
  <2>5. PICK b : b = r.work[1] OBVIOUS
  <2>6. b \in Seq(Nat) /\ b # <<>> BY <2>3, <2>4, <2>5 DEF S
  <2>7. 1 \in DOMAIN b BY <2>6, EmptySeq, LenProperties
  <2>8. b[1] \in ToSet(b) BY <2>7 DEF ToSet
  <2> QED BY <2>5, <2>8
<1> QED BY <1>2, <1>3

\* Every step keeps the turns in their order.
LEMMA TurnsStep == ASSUME IInv, Moves0 PROVE TurnsFollow'
<1>1. born \in Nat /\ \A k \in Callers : Held(k) \subseteq 1..born
  BY DEF IInv, DeliveryTypeOK, HeldOnce
<1>2. \A t \in Turns : t \in Callers /\ t # Late BY DEF Turns
<1>3. TurnsFollow /\ PhaseMoves /\ DrainsMove /\ leftover \subseteq leftover' /\ Late \in Callers
  BY DeliveryAssumption DEF IInv, Moves0, LogMoves
<1>4. CASE QueuesShrink
  <2>1. \A k \in Callers : Holds(q'[k]) \subseteq Held(k) BY <1>4 DEF QueuesShrink, Shrinks
  <2>2. ASSUME NEW t \in Turns PROVE
          /\ phase'[t] = "no" => Holds(q'[t]) = {} /\ drain'[Prior(t)].st = "no"
          /\ phase'[t] = "gone" => Holds(q'[t]) \subseteq leftover'
    <3>1. Holds(q'[t]) \subseteq Held(t) BY <1>2, <2>1
    <3>2. phase'[t] = "no" => Holds(q'[t]) = {} /\ drain'[Prior(t)].st = "no"
      BY <1>3, <3>1 DEF PhaseMoves, TurnsFollow, DrainsMove
    <3>3. phase'[t] = "gone" => Holds(q'[t]) \subseteq leftover'
      BY <1>3, <3>1 DEF PhaseMoves, TurnsFollow
    <3> QED BY <3>2, <3>3
  <2>3. ASSUME NEW t \in Turns, q'[t].step \in {"flush", "deliver"} PROVE drain'[Prior(t)].st = "ok"
    <3>1. CASE q'[t].step = q[t].step
      <4>1. Held(t) # {}
        <5>1. QueueOK(q[t]) /\ q[t].step # "idle" BY <1>2, <2>3, <3>1 DEF IInv, DeliveryTypeOK
        <5> QED BY <5>1, AtWork DEF Held
      <4>2. phase[t] # "no" /\ drain[Prior(t)].st = "ok" BY <1>3, <2>3, <3>1, <4>1 DEF TurnsFollow
      <4> QED BY <1>3, <4>2 DEF DrainsMove
    <3>2. CASE flushBegins(t) BY <1>2, <3>2 DEF flushBegins, PriorAwaited, PriorSettled, PriorFailed
    <3>3. CASE flushResolves(t)
      <4>1. q[t].step = "flush" /\ drain' = drain BY <3>3 DEF flushResolves
      <4> QED BY <1>3, <4>1 DEF TurnsFollow
    <3> QED BY <1>2, <1>4, <2>3, <3>1, <3>2, <3>3 DEF QueuesShrink, Shrinks
  <2>4. ASSUME NEW t \in Turns, drain'[Prior(t)].st = "ok"
        PROVE  Precedes(Holds(q'[t]), Holds(q'[Late])) /\ (Observes(t)' => Holds(q'[Late]) = {})
    <3>1. CASE Holds(q'[Late]) = {} BY <3>1 DEF Precedes
    <3>2. CASE drain[Prior(t)].st = "ok" /\ Holds(q'[Late]) # {}
      <4>1. Held(Late) # {} /\ Precedes(Held(t), Held(Late)) /\ ~Observes(t)
        BY <1>3, <2>1, <3>2 DEF TurnsFollow
      <4>2. Precedes(Holds(q'[t]), Holds(q'[Late])) BY <1>2, <1>3, <2>1, <4>1 DEF Precedes
      <4>3. ~Observes(t)'
        <5>1. ASSUME Observes(t)' PROVE FALSE
          <6>1. phase[t] = "no" BY <1>3, <4>1, <5>1 DEF PhaseMoves
          <6> QED BY <1>3, <3>2, <6>1 DEF TurnsFollow
        <5> QED BY <5>1
      <4> QED BY <4>2, <4>3
    <3> QED BY <1>3, <2>4, <3>1, <3>2 DEF DrainsMove
  <2>5. ASSUME NEW t \in Turns, Observes(t)'
        PROVE  /\ Precedes(Holds(q'[Late]), Holds(q'[t]))
               /\ \A u \in Turns : phase'[u] = "gone" => Precedes(Holds(q'[u]), Holds(q'[t]))
    <3>1. CASE Held(t) = {} BY <1>2, <2>1, <3>1 DEF Precedes
    <3>2. CASE Held(t) # {}
      <4>1. Observes(t) BY <1>3, <2>5, <3>2 DEF PhaseMoves, TurnsFollow
      <4>2. Precedes(Held(Late), Held(t)) BY <1>3, <4>1 DEF TurnsFollow
      <4>3. ASSUME NEW u \in Turns, phase'[u] = "gone" PROVE Precedes(Held(u), Held(t))
        <5>1. CASE phase[u] = "gone" BY <1>3, <4>1, <5>1 DEF TurnsFollow
        <5>2. CASE phase[u] = "finally"
          <6>1. Observes(u) BY <5>2 DEF Observes
          <6>2. u = t BY <1>3, <4>1, <6>1 DEF TurnsFollow
          <6> QED BY <2>5, <4>3, <6>2 DEF Observes
        <5> QED BY <1>3, <4>3, <5>1, <5>2 DEF PhaseMoves
      <4> QED BY <1>2, <1>3, <2>1, <4>2, <4>3 DEF Precedes
    <3> QED BY <3>1, <3>2
  <2>6. Holds(q'[Late]) # {} => lateOpen'
    BY <1>3, <2>1 DEF TurnsFollow, Moves0, ListsMove, IInv, DeliveryTypeOK
  <2> QED BY <1>3, <2>2, <2>3, <2>4, <2>5, <2>6 DEF TurnsFollow, PhaseMoves, Held, Observes
<1>5. ASSUME emit, NEW k, NEW r, TakesOver(k, r) PROVE TurnsFollow'
  <2>1. phase' = phase /\ drain' = drain /\ leftover' = leftover BY <1>5 DEF emit
  <2>2. /\ \A l \in Callers : /\ Holds(q'[l]) \subseteq Held(l) \cup {born + 1}
                              /\ Holds(q'[l]) = Held(l) \/ l = k
                              /\ q'[l].step \in {"flush", "deliver"} => q'[l].step = q[l].step
    BY <1>5, TakesEach DEF IInv
  <2>3. /\ k \in Callers /\ ((k = Late /\ Observing = {}) \/ k \in Observing)
        /\ lateOpen' = (lateOpen \/ k = Late)
    BY <1>5 DEF TakesOver
  <2>4. \A t \in Turns : Observes(t) => t = k /\ Holds(q'[Late]) = Held(Late)
    BY <1>2, <1>3, <2>2, <2>3 DEF TurnsFollow, Observing, Observes
  <2>5. ASSUME NEW t \in Turns PROVE
          /\ phase[t] = "no" => Holds(q'[t]) = {} /\ drain[Prior(t)].st = "no"
          /\ phase[t] = "gone" => Holds(q'[t]) = Held(t) /\ Holds(q'[t]) \subseteq leftover
    BY <1>2, <1>3, <2>2, <2>3 DEF TurnsFollow, Observing
  <2>6. ASSUME NEW t \in Turns, drain[Prior(t)].st = "ok"
        PROVE  Precedes(Holds(q'[t]), Holds(q'[Late])) /\ (Observes(t) => Holds(q'[Late]) = {})
    <3>1. CASE k = Late
      <4>1. Holds(q'[t]) = Held(t) /\ Holds(q'[Late]) \subseteq Held(Late) \cup {born + 1} /\ ~Observes(t)
        BY <1>2, <1>3, <2>2, <2>4, <3>1
      <4>2. Precedes(Held(t), Held(Late)) /\ \A e \in Held(t) : e < born + 1
        BY <1>1, <1>2, <1>3, <2>6 DEF TurnsFollow
      <4> QED BY <4>1, <4>2 DEF Precedes
    <3>2. CASE k # Late /\ Observes(t)
      <4>1. Holds(q'[Late]) = {} BY <1>3, <2>4, <2>6, <3>2 DEF TurnsFollow
      <4> QED BY <4>1 DEF Precedes
    <3>3. CASE k # Late /\ ~Observes(t)
      <4>1. t # k BY <2>3, <3>3 DEF Observing, Observes
      <4>2. Holds(q'[t]) = Held(t) /\ Holds(q'[Late]) = Held(Late) BY <1>2, <1>3, <2>2, <3>3, <4>1
      <4> QED BY <1>3, <2>6, <3>3, <4>2 DEF TurnsFollow
    <3> QED BY <3>1, <3>2, <3>3
  <2>7. ASSUME NEW t \in Turns, Observes(t)
        PROVE  /\ Precedes(Holds(q'[Late]), Holds(q'[t]))
               /\ \A u \in Turns : phase[u] = "gone" => Precedes(Holds(q'[u]), Holds(q'[t]))
    <3>1. Holds(q'[Late]) = Held(Late) /\ Holds(q'[t]) \subseteq Held(t) \cup {born + 1} /\ Precedes(Held(Late), Held(t))
      BY <1>2, <1>3, <2>2, <2>4, <2>7 DEF TurnsFollow
    <3>2. Precedes(Holds(q'[Late]), Holds(q'[t])) BY <1>1, <1>3, <3>1 DEF Precedes
    <3>3. ASSUME NEW u \in Turns, phase[u] = "gone" PROVE Precedes(Holds(q'[u]), Holds(q'[t]))
      <4>1. Holds(q'[u]) = Held(u) /\ Precedes(Held(u), Held(t)) /\ Held(u) \subseteq 1..born
        BY <1>1, <1>2, <1>3, <2>5, <2>7, <3>3 DEF TurnsFollow
      <4> QED BY <1>1, <3>1, <4>1 DEF Precedes
    <3> QED BY <3>2, <3>3
  <2>8. Holds(q'[Late]) # {} => lateOpen' BY <1>3, <2>2, <2>3 DEF TurnsFollow
  <2>9. \A t \in Turns : q'[t].step \in {"flush", "deliver"} => drain[Prior(t)].st = "ok"
    BY <1>2, <1>3, <2>2 DEF TurnsFollow
  <2> QED BY <1>3, <2>1, <2>5, <2>6, <2>7, <2>8, <2>9 DEF TurnsFollow, Held, Observes
<1> QED BY <1>4, <1>5 DEF Moves0

\* Whatever is sent is older than all that waits, but for what is left over.
LEMMA SentBefore ==
    ASSUME IInv, NEW k \in Callers, deliver(k), NEW b, NEW r, Sends(k, b, r), QueuesShrink
    PROVE  \A l \in Callers : \A e \in Holds(q'[l]) \ leftover, d \in ToSet(b) : d < e
<1>1. TurnsFollow /\ q[k].step = "deliver" BY DEF IInv, deliver
<1>2. ToSet(b) \subseteq Held(k) /\ Precedes(ToSet(b), Holds(r)) /\ q'[k] = r
  BY DEF Sends, IInv, DeliveryTypeOK
<1>3. \A l \in Callers : Holds(q'[l]) \subseteq Held(l) BY DEF QueuesShrink, Shrinks
<1>4. \A t \in Callers : t = Late \/ t \in Turns BY DEF Turns
<1>5. \A t \in Turns : phase[t] = "no" \/ phase[t] = "gone" \/ Observes(t) BY DEF Observes
<1> SUFFICES ASSUME NEW l \in Callers, NEW e \in Holds(q'[l]) \ leftover, NEW d \in ToSet(b) PROVE d < e
  OBVIOUS
<1>6. CASE l = k BY <1>2, <1>6 DEF Precedes
<1>7. CASE l # k /\ k = Late
  <2>1. l \in Turns /\ e \in Held(l) BY <1>3, <1>4, <1>7
  <2>2. Observes(l) BY <1>1, <1>5, <2>1 DEF TurnsFollow
  <2>3. Precedes(Held(Late), Held(l)) BY <1>1, <2>1, <2>2 DEF TurnsFollow
  <2> QED BY <1>2, <1>7, <2>1, <2>3 DEF Precedes
<1>8. CASE l = Late /\ k # Late
  <2>1. k \in Turns BY <1>4, <1>8
  <2>2. Precedes(Held(k), Held(Late)) BY <1>1, <2>1 DEF TurnsFollow
  <2> QED BY <1>2, <1>3, <1>8, <2>2 DEF Precedes
<1>9. CASE l # k /\ l # Late /\ k # Late
  <2>1. l \in Turns /\ k \in Turns /\ e \in Held(l) BY <1>3, <1>4, <1>9
  <2>2. Observes(l) BY <1>1, <1>5, <2>1 DEF TurnsFollow
  <2>3. phase[k] = "gone" \/ d \notin Held(k) BY <1>1, <1>5, <1>9, <2>1, <2>2 DEF TurnsFollow
  <2>4. Precedes(Held(k), Held(l)) BY <1>1, <1>2, <2>1, <2>2, <2>3 DEF TurnsFollow
  <2> QED BY <1>2, <2>1, <2>4 DEF Precedes
<1> QED BY <1>6, <1>7, <1>8, <1>9

\* Every step keeps what is sent in order, but for what was left over.
LEMMA OrderStep == ASSUME IInv, Moves0 PROVE SentInOrder'
<1>1. /\ born \in Nat /\ delivered \in Seq(Nat) /\ ToSet(delivered) \subseteq 1..born /\ leftover \subseteq leftover'
      /\ \A k \in Callers : Holds(q'[k]) \subseteq Held(k) \cup (1..born' \ 1..born)
  BY StepHolds DEF IInv, DeliveryTypeOK, Moves0, LogMoves
<1>2. \A k \in Callers : Held(k) \subseteq 1..born /\ Held(k) \cap ToSet(delivered) = {}
  BY DEF IInv, HeldOnce
<1>3. /\ \A k \in Callers : \A e \in Held(k) \ leftover, d \in ToSet(delivered) : d < e
      /\ Overtakes(delivered, leftover)
  BY DEF IInv, SentInOrder, OvertakenIsLeftover, Overtakes
<1>4. CASE delivered' = delivered
  <2>1. ASSUME NEW k \in Callers, NEW e \in Holds(q'[k]) \ leftover', NEW d \in ToSet(delivered) PROVE d < e
    <3>1. CASE e \in Held(k) BY <1>1, <1>3, <3>1
    <3>2. CASE e \in 1..born' \ 1..born
      <4>1. d \in 1..born /\ born' \in Nat BY <1>1 DEF Moves0, LogMoves
      <4> QED BY <1>1, <3>2, <4>1
    <3> QED BY <1>1, <3>1, <3>2
  <2>2. Overtakes(delivered, leftover') BY <1>1, <1>3 DEF Overtakes
  <2> QED BY <1>4, <2>1, <2>2 DEF SentInOrder, OvertakenIsLeftover, Overtakes, Held
<1>5. CASE delivered' # delivered
  <2>0. PICK k \in Callers : \E b, r : deliver(k) /\ Sends(k, b, r) /\ born' = born /\ leftover' = leftover /\ QueuesShrink
    BY <1>5, StepSent
  <2>1. PICK b, r : deliver(k) /\ Sends(k, b, r) /\ born' = born /\ leftover' = leftover /\ QueuesShrink
    BY <2>0
  <2>2. /\ b \in Seq(Nat) /\ Rising(b) /\ ToSet(b) \subseteq Held(k) /\ delivered' = delivered \o b
    BY <2>1 DEF Sends
  <2>3. \A d \in ToSet(delivered), e \in ToSet(b) : d < e \/ (d # e /\ e \in leftover)
    BY <1>2, <1>3, <2>2
  <2>4. Overtakes(delivered', leftover) /\ ToSet(delivered') = ToSet(delivered) \cup ToSet(b)
    BY <1>1, <1>3, <2>2, <2>3, SendBehind
  <2>5. \A l \in Callers : \A e \in Holds(q'[l]) \ leftover, d \in ToSet(b) : d < e
    BY <2>1, SentBefore
  <2>6. \A l \in Callers : Holds(q'[l]) \subseteq Held(l) BY <2>1 DEF QueuesShrink, Shrinks
  <2>7. \A l \in Callers : \A e \in Holds(q'[l]) \ leftover, d \in ToSet(delivered') : d < e
    BY <1>3, <2>4, <2>5, <2>6
  <2> QED BY <2>1, <2>4, <2>7 DEF SentInOrder, OvertakenIsLeftover, Overtakes, Held
<1> QED BY <1>4, <1>5

----------------------------------------
(* The baseline. *)

\* Who looks at the baseline, and who takes it.
LEMMA BaselineSteps ==
    ASSUME Next
    PROVE  /\ baseline' = baseline \/ baselineGoesOn
           /\ mux' = mux \/ mux' = None \/ withMuxBaseline
<1>1. ASSUME NEW k \in Callers,
             timerFires(k) \/ flushBegins(k) \/ flushResolves(k) \/ flushRejects(k) \/ priorRejects(k) \/ deliver(k)
      PROVE  baseline' = baseline /\ mux' = mux
  BY <1>1 DEF timerFires, flushBegins, flushResolves, flushRejects, priorRejects, deliver, QueueFails
<1>2. ASSUME NEW d \in Drains, DrainGoesOn(d) PROVE baseline' = baseline /\ mux' = mux
  BY <1>2 DEF DrainGoesOn
<1>3. ASSUME NEW t \in Turns, runAgentTurn(t) \/ turnCloses(t) \/ turnEnds(t) \/ stopObserving(t)
      PROVE  baseline' = baseline /\ mux' = mux
  BY <1>3 DEF runAgentTurn, turnCloses, turnEnds, DrainOwn, stopObserving
<1>4. ASSUME emit \/ attach \/ detach \/ Persistence PROVE baseline' = baseline /\ mux' = mux
  BY <1>4 DEF emit, attach, detach, Persistence, deliveryVars
<1>5. ASSUME withMuxBaseline \/ baselineFails \/ baselineGoesOn
      PROVE  /\ baseline' = baseline \/ baselineGoesOn
             /\ mux' = None \/ withMuxBaseline
  BY <1>5 DEF withMuxBaseline, baselineFails, baselineGoesOn
<1> QED BY <1>1, <1>2, <1>3, <1>4, <1>5 DEF Next

\* All drains are through and no revision moved: no queue has anything.
LEMMA StableIsEmpty ==
    ASSUME IInv, baselineGoesOn, Stable PROVE \A k \in Callers : Held(k) = {}
<1>1. /\ mux # None /\ baseline = None
      /\ \A k \in Callers \ unsettled : Held(k) = {}
      /\ \A k \in DOMAIN mux.deliveries :
            /\ k \in Callers /\ drain[Base(k)].st # "no"
            /\ drain[Base(k)].st = "ok" /\ mux.deliveries[k] = q[k].revision => Held(k) = {}
  BY DEF baselineGoesOn, IInv, BaselineIsExact
<1>2. mux.deliveries = [k \in unsettled |-> q[k].revision] BY DEF Stable, Snapshot
<1>3. ASSUME NEW k \in unsettled PROVE Held(k) = {}
  <2>1. k \in DOMAIN mux.deliveries /\ mux.deliveries[k] = q[k].revision /\ k \in Callers
    BY <1>1, <1>2
  <2>2. Base(k) \in Asked BY <1>1, <2>1, DrainNames DEF Asked
  <2>3. drain[Base(k)].st = "ok" BY <2>2 DEF baselineGoesOn
  <2> QED BY <1>1, <2>1, <2>3
<1> QED BY <1>1, <1>3

\* Every step keeps the baseline exact: it has been sent what its boundary counts.
LEMMA BaselineStep == ASSUME IInv, Next, Moves0 PROVE BaselineIsExact'
<1>1. /\ born \in Nat /\ born' \in Nat /\ born <= born' /\ delivered \in Seq(Nat) /\ ToSet(delivered) \subseteq 1..born
      /\ Len(delivered) \in Nat /\ DOMAIN delivered = 1..Len(delivered)
      /\ \A k \in Callers : Holds(q'[k]) \subseteq Held(k) \cup (1..born' \ 1..born)
  BY StepHolds, LenProperties DEF IInv, DeliveryTypeOK, Moves0, LogMoves
<1>2. BaselineIsExact BY DEF IInv
<1>3. baseline' = None => \A k \in Callers \ unsettled' : Holds(q'[k]) = {}
  <2>1. CASE baselineGoesOn
    <3>1. q' = q BY <2>1 DEF baselineGoesOn
    <3>2. CASE Stable BY <2>1, <3>1, <3>2, StableIsEmpty DEF Held
    <3>3. CASE ~Stable
      <4>1. baseline' = baseline /\ unsettled' = unsettled BY <2>1, <3>3 DEF baselineGoesOn
      <4> QED BY <1>2, <3>1, <4>1 DEF BaselineIsExact, Held
    <3> QED BY <3>2, <3>3
  <2>2. CASE ~baselineGoesOn
    <3> SUFFICES ASSUME baseline' = None, NEW k \in Callers \ unsettled' PROVE Holds(q'[k]) = {}
      OBVIOUS
    <3>1. baseline = None BY <2>2, BaselineSteps
    <3>2. CASE k \in unsettled BY <2>2, <3>2 DEF Moves0, ListsMove
    <3>3. CASE k \notin unsettled
      <4>1. Held(k) = {} BY <1>2, <3>1, <3>3 DEF BaselineIsExact
      <4>2. CASE QueuesShrink BY <4>1, <4>2 DEF QueuesShrink, Shrinks
      <4>3. ASSUME NEW c, NEW r, TakesOver(c, r) PROVE Holds(q'[k]) = {}
        <5>1. k # c BY <4>3 DEF TakesOver
        <5> QED BY <4>1, <4>3, <5>1, TakesEach DEF IInv
      <4> QED BY <4>2, <4>3 DEF Moves0
    <3> QED BY <3>2, <3>3
  <2> QED BY <2>1, <2>2
<1>4. ASSUME mux' # None
      PROVE  /\ baseline' = None
             /\ \A k \in DOMAIN mux'.deliveries :
                   /\ k \in Callers /\ drain'[Base(k)].st # "no"
                   /\ mux'.deliveries[k] \in Nat /\ mux'.deliveries[k] <= q'[k].revision
                   /\ drain'[Base(k)].st = "ok" /\ mux'.deliveries[k] = q'[k].revision => Holds(q'[k]) = {}
  <2>1. CASE withMuxBaseline
    <3>1. baseline' = None /\ mux' = Snapshot /\ QueuesShrink
      <4>1. delivered' = delivered /\ mux' = Snapshot /\ baseline' = None /\ born' = born
        BY <2>1 DEF withMuxBaseline, barrierVars
      <4>2. ~emit BY <4>1, <1>1 DEF emit, Emit
      <4> QED BY <4>1, <4>2 DEF Moves0
    <3>2. mux'.deliveries = [k \in unsettled |-> q[k].revision] BY <3>1 DEF Snapshot
    <3>3. unsettled \subseteq Callers /\ \A k \in Callers : QueueOK(q[k])
      BY DEF IInv, DeliveryTypeOK
    <3>4. \A k \in unsettled : drain'[Base(k)] = DrainOf(q'[k])
      BY <2>1, <3>3, DrainNames DEF withMuxBaseline
    <3>5. ASSUME NEW k \in unsettled
          PROVE  /\ k \in Callers /\ drain'[Base(k)].st = "waits"
                 /\ mux'.deliveries[k] \in Nat /\ mux'.deliveries[k] = q'[k].revision
      <4>1. q'[k].revision = q[k].revision BY <3>1, <3>3 DEF QueuesShrink, Shrinks
      <4>2. q[k].revision \in Nat BY <3>3 DEF QueueOK, Queues
      <4>3. mux'.deliveries[k] = q[k].revision BY <3>2
      <4>4. drain'[Base(k)] = DrainOf(q'[k]) BY <3>4
      <4>5. DrainOf(q'[k]).st = "waits" BY <3>1, <3>3, DrainBegins DEF QueuesShrink, Shrinks
      <4> QED BY <3>3, <4>1, <4>2, <4>3, <4>4, <4>5
    <3> QED BY <3>1, <3>2, <3>5
  <2>2. CASE ~withMuxBaseline
    <3>1. mux' = mux /\ ~baselineGoesOn BY <1>4, <2>2, BaselineSteps DEF baselineGoesOn
    <3>2. baseline' = baseline BY <3>1, BaselineSteps
    <3>3. mux # None BY <1>4, <3>1
    <3>4. ASSUME NEW k \in DOMAIN mux.deliveries
          PROVE  /\ k \in Callers /\ drain'[Base(k)].st # "no"
                 /\ mux.deliveries[k] \in Nat /\ mux.deliveries[k] <= q'[k].revision
                 /\ drain'[Base(k)].st = "ok" /\ mux.deliveries[k] = q'[k].revision => Holds(q'[k]) = {}
      <4>1. /\ k \in Callers /\ drain[Base(k)].st # "no"
            /\ mux.deliveries[k] \in Nat /\ mux.deliveries[k] <= q[k].revision
            /\ drain[Base(k)].st = "ok" /\ mux.deliveries[k] = q[k].revision => Held(k) = {}
        BY <1>2, <3>3 DEF BaselineIsExact
      <4>2. drain'[Base(k)].st # "no" /\ (drain'[Base(k)].st = "ok" => drain[Base(k)].st = "ok" \/ Holds(q'[k]) = {})
        BY <1>4, <4>1 DEF Moves0, DrainsMove
      <4>3. q[k].revision \in Nat /\ q'[k].revision \in Nat
        BY <4>1, StepHolds DEF IInv, DeliveryTypeOK, QueueOK, Queues
      <4>4. /\ q'[k].revision >= q[k].revision
            /\ Holds(q'[k]) \subseteq Held(k) \/ q'[k].revision > q[k].revision
        <5>1. CASE QueuesShrink BY <4>1, <4>3, <5>1 DEF QueuesShrink, Shrinks
        <5>2. ASSUME NEW c, NEW r, TakesOver(c, r)
              PROVE  /\ q'[k].revision >= q[k].revision
                     /\ Holds(q'[k]) \subseteq Held(k) \/ q'[k].revision > q[k].revision
          BY <4>1, <5>2, TakesEach DEF IInv
        <5> QED BY <5>1, <5>2 DEF Moves0
      <4> QED BY <4>1, <4>2, <4>3, <4>4
    <3> QED BY <1>2, <3>1, <3>2, <3>3, <3>4 DEF BaselineIsExact
  <2> QED BY <2>1, <2>2
<1>5. ASSUME baseline' # None
      PROVE  /\ baseline'.covers \subseteq 1..born' /\ baseline'.at \in 0..Len(delivered')
             /\ \A k \in Callers : Holds(q'[k]) \cap baseline'.covers = {}
             /\ \A i \in (baseline'.at + 1)..Len(delivered') : delivered'[i] \notin baseline'.covers
  <2>1. CASE baselineGoesOn /\ Stable
    <3>1. /\ baseline' = [covers |-> IF attached THEN ToSet(mem) ELSE stored, at |-> Len(delivered)]
          /\ delivered' = delivered /\ q' = q /\ born' = born
      BY <2>1 DEF baselineGoesOn, barrierVars
    <3>2. baseline'.covers \subseteq 1..born' /\ baseline'.at = Len(delivered)
      BY <3>1 DEF IInv, DeliveryTypeOK
    <3>3. \A k \in Callers : Holds(q'[k]) = {} BY <2>1, <3>1, StableIsEmpty DEF Held
    <3>4. PICK covers, at : covers = baseline'.covers /\ at = baseline'.at OBVIOUS
    <3>5. at \in 0..Len(delivered') /\ (at + 1)..Len(delivered') = {} BY <1>1, <3>1, <3>2, <3>4
    <3>6. covers \subseteq 1..born' /\ \A k \in Callers : Holds(q'[k]) \cap covers = {}
      BY <3>2, <3>3, <3>4
    <3> QED BY <3>4, <3>5, <3>6
  <2>2. CASE ~(baselineGoesOn /\ Stable)
    <3>1. baseline' = baseline BY <2>2, BaselineSteps DEF baselineGoesOn
    <3>2. PICK covers, at : covers = baseline.covers /\ at = baseline.at OBVIOUS
    <3>3. /\ covers \subseteq 1..born /\ at \in 0..Len(delivered)
          /\ \A k \in Callers : Held(k) \cap covers = {}
          /\ \A i \in (at + 1)..Len(delivered) : delivered[i] \notin covers
      BY <1>2, <1>5, <3>1, <3>2 DEF BaselineIsExact, BaselineBoundary
    <3>4. covers \subseteq 1..born' /\ \A k \in Callers : Holds(q'[k]) \cap covers = {}
      BY <1>1, <3>3
    <3>5. at \in 0..Len(delivered') /\ \A i \in (at + 1)..Len(delivered') : delivered'[i] \notin covers
      <4>1. CASE delivered' = delivered BY <3>3, <4>1
      <4>2. CASE delivered' # delivered
        <5>0. PICK k \in Callers : \E b, r : Sends(k, b, r) BY <4>2, StepSent
        <5>1. PICK b, r : Sends(k, b, r) BY <5>0
        <5>2. b \in Seq(Nat) /\ Rising(b) /\ ToSet(b) \subseteq Held(k) /\ delivered' = delivered \o b
          BY <5>1 DEF Sends
        <5>3. Overtakes(delivered, leftover) /\ \A d \in ToSet(delivered), e \in ToSet(b) : d < e \/ (d # e /\ e \in leftover)
          BY <5>2 DEF IInv, HeldOnce, SentInOrder, OvertakenIsLeftover, Overtakes
        <5>4. /\ Len(delivered') \in Nat /\ Len(delivered) <= Len(delivered')
              /\ \A i \in 1..Len(delivered) : delivered'[i] = delivered[i]
              /\ \A i \in (Len(delivered) + 1)..Len(delivered') : delivered'[i] \in ToSet(b)
          BY <1>1, <5>2, <5>3, SendBehind
        <5>5. \A e \in ToSet(b) : e \notin covers BY <3>3, <5>2
        <5>6. \A i \in (at + 1)..Len(delivered') : i \in (at + 1)..Len(delivered) \/ i \in (Len(delivered) + 1)..Len(delivered')
          BY <1>1, <3>3, <5>4
        <5>7. \A i \in (at + 1)..Len(delivered) : i \in 1..Len(delivered) BY <1>1, <3>3
        <5> QED BY <1>1, <3>3, <5>4, <5>5, <5>6, <5>7
      <4> QED BY <4>1, <4>2
    <3> QED BY <3>1, <3>2, <3>4, <3>5
  <2> QED BY <2>1, <2>2
<1> QED BY <1>3, <1>4, <1>5 DEF BaselineIsExact, BaselineBoundary, Held

----------------------------------------
(* What a flush owes. *)

\* Every step keeps what flushes owe.
LEMMA FlushStep == ASSUME IInv, Moves0 PROVE FlushOwes'
<1>1. /\ FlushOwes /\ LogMoves /\ PromisesMove
      /\ stored \subseteq stored' /\ unsaved \subseteq unsaved' /\ attached \in BOOLEAN
      /\ \A k \in Callers : QueueOK(q[k])
  BY DEF IInv, Moves0, LogMoves, DeliveryTypeOK
<1>2. ASSUME NEW k \in Callers, NEW e \in Held(k)
      PROVE  (attached' /\ e \in ToSet(mem')) \/ e \in stored' \cup unsaved'
  BY <1>1, <1>2 DEF FlushOwes, LogMoves
<1>3. ASSUME NEW k \in Callers, NEW e \in Holds(q'[k])
      PROVE  (attached' /\ e \in ToSet(mem')) \/ e \in stored' \cup unsaved'
  <2>1. CASE QueuesShrink BY <1>2, <1>3, <2>1 DEF QueuesShrink, Shrinks
  <2>2. ASSUME emit, NEW c, NEW r, TakesOver(c, r)
        PROVE  (attached' /\ e \in ToSet(mem')) \/ e \in stored' \cup unsaved'
    <3>1. e \in Held(k) \/ e = born + 1 BY <1>3, <2>2, TakesEach DEF IInv
    <3>2. attached' /\ born + 1 \in ToSet(mem') BY <2>2, EmitMoves DEF IInv
    <3> QED BY <1>2, <3>1, <3>2
  <2> QED BY <2>1, <2>2 DEF Moves0
<1>4. ASSUME NEW k \in Callers, promise'[k] # None, promise'[k].st = "resolved"
      PROVE  promise'[k].owed \subseteq stored'
  BY <1>1, <1>4 DEF PromisesMove, PromiseMoves, FlushOwes
\* The batch at work is the one it was.
<1>5. ASSUME NEW k \in Callers, q'[k].step \in {"flush", "deliver"}, q'[k].step = q[k].step,
             ToSet(q'[k].work[1]) \subseteq ToSet(q[k].work[1])
      PROVE  /\ q'[k].step = "flush" /\ promise'[k] # None =>
                    ToSet(q'[k].work[1]) \subseteq promise'[k].owed \cup stored' \cup unsaved'
             /\ q'[k].step = "deliver" => ToSet(q'[k].work[1]) \subseteq stored' \cup unsaved'
  <2>1. ASSUME q'[k].step = "flush", promise'[k] # None
        PROVE  ToSet(q'[k].work[1]) \subseteq promise'[k].owed \cup stored' \cup unsaved'
    <3>1. ~flushBegins(k) BY <1>5, <2>1 DEF flushBegins
    <3>2. promise[k] # None /\ promise'[k].owed = promise[k].owed
      BY <1>1, <2>1, <3>1 DEF PromisesMove, PromiseMoves
    <3>3. ToSet(q[k].work[1]) \subseteq promise[k].owed \cup stored \cup unsaved
      BY <1>1, <1>5, <2>1, <3>2 DEF FlushOwes
    <3> QED BY <1>1, <1>5, <3>2, <3>3
  <2>2. ASSUME q'[k].step = "deliver" PROVE ToSet(q'[k].work[1]) \subseteq stored' \cup unsaved'
    <3>1. ToSet(q[k].work[1]) \subseteq stored \cup unsaved BY <1>1, <1>5, <2>2 DEF FlushOwes
    <3> QED BY <1>1, <1>5, <3>1
  <2> QED BY <2>1, <2>2
\* A flush begins: it owes what the live session has; the rest was stored.
<1>6. ASSUME NEW k \in Callers, flushBegins(k), ToSet(q'[k].work[1]) \subseteq ToSet(q[k].work[1])
      PROVE  ToSet(q'[k].work[1]) \subseteq promise'[k].owed \cup stored' \cup unsaved'
  <2>1. q[k].step = "start" /\ promise' = [promise EXCEPT ![k] =
                     [owed |-> IF attached THEN ToSet(mem) ELSE {}, st |-> "waiting"]]
    BY <1>6 DEF flushBegins, Call
  <2>2. promise'[k].owed = IF attached THEN ToSet(mem) ELSE {} BY <2>1 DEF IInv, DeliveryTypeOK
  <2>3. q[k].work # <<>> BY <1>1, <2>1 DEF QueueOK
  <2>4. ToSet(q[k].work[1]) \subseteq Held(k) BY <1>1, <2>3, BatchLeaves DEF Held
  <2>5. \A e \in Held(k) : (attached /\ e \in ToSet(mem)) \/ e \in stored \cup unsaved
    BY <1>1 DEF FlushOwes
  <2>6. \A e \in Held(k) : e \in promise'[k].owed \cup stored' \cup unsaved' BY <1>1, <2>2, <2>5
  <2> QED BY <1>6, <2>4, <2>6
\* A flush is over: what it owed is in the log.
<1>7. ASSUME NEW k \in Callers, flushResolves(k), ToSet(q'[k].work[1]) \subseteq ToSet(q[k].work[1])
      PROVE  ToSet(q'[k].work[1]) \subseteq stored' \cup unsaved'
  <2>1. q[k].step = "flush" /\ promise[k] # None /\ promise[k].st = "resolved"
    BY <1>7 DEF flushResolves, FlushSucceeded, Return
  <2>2. /\ ToSet(q[k].work[1]) \subseteq promise[k].owed \cup stored \cup unsaved
        /\ promise[k].owed \subseteq stored
    BY <1>1, <2>1 DEF FlushOwes
  <2> QED BY <1>1, <1>7, <2>2
<1>8. ASSUME NEW k \in Callers
      PROVE  /\ q'[k].step = "flush" /\ promise'[k] # None =>
                    ToSet(q'[k].work[1]) \subseteq promise'[k].owed \cup stored' \cup unsaved'
             /\ q'[k].step = "deliver" => ToSet(q'[k].work[1]) \subseteq stored' \cup unsaved'
  <2>1. CASE q'[k].step \notin {"flush", "deliver"} BY <2>1
  <2>2. CASE q'[k].step \in {"flush", "deliver"}
    <3>1. CASE QueuesShrink
      <4>1. /\ ToSet(q'[k].work[1]) \subseteq ToSet(q[k].work[1])
            /\ \/ q'[k].step = q[k].step
               \/ q'[k].step = "flush" /\ flushBegins(k)
               \/ q'[k].step = "deliver" /\ flushResolves(k)
        BY <2>2, <3>1 DEF QueuesShrink, Shrinks
      <4> QED BY <1>5, <1>6, <1>7, <2>2, <4>1
    <3>2. ASSUME NEW c, NEW r, TakesOver(c, r)
          PROVE  q'[k].step = q[k].step /\ ToSet(q'[k].work[1]) \subseteq ToSet(q[k].work[1])
      BY <2>2, <3>2, TakesEach DEF IInv
    <3> QED BY <1>5, <2>2, <3>1, <3>2 DEF Moves0
  <2> QED BY <2>1, <2>2
<1> QED BY <1>3, <1>4, <1>8 DEF FlushOwes, Held

----------------------------------------
(* The theorems. *)

\* Every step keeps the invariant.
LEMMA NextInvariant == ASSUME IInv, Next PROVE IInv'
  BY StepMoves, TypeStep, HeldStep, TurnsStep, OrderStep, BaselineStep, FlushStep DEF IInv

\* A stuttering step keeps the invariant.
LEMMA StutterInvariant == ASSUME IInv, UNCHANGED <<barrierVars, deliveryVars>> PROVE IInv'
<1>1. /\ born' = born /\ stored' = stored /\ attached' = attached /\ mem' = mem /\ promise' = promise
      /\ q' = q /\ lateOpen' = lateOpen /\ unsettled' = unsettled /\ drain' = drain /\ phase' = phase
      /\ mux' = mux /\ delivered' = delivered /\ baseline' = baseline /\ unsaved' = unsaved /\ leftover' = leftover
      /\ lives' = lives
  BY DEF barrierVars, deliveryVars
<1>2. DeliveryTypeOK' BY <1>1 DEF IInv, DeliveryTypeOK
<1>3. HeldOnce' BY <1>1 DEF IInv, HeldOnce, Held
<1>4. TurnsFollow' BY <1>1 DEF IInv, TurnsFollow, Held, Observes
<1>5. SentInOrder' BY <1>1 DEF IInv, SentInOrder, Held, OvertakenIsLeftover
<1>6. BaselineIsExact' BY <1>1 DEF IInv, BaselineIsExact, Held, BaselineBoundary
<1>7. FlushOwes' BY <1>1 DEF IInv, FlushOwes, Held
<1> QED BY <1>2, <1>3, <1>4, <1>5, <1>6, <1>7 DEF IInv

\* The invariant: types, each event in one place, turns that follow each other,
\* an order that only what a turn left over breaks, a baseline that covers
\* everything sent before it, flushes that owe what they are to make visible.
THEOREM DeliveryInvariant == Spec => []IInv
<1>1. IInv /\ [Next]_<<barrierVars, deliveryVars>> => IInv' BY NextInvariant, StutterInvariant
<1> QED BY <1>1, InitInvariant, PTL DEF Spec

\* Sockets see each event once and in order, and a new one nothing its baseline
\* covers, whatever turns, drains, flushes and baselines overlap.
THEOREM OrderCorrect == Spec => []DeliveryIsOrdered
<1>1. IInv => DeliveryIsOrdered BY DEF IInv, SentInOrder, BaselineIsExact, DeliveryIsOrdered
<1> QED BY <1>1, DeliveryInvariant, PTL

\* Nothing is seen that is not in the log, unless the session had to give it up.
THEOREM VisibleCorrect == Spec => VisibleIsStored
<1>1. ASSUME IInv, Next, NEW e \in ToSet(delivered') \ ToSet(delivered) PROVE e \in stored' \cup unsaved
  <2>1. delivered' # delivered BY <1>1
  <2>2. PICK k \in Callers : deliver(k) BY <1>1, <2>1, StepSends
  <2>3. PICK b, r : Sends(k, b, r) BY <1>1, <2>2, DeliverSends DEF IInv
  <2>4. b \in Seq(Nat) /\ Rising(b) /\ ToSet(b) \subseteq ToSet(q[k].work[1]) /\ ToSet(b) \subseteq Held(k) /\ delivered' = delivered \o b
    BY <2>3 DEF Sends
  <2>5. q[k].step = "deliver" /\ stored' = stored BY <2>2 DEF deliver, barrierVars
  <2>6. ToSet(q[k].work[1]) \subseteq stored \cup unsaved BY <1>1, <2>5 DEF IInv, FlushOwes
  <2>7. ToSet(delivered') = ToSet(delivered) \cup ToSet(b)
    <3>1. delivered \in Seq(Nat) /\ Overtakes(delivered, leftover) /\ \A d \in ToSet(delivered), g \in ToSet(b) : d < g \/ (d # g /\ g \in leftover)
      BY <1>1, <2>4 DEF IInv, DeliveryTypeOK, HeldOnce, SentInOrder, OvertakenIsLeftover, Overtakes
    <3> QED BY <2>4, <3>1, SendBehind
  <2> QED BY <1>1, <2>4, <2>5, <2>6, <2>7
<1>2. IInv /\ [Next]_<<barrierVars, deliveryVars>> =>
        [\A e \in ToSet(delivered') \ ToSet(delivered) : e \in stored' \cup unsaved]_<<barrierVars, deliveryVars>>
  BY <1>1
<1> QED BY <1>2, DeliveryInvariant, PTL DEF Spec, VisibleIsStored

----------------------------------------
(* What a session runs on: the choice of its model, and its agent. *)

\* The two side by side: they share no state.
RunsSpec ==
    /\ ChoiceInit /\ AgentsInit
    /\ [][(ChoiceNext /\ UNCHANGED agentVars) \/ (AgentsNext /\ UNCHANGED choiceVars)]_<<choiceVars, agentVars>>

Steps == [kind : {"select"}, model : Models, step : {"check", "save", "publish"}]
           \cup [kind : {"prompt"}, model : {NoModel}, step : {"check", "admit"}]

ChoiceTypeOK ==
    /\ chain \in Seq(Steps) /\ \A i \in DOMAIN chain : i # 1 => chain[i].step = "check"
    /\ savedPick \in Models \cup {NoModel} /\ cached \in Models \cup {NoModel}
    /\ noted \in Models \cup {NoModel} /\ requested \in Models \cup {NoModel} /\ picked \in Models
    /\ resident \in BOOLEAN /\ turn \in {"idle", "open", "asked", "retiring"}
    /\ (turn # "idle" => resident)
    /\ waiting \in Nat /\ images \in BOOLEAN
    /\ inForce \subseteq Models /\ IsFiniteSet(inForce)

\* Wherever a choice may be read from there is one in force.
SourcesInForce ==
    /\ savedPick # NoModel => savedPick \in inForce
    /\ cached # NoModel => cached \in inForce
    /\ noted # NoModel => noted \in inForce
    /\ savedPick = NoModel => Fallback \in inForce
    /\ cached = NoModel /\ turn \in {"open", "asked"} => Fallback \in inForce

\* What is being published is in bridge and cache, unless a turn that used it
\* has retired it to the log.
PublishedIsRead(i) ==
    chain[i].step = "publish" =>
        /\ savedPick = chain[i].model \/ (savedPick = NoModel /\ requested = chain[i].model)
        /\ cached = chain[i].model \/ (cached = NoModel /\ requested = chain[i].model)

\* A prompt past its check found a choice in force that reads images.
AdmittedIsRead(i) == chain[i].step = "admit" => inForce \cap VisionModels # {}

ChoiceInv ==
    /\ ChoiceTypeOK /\ SourcesInForce
    /\ \A i \in DOMAIN chain : PublishedIsRead(i) /\ AdmittedIsRead(i)

----------------------------------------
(* The agent of a session. *)

AgentEvents == Presets \cup {"turn/start", "feedback"}
AgentCalls ==
    [kind : {"none", "turn", "switch", "control", "feedback", "rename"},
     step : {"idle", "wait", "open", "resuming", "saving", "opened", "running", "flushing", "disposing"},
     preset : Presets]
IsAgent(a) ==
    /\ a = [live |-> a.live, composed |-> a.composed, header |-> a.header, began |-> a.began, unsaved |-> a.unsaved]
    /\ a.live \in BOOLEAN /\ a.began \in BOOLEAN /\ a.unsaved \in Seq(AgentEvents)

AgentTypeOK ==
    /\ row \in {"none", "blank", "stored"} /\ started \in BOOLEAN /\ isResident \in BOOLEAN
    /\ calls \in [Clients -> AgentCalls] /\ IsAgent(agent)

\* A turn past its wait excludes a switch, and both keep the resident agent; the
\* one that resumes an agent, or disposes of it, is alone with it.
CallOK(c) ==
    /\ calls[c].kind = "none" <=> calls[c].step = "idle"
    /\ calls[c].kind = "turn" =>
          /\ claimed = c
          /\ calls[c].step # "wait" => switching = NoClient
          /\ calls[c].step \in {"opened", "running"} => isResident
    /\ calls[c].kind = "switch" =>
          /\ switching = c
          /\ calls[c].step \in {"opened", "flushing"} => isResident
    /\ calls[c].step \in {"resuming", "saving"} => opener = c
    /\ calls[c].step = "resuming" => ~agent.live
    /\ calls[c].step = "saving" => agent.live
    /\ calls[c].step = "running" => calls[c].kind = "turn"
    /\ calls[c].step = "disposing" => calls[c].kind = "switch" /\ agent.live /\ ~isResident /\ opener = NoClient

ResidentOK == isResident => agent.live /\ opener = NoClient

\* The agent knows of every turn its log has, and holds no choice of a preset
\* for a log that has one.
AgentKnowsItsLog ==
    /\ row = "none" => ~started /\ ~agent.live /\ opener = NoClient
    /\ ~agent.live => agent.unsaved = <<>>
    /\ started /\ agent.live => agent.began
    /\ started => \A i \in DOMAIN agent.unsaved : agent.unsaved[i] \notin Presets
    /\ (\E i \in DOMAIN agent.unsaved : agent.unsaved[i] = "turn/start") => agent.began

AgentInv == AgentTypeOK /\ ResidentOK /\ (\A c \in Clients : CallOK(c)) /\ AgentKnowsItsLog

\* The first of the chain leaves it: those that come forward have not begun.
LEMMA ChainLeaves ==
    ASSUME ChoiceTypeOK, 1 \in DOMAIN chain, Leaves(1)
    PROVE  chain' \in Seq(Steps) /\ \A i \in DOMAIN chain' : chain'[i].step = "check"
<1>1. chain \in Seq(Steps) /\ Len(chain) \in Nat /\ DOMAIN chain = 1..Len(chain)
  BY LenProperties DEF ChoiceTypeOK
<1>2. Len(chain) \in Nat \ {0} BY <1>1
<1>3. PICK n \in Nat : n = Len(chain) - 1 BY <1>2
<1>4. chain' = [j \in 1..n |-> chain[j + 1]] BY <1>3 DEF Leaves
<1>5. \A j \in 1..n : j + 1 \in DOMAIN chain /\ j + 1 # 1 BY <1>1, <1>3
<1>6. \A j \in 1..n : chain[j + 1] \in Steps BY <1>1, <1>5, ElementOfSeq
<1>7. \A j \in 1..n : chain[j + 1].step = "check" BY <1>5 DEF ChoiceTypeOK
<1>8. chain' \in [1..n -> Steps] BY <1>4, <1>6
<1>9. chain' \in Seq(Steps) BY <1>8, SeqDef
<1>10. \A i \in DOMAIN chain' : chain'[i].step = "check" BY <1>4, <1>7
<1> QED BY <1>9, <1>10

\* The first of the chain goes a step on: the others stay.
LEMMA ChainMoves ==
    ASSUME ChoiceTypeOK, 1 \in DOMAIN chain, NEW st, MovesTo(1, st),
           (chain[1].kind = "select" /\ st \in {"save", "publish"}) \/ (chain[1].kind = "prompt" /\ st = "admit")
    PROVE  /\ chain' \in Seq(Steps) /\ \A i \in DOMAIN chain' : i # 1 => chain'[i].step = "check"
           /\ chain'[1].step = st /\ chain'[1].model = chain[1].model
<1>1. chain \in Seq(Steps) /\ Len(chain) \in Nat /\ DOMAIN chain = 1..Len(chain)
  BY LenProperties DEF ChoiceTypeOK
<1>2. PICK x : x = chain[1] OBVIOUS
<1>3. x \in Steps BY <1>1, <1>2, ElementOfSeq
<1>4. PICK y : y = [kind |-> x.kind, model |-> x.model, step |-> st] OBVIOUS
<1>5. y \in Steps /\ y = [x EXCEPT !.step = st] BY <1>2, <1>3, <1>4 DEF Steps
<1>6. chain' = [chain EXCEPT ![1] = y] BY <1>2, <1>5 DEF MovesTo
<1>7. chain' \in Seq(Steps) BY <1>1, <1>5, <1>6, ExceptSeq
<1>8. DOMAIN chain' = DOMAIN chain /\ chain'[1] = y /\ \A i \in DOMAIN chain : i # 1 => chain'[i] = chain[i]
  BY <1>6
<1> QED BY <1>2, <1>4, <1>7, <1>8 DEF ChoiceTypeOK

\* A step on the chain is the first one's.
LEMMA OnlyFirst ==
    ASSUME ChoiceTypeOK, NEW i \in DOMAIN chain, NEW k, NEW st, At(i, k, st)
    PROVE  /\ i = 1 /\ 1 \in DOMAIN chain /\ chain[1] \in Steps /\ chain[1].kind = k /\ chain[1].step = st
           /\ k = "select" => chain[1].model \in Models
  BY ElementOfSeq, LenProperties DEF At, MyTurn, ChoiceTypeOK, Steps

\* Every step of the choice keeps the invariant, and takes an image only while a
\* choice that reads images is in force.
LEMMA ChoiceStep ==
    ASSUME ChoiceInv, ChoiceNext
    PROVE  /\ ChoiceInv'
           /\ waiting' > waiting \/ (images' /\ ~images /\ waiting' = waiting) => inForce \cap VisionModels # {}
<1> DEFINE Takes0 == waiting' > waiting \/ (images' /\ ~images /\ waiting' = waiting)
<1>0. ChoiceTypeOK /\ SourcesInForce /\ NoModel \notin Models /\ waiting \in Nat
  BY ModelsAssumption DEF ChoiceInv, ChoiceTypeOK
<1>1. CASE serializeImageMutation
  <2>1. PICK op : /\ chain' = Append(chain, op)
                  /\ op \in {[kind |-> "select", model |-> m, step |-> "check"] : m \in Models}
                             \cup {[kind |-> "prompt", model |-> NoModel, step |-> "check"]}
    BY <1>1 DEF serializeImageMutation
  <2>2. op \in Steps /\ op.step = "check" BY <2>1 DEF Steps
  <2>3. /\ chain \in Seq(Steps) /\ Len(chain) \in Nat /\ DOMAIN chain = 1..Len(chain)
        /\ \A i \in DOMAIN chain : i # 1 => chain[i].step = "check"
    BY <1>0, LenProperties DEF ChoiceTypeOK
  <2>4. chain' \in Seq(Steps) /\ \A i \in DOMAIN chain' : (i \in DOMAIN chain /\ chain'[i] = chain[i]) \/ chain'[i] = op
    BY <2>1, <2>2, <2>3, AppendProperties
  <2>5. ChoiceTypeOK' /\ SourcesInForce'
    BY <1>0, <1>1, <2>2, <2>3, <2>4 DEF serializeImageMutation, ChoiceTypeOK, SourcesInForce, Fallback
  <2>6. ASSUME NEW i \in DOMAIN chain' PROVE PublishedIsRead(i)' /\ AdmittedIsRead(i)'
    BY <1>1, <2>2, <2>4 DEF serializeImageMutation, ChoiceInv, PublishedIsRead, AdmittedIsRead
  <2>7. ~Takes0 BY <1>0, <1>1 DEF serializeImageMutation
  <2> QED BY <2>5, <2>6, <2>7 DEF ChoiceInv
<1>2. ASSUME NEW i \in DOMAIN chain, selectChecked(i) PROVE ChoiceInv' /\ ~Takes0
  <2>1. /\ i = 1 /\ 1 \in DOMAIN chain /\ chain[1].kind = "select" /\ chain[1].step = "check"
    BY <1>0, <1>2, OnlyFirst DEF selectChecked
  <2>2. Leaves(1) \/ MovesTo(1, "save") BY <1>2, <2>1 DEF selectChecked
  <2>3. /\ chain' \in Seq(Steps) /\ \A j \in DOMAIN chain' : j # 1 => chain'[j].step = "check"
        /\ \A j \in DOMAIN chain' : chain'[j].step \in {"check", "save"}
    BY <1>0, <2>1, <2>2, ChainLeaves, ChainMoves
  <2>4. ChoiceTypeOK' /\ SourcesInForce'
    BY <1>0, <1>2, <2>3 DEF selectChecked, ChoiceTypeOK, SourcesInForce, Fallback
  <2>5. ASSUME NEW j \in DOMAIN chain' PROVE PublishedIsRead(j)' /\ AdmittedIsRead(j)'
    BY <2>3 DEF PublishedIsRead, AdmittedIsRead
  <2>6. ~Takes0 BY <1>0, <1>2 DEF selectChecked
  <2> QED BY <2>4, <2>5, <2>6 DEF ChoiceInv
<1>3. ASSUME NEW i \in DOMAIN chain, save(i) PROVE ChoiceInv' /\ ~Takes0
  <2>1. /\ i = 1 /\ 1 \in DOMAIN chain /\ chain[1].kind = "select" /\ chain[1].step = "save" /\ chain[1].model \in Models
    BY <1>0, <1>3, OnlyFirst DEF save
  <2>2. PICK m : m = chain[1].model /\ m \in Models /\ m # NoModel BY <1>0, <2>1
  <2>3. CASE Leaves(1) /\ UNCHANGED <<savedPick, cached, picked, inForce>>
    <3>1. chain' \in Seq(Steps) /\ \A j \in DOMAIN chain' : chain'[j].step = "check"
      BY <1>0, <2>1, <2>3, ChainLeaves
    <3>2. ChoiceTypeOK' /\ SourcesInForce'
      BY <1>0, <1>3, <2>3, <3>1 DEF save, ChoiceTypeOK, SourcesInForce, Fallback
    <3>3. ASSUME NEW j \in DOMAIN chain' PROVE PublishedIsRead(j)' /\ AdmittedIsRead(j)'
      BY <3>1 DEF PublishedIsRead, AdmittedIsRead
    <3> QED BY <1>0, <1>3, <3>2, <3>3 DEF ChoiceInv, save
  <2>4. CASE /\ savedPick' = m /\ cached' = m /\ picked' \in {picked, m} /\ inForce' = inForce \cup {m} /\ MovesTo(1, "publish")
    <3>1. /\ chain' \in Seq(Steps) /\ \A j \in DOMAIN chain' : j # 1 => chain'[j].step = "check"
          /\ chain'[1].step = "publish" /\ chain'[1].model = m
      BY <1>0, <2>1, <2>2, <2>4, ChainMoves
    <3>2. IsFiniteSet(inForce \cup {m}) BY <1>0, FS_AddElement DEF ChoiceTypeOK
    <3>3. ChoiceTypeOK' BY <1>0, <1>3, <2>2, <2>4, <3>1, <3>2 DEF save, ChoiceTypeOK
    <3>4. SourcesInForce' BY <1>0, <1>3, <2>2, <2>4 DEF save, SourcesInForce
    <3>5. ASSUME NEW j \in DOMAIN chain' PROVE PublishedIsRead(j)' /\ AdmittedIsRead(j)'
      BY <2>4, <3>1 DEF PublishedIsRead, AdmittedIsRead
    <3> QED BY <1>0, <1>3, <3>3, <3>4, <3>5 DEF ChoiceInv, save
  <2> QED BY <1>3, <2>1, <2>2, <2>3, <2>4 DEF save
<1>4. ASSUME NEW i \in DOMAIN chain, publish(i) PROVE ChoiceInv' /\ ~Takes0
  <2>1. /\ i = 1 /\ 1 \in DOMAIN chain /\ chain[1].kind = "select" /\ chain[1].step = "publish" /\ chain[1].model \in Models
    BY <1>0, <1>4, OnlyFirst DEF publish
  <2>2. PICK m : m = chain[1].model /\ m \in Models /\ m # NoModel BY <1>0, <2>1
  <2>3. /\ savedPick = m \/ (savedPick = NoModel /\ requested = m)
        /\ cached = m \/ (cached = NoModel /\ requested = m)
    BY <2>1, <2>2 DEF ChoiceInv, PublishedIsRead
  <2>4. chain' \in Seq(Steps) /\ \A j \in DOMAIN chain' : chain'[j].step = "check"
    BY <1>0, <1>4, <2>1, ChainLeaves DEF publish
  <2>5. (noted' = m /\ inForce' = {m}) \/ (noted' \in {noted, m} /\ inForce' = inForce)
    BY <1>4, <2>1, <2>2 DEF publish
  <2>6. IsFiniteSet({m}) BY FS_Singleton
  <2>7. ChoiceTypeOK' BY <1>0, <1>4, <2>2, <2>4, <2>5, <2>6 DEF publish, ChoiceTypeOK
  <2>8. m \in inForce' BY <1>0, <2>2, <2>3, <2>5 DEF SourcesInForce, Fallback
  <2>9. SourcesInForce' BY <1>0, <1>4, <2>2, <2>3, <2>5, <2>8 DEF publish, SourcesInForce, Fallback
  <2>10. ASSUME NEW j \in DOMAIN chain' PROVE PublishedIsRead(j)' /\ AdmittedIsRead(j)'
    BY <2>4 DEF PublishedIsRead, AdmittedIsRead
  <2> QED BY <1>0, <1>4, <2>7, <2>9, <2>10 DEF ChoiceInv, publish
<1>5. ASSUME NEW i \in DOMAIN chain, promptChecked(i) PROVE ChoiceInv' /\ ~Takes0
  <2>1. /\ i = 1 /\ 1 \in DOMAIN chain /\ chain[1].kind = "prompt" /\ chain[1].step = "check"
    BY <1>0, <1>5, OnlyFirst DEF promptChecked
  <2>2. modelSelection \in inForce BY <1>0 DEF modelSelection, agentPending, Bridged, SourcesInForce
  <2>3. Leaves(1) \/ (MovesTo(1, "admit") /\ inForce \cap VisionModels # {})
    BY <1>5, <2>1, <2>2 DEF promptChecked, modelSupportsImages
  <2>4. /\ chain' \in Seq(Steps) /\ \A j \in DOMAIN chain' : j # 1 => chain'[j].step = "check"
        /\ \A j \in DOMAIN chain' : chain'[j].step = "check" \/ (chain'[j].step = "admit" /\ inForce \cap VisionModels # {})
    BY <1>0, <2>1, <2>3, ChainLeaves, ChainMoves
  <2>5. ChoiceTypeOK' /\ SourcesInForce'
    BY <1>0, <1>5, <2>4 DEF promptChecked, ChoiceTypeOK, SourcesInForce, Fallback, Bridged
  <2>6. ASSUME NEW j \in DOMAIN chain' PROVE PublishedIsRead(j)' /\ AdmittedIsRead(j)'
    BY <1>5, <2>4 DEF promptChecked, PublishedIsRead, AdmittedIsRead
  <2> QED BY <1>0, <1>5, <2>5, <2>6 DEF ChoiceInv, promptChecked
<1>6. ASSUME NEW i \in DOMAIN chain, promptAdmitted(i) PROVE ChoiceInv' /\ inForce \cap VisionModels # {}
  <2>1. /\ i = 1 /\ 1 \in DOMAIN chain /\ chain[1].kind = "prompt" /\ chain[1].step = "admit"
    BY <1>0, <1>6, OnlyFirst DEF promptAdmitted
  <2>2. chain' \in Seq(Steps) /\ \A j \in DOMAIN chain' : chain'[j].step = "check"
    BY <1>0, <1>6, <2>1, ChainLeaves DEF promptAdmitted
  <2>3. waiting' \in Nat /\ images' \in BOOLEAN
    <3>1. (waiting' = waiting \/ waiting' = waiting + 1) /\ (images' = images \/ images' = TRUE)
      BY <1>6 DEF promptAdmitted
    <3>2. images' \in BOOLEAN BY <1>0, <3>1, Zenon DEF ChoiceTypeOK
    <3> QED BY <1>0, <3>1, <3>2
  <2>4. ChoiceTypeOK' /\ SourcesInForce'
    BY <1>0, <1>6, <2>2, <2>3 DEF promptAdmitted, ChoiceTypeOK, SourcesInForce, Fallback
  <2>5. ASSUME NEW j \in DOMAIN chain' PROVE PublishedIsRead(j)' /\ AdmittedIsRead(j)'
    BY <2>2 DEF PublishedIsRead, AdmittedIsRead
  <2> QED BY <2>1, <2>4, <2>5 DEF ChoiceInv, AdmittedIsRead
<1>7. ASSUME chain' = chain, inForce' = inForce, ChoiceTypeOK', SourcesInForce', \A i \in DOMAIN chain : PublishedIsRead(i)', waiting' <= waiting, waiting' = waiting => images' = images
      PROVE  ChoiceInv' /\ ~Takes0
  <2>1. waiting' \in Nat /\ ~Takes0 BY <1>0, <1>7 DEF ChoiceTypeOK
  <2> QED BY <1>7, <2>1 DEF ChoiceInv, AdmittedIsRead
<1>8. CASE resumeAgent
  <2>1. waiting' \in Nat /\ waiting' <= waiting /\ images' \in BOOLEAN /\ (waiting' = waiting => images' = images)
    <3>1. (waiting > 0 /\ waiting' = waiting - 1 /\ images' = TRUE) \/ (waiting' = waiting /\ images' = images)
      BY <1>8 DEF resumeAgent
    <3>2. images' \in BOOLEAN BY <1>0, <3>1, Zenon DEF ChoiceTypeOK
    <3>3. waiting' \in Nat /\ waiting' <= waiting /\ (waiting' = waiting - 1 => waiting' # waiting)
      BY <1>0, <3>1
    <3> QED BY <3>1, <3>2, <3>3
  <2>2. ChoiceTypeOK' /\ SourcesInForce'
    BY <1>0, <1>8, <2>1 DEF resumeAgent, ChoiceTypeOK, SourcesInForce, Fallback, Bridged
  <2>3. ASSUME NEW i \in DOMAIN chain PROVE PublishedIsRead(i)'
    BY <1>8 DEF resumeAgent, Bridged, ChoiceInv, PublishedIsRead
  <2> QED BY <1>7, <1>8, <2>1, <2>2, <2>3 DEF resumeAgent
<1>9. CASE request
  <2>1. current \in Models BY <1>0, <1>9 DEF request, current, SourcesInForce, ChoiceTypeOK
  <2>2. current \in inForce BY <1>0, <1>9 DEF request, current, SourcesInForce
  <2>3. ChoiceTypeOK' BY <1>0, <1>9, <2>1 DEF request, ChoiceTypeOK
  <2>4. SourcesInForce' BY <1>0, <1>9, <2>1, <2>2 DEF request, SourcesInForce, Fallback
  <2>5. ASSUME NEW i \in DOMAIN chain PROVE PublishedIsRead(i)'
    <3>1. chain[i] \in Steps /\ (chain[i].step = "publish" => chain[i].model \in Models)
      BY <1>0, ElementOfSeq, LenProperties DEF ChoiceTypeOK, Steps
    <3> QED BY <1>0, <1>9, <3>1 DEF request, current, Fallback, ChoiceInv, PublishedIsRead
  <2>6. waiting' = waiting /\ images' = images /\ chain' = chain /\ inForce' = inForce
    BY <1>9 DEF request
  <2> QED BY <1>0, <1>7, <2>3, <2>4, <2>5, <2>6
<1>10. CASE endTurn
  <2>1. /\ savedPick' = savedPick \/ (requested # NoModel /\ savedPick \in {NoModel, requested} /\ savedPick' = NoModel)
        /\ turn' = "idle" \/ (turn' = "retiring" /\ turn \in {"open", "asked"})
        /\ UNCHANGED <<chain, cached, noted, requested, picked, resident, waiting, images, sent, inForce>>
    BY <1>10 DEF endTurn, clearIfLogged
  <2>2. ChoiceTypeOK' BY <1>0, <2>1 DEF ChoiceTypeOK
  <2>3. SourcesInForce' BY <1>0, <2>1 DEF SourcesInForce, Fallback
  <2>4. ASSUME NEW i \in DOMAIN chain PROVE PublishedIsRead(i)'
    <3>1. chain[i] \in Steps /\ (chain[i].step = "publish" => chain[i].model \in Models)
      BY <1>0, ElementOfSeq, LenProperties DEF ChoiceTypeOK, Steps
    <3> QED BY <1>0, <2>1, <3>1 DEF ChoiceInv, PublishedIsRead
  <2> QED BY <1>0, <1>7, <2>1, <2>2, <2>3, <2>4
<1>11. CASE retireCached
  <2>1. ChoiceTypeOK' BY <1>0, <1>11 DEF retireCached, ChoiceTypeOK
  <2>2. SourcesInForce' BY <1>0, <1>11 DEF retireCached, SourcesInForce, Fallback
  <2>3. ASSUME NEW i \in DOMAIN chain PROVE PublishedIsRead(i)'
    <3>1. chain[i] \in Steps /\ (chain[i].step = "publish" => chain[i].model \in Models)
      BY <1>0, ElementOfSeq, LenProperties DEF ChoiceTypeOK, Steps
    <3> QED BY <1>0, <1>11, <3>1 DEF retireCached, ChoiceInv, PublishedIsRead
  <2>4. waiting' = waiting /\ images' = images /\ chain' = chain /\ inForce' = inForce
    BY <1>11 DEF retireCached
  <2> QED BY <1>0, <1>7, <2>1, <2>2, <2>3, <2>4
<1>12. CASE evictBridge
  <2>1. chain' = <<>> /\ chain' \in Seq(Steps) /\ DOMAIN chain' = {} BY <1>12 DEF evictBridge
  <2>2. ChoiceTypeOK' /\ SourcesInForce'
    BY <1>0, <1>12, <2>1 DEF evictBridge, ChoiceTypeOK, SourcesInForce, Fallback
  <2>3. ~Takes0 BY <1>0, <1>12 DEF evictBridge
  <2> QED BY <2>1, <2>2, <2>3 DEF ChoiceInv
<1> QED BY <1>1, <1>2, <1>3, <1>4, <1>5, <1>6, <1>8, <1>9, <1>10, <1>11, <1>12 DEF ChoiceNext

\* The acknowledged choice of a model stays in force.
LEMMA ChoiceInit0 == ChoiceInit => ChoiceInv
<1> SUFFICES ASSUME ChoiceInit PROVE ChoiceInv OBVIOUS
<1>1. chain = <<>> /\ chain \in Seq(Steps) /\ DOMAIN chain = {} BY DEF ChoiceInit
<1>2. IsFiniteSet({DefaultModel}) BY FS_Singleton
<1> QED BY <1>1, <1>2, ModelsAssumption DEF ChoiceInit, ChoiceInv, ChoiceTypeOK, SourcesInForce, Fallback

\* What a call does to the table of calls.
LEMMA CallGoes ==
    ASSUME AgentTypeOK, NEW c \in Clients, NEW st, Goes(c, st),
           st \in {"open", "resuming", "saving", "opened", "running", "flushing", "disposing"}
    PROVE  /\ calls' \in [Clients -> AgentCalls] /\ calls'[c].kind = calls[c].kind /\ calls'[c].step = st
           /\ \A d \in Clients : d # c => calls'[d] = calls[d]
<1>1. PICK y : y = [kind |-> calls[c].kind, step |-> st, preset |-> calls[c].preset] OBVIOUS
<1>2. calls[c] \in AgentCalls BY DEF AgentTypeOK
<1>3. y = [calls[c] EXCEPT !.step = st] /\ y \in AgentCalls BY <1>1, <1>2 DEF AgentCalls
<1>4. calls' = [calls EXCEPT ![c] = y] BY <1>3 DEF Goes
<1> QED BY <1>1, <1>3, <1>4 DEF AgentTypeOK

\* A call that begins was idle.
LEMMA CallBegins ==
    ASSUME AgentTypeOK, NEW c \in Clients, NEW k, NEW st, NEW p \in Presets, Begins(c, k, st, p),
           k \in {"turn", "switch", "control", "feedback", "rename"}, st \in {"wait", "open"}
    PROVE  /\ calls' \in [Clients -> AgentCalls] /\ calls[c].kind = "none" /\ calls[c].step = "idle"
           /\ calls'[c].kind = k /\ calls'[c].step = st
           /\ \A d \in Clients : d # c => calls'[d] = calls[d]
<1>1. PICK y : y = [kind |-> k, step |-> st, preset |-> p] OBVIOUS
<1>2. y \in AgentCalls /\ calls' = [calls EXCEPT ![c] = y] /\ calls[c] = Idle
  BY <1>1 DEF Begins, AgentCalls
<1> QED BY <1>1, <1>2 DEF AgentTypeOK, Idle

\* A call that ends gives back what it held.
LEMMA CallEnds ==
    ASSUME AgentTypeOK, NEW c \in Clients, Ends(c)
    PROVE  /\ calls' \in [Clients -> AgentCalls] /\ calls'[c].kind = "none" /\ calls'[c].step = "idle"
           /\ \A d \in Clients : d # c => calls'[d] = calls[d]
           /\ \A d \in Clients : d # c /\ claimed = d => claimed' = d
           /\ \A d \in Clients : d # c /\ switching = d => switching' = d
           /\ switching = NoClient => switching' = NoClient
<1>1. Idle \in AgentCalls /\ Idle.kind = "none" /\ Idle.step = "idle"
  BY PresetsOffered DEF Idle, AgentCalls
<1>2. calls' = [calls EXCEPT ![c] = Idle] /\ claimed' = (IF claimed = c THEN NoClient ELSE claimed)
      /\ switching' = (IF switching = c THEN NoClient ELSE switching)
  BY DEF Ends
<1> QED BY <1>1, <1>2 DEF AgentTypeOK

\* What the agent holds is written, or an event is added to it.
LEMMA SavedAgent ==
    ASSUME IsAgent(agent) PROVE LET a == Saved(agent) IN
           IsAgent(a) /\ a.live = agent.live /\ a.began = agent.began /\ a.unsaved = <<>>
<1>1. PICK a : a = Saved(agent) OBVIOUS
<1>2. a = [live |-> agent.live, composed |-> agent.composed, header |-> agent.header,
           began |-> agent.began, unsaved |-> <<>>]
  BY <1>1 DEF IsAgent, Saved
<1> QED BY <1>1, <1>2 DEF IsAgent

\* The same of an event the agent writes.
LEMMA WroteAgent ==
    ASSUME IsAgent(agent), NEW e \in AgentEvents
    PROVE  LET a == Wrote(agent, e) IN
           /\ IsAgent(a) /\ a.live = agent.live /\ a.began = agent.began
           /\ \A i \in DOMAIN a.unsaved : (i \in DOMAIN agent.unsaved /\ a.unsaved[i] = agent.unsaved[i]) \/ a.unsaved[i] = e
<1>1. PICK a : a = Wrote(agent, e) OBVIOUS
<1>2. PICK u : u = Append(agent.unsaved, e) OBVIOUS
<1>3. agent.unsaved \in Seq(AgentEvents) /\ Len(agent.unsaved) \in Nat /\ DOMAIN agent.unsaved = 1..Len(agent.unsaved)
  BY LenProperties DEF IsAgent
<1>4. u \in Seq(AgentEvents) /\ \A i \in DOMAIN u : (i \in DOMAIN agent.unsaved /\ u[i] = agent.unsaved[i]) \/ u[i] = e
  BY <1>2, <1>3, AppendProperties
<1>5. a = [live |-> agent.live, composed |-> agent.composed, header |-> agent.header, began |-> agent.began, unsaved |-> u]
  BY <1>1, <1>2 DEF IsAgent, Wrote
<1> QED BY <1>1, <1>4, <1>5 DEF IsAgent

\* Storing adds a turn to the log if there is one, and its preset changes only
\* by a choice among what is stored.
LEMMA Stored0 ==
    ASSUME AgentInv, Stores(agent.unsaved)
    PROVE  /\ started' \in BOOLEAN /\ (started => started')
           /\ started' => started \/ (agent.began /\ agent.live)
           /\ started => header' = header
<1>1. started' = (started \/ "turn/start" \in Range(agent.unsaved)) BY DEF Stores
<1>2. "turn/start" \in Range(agent.unsaved) => \E i \in DOMAIN agent.unsaved : agent.unsaved[i] = "turn/start"
  BY DEF Range
<1>3. (\E i \in DOMAIN agent.unsaved : agent.unsaved[i] = "turn/start") => agent.began /\ agent.live
  BY DEF AgentInv, AgentKnowsItsLog, AgentTypeOK, IsAgent
<1>4. started => {i \in DOMAIN agent.unsaved : agent.unsaved[i] \in Presets} = {}
  BY DEF AgentInv, AgentKnowsItsLog
<1>5. started => header' = header BY <1>4 DEF Stores
<1>6. started \in BOOLEAN BY DEF AgentInv, AgentTypeOK
<1> QED BY <1>1, <1>2, <1>3, <1>5, <1>6, Zenon

\* A step that leaves the agent and its log alone keeps what is known of them.
LEMMA SameLog ==
    ASSUME AgentInv, UNCHANGED <<row, started, agent, isResident, opener>>, calls' \in [Clients -> AgentCalls]
    PROVE  AgentTypeOK' /\ ResidentOK' /\ AgentKnowsItsLog'
  BY DEF AgentInv, AgentTypeOK, IsAgent, ResidentOK, AgentKnowsItsLog

\* Every step of the agent and its callers keeps the invariant, and leaves the
\* preset of a log with a turn alone.
LEMMA AgentStep == ASSUME AgentInv, AgentsNext PROVE AgentInv' /\ (started => header' = header)
<1>0. /\ AgentTypeOK /\ ResidentOK /\ AgentKnowsItsLog /\ IsAgent(agent)
      /\ {"turn/start", "feedback"} \cap Presets = {} /\ DefaultPreset \in Presets /\ OfferedPresets \subseteq Presets
      /\ NoClient \notin Clients /\ \A c \in Clients : CallOK(c)
  BY PresetsOffered DEF AgentInv, AgentTypeOK
<1>1. CASE drainWrites
  <2>1. /\ IsAgent(agent') /\ agent'.live = agent.live /\ agent'.began = agent.began /\ agent'.unsaved = <<>>
    BY <1>0, <1>1, SavedAgent DEF drainWrites
  <2>2. /\ started' \in BOOLEAN /\ (started' => started \/ (agent.began /\ agent.live)) /\ (started => header' = header)
    BY <1>1, Stored0 DEF drainWrites
  <2>3. isResident /\ agent.live /\ row # "none"
    BY <1>0, <1>1 DEF drainWrites, ResidentOK, AgentKnowsItsLog
  <2>4. UNCHANGED <<row, isResident, opener, calls, slot, claimed, switching>>
    BY <1>1 DEF drainWrites, owners
  <2>5. AgentTypeOK' /\ ResidentOK' /\ AgentKnowsItsLog'
    BY <1>0, <2>1, <2>2, <2>3, <2>4 DEF AgentTypeOK, ResidentOK, AgentKnowsItsLog
  <2>6. ASSUME NEW d \in Clients PROVE CallOK(d)' BY <1>0, <2>1, <2>4 DEF CallOK
  <2> QED BY <2>2, <2>5, <2>6 DEF AgentInv
<1>2. CASE evict
  <2>1. /\ agent' = NoAgent /\ ~isResident' /\ opener' = NoClient /\ switching' = NoClient
        /\ calls' = [c \in Clients |-> Idle] /\ UNCHANGED <<row, header, started>>
    BY <1>2 DEF evict, durable
  <2>2. Idle \in AgentCalls /\ Idle.kind = "none" /\ Idle.step = "idle" BY <1>0 DEF Idle, AgentCalls
  <2>3. IsAgent(agent') /\ ~agent'.live /\ agent'.unsaved = <<>> BY <2>1 DEF NoAgent, IsAgent
  <2>6. isResident' \in BOOLEAN BY <1>2, Zenon DEF evict
  <2>4. AgentTypeOK' /\ ResidentOK' /\ AgentKnowsItsLog'
    BY <1>0, <2>1, <2>2, <2>3, <2>6 DEF AgentTypeOK, ResidentOK, AgentKnowsItsLog
  <2>5. ASSUME NEW d \in Clients PROVE CallOK(d)' BY <2>1, <2>2 DEF CallOK
  <2> QED BY <2>1, <2>4, <2>5 DEF AgentInv
<1>3. ASSUME NEW p \in Presets, createBlankSession(p) PROVE AgentInv' /\ (started => header' = header)
  <2>1. row = "none" /\ row' \in {"blank", "stored"} /\ UNCHANGED <<started, agent, isResident, opener, calls, slot, claimed, switching>>
    BY <1>3 DEF createBlankSession, owners
  <2>2. ~started BY <1>0, <2>1 DEF AgentKnowsItsLog
  <2>3. AgentTypeOK' /\ ResidentOK' /\ AgentKnowsItsLog'
    BY <1>0, <2>1 DEF AgentTypeOK, IsAgent, ResidentOK, AgentKnowsItsLog
  <2>4. ASSUME NEW d \in Clients PROVE CallOK(d)' BY <1>0, <2>1 DEF CallOK
  <2> QED BY <2>2, <2>3, <2>4 DEF AgentInv
<1>4. ASSUME NEW p \in Presets, NEW c \in Clients, selectAgentPreset(c, p) PROVE AgentInv' /\ (started => header' = header)
  <2>1. /\ claimed = NoClient /\ switching = NoClient /\ switching' = c
        /\ UNCHANGED <<row, header, started, agent, isResident, opener, slot, claimed>>
    BY <1>4 DEF selectAgentPreset, durable
  <2>2. /\ calls' \in [Clients -> AgentCalls] /\ calls'[c].kind = "switch" /\ calls'[c].step = "open"
        /\ \A d \in Clients : d # c => calls'[d] = calls[d]
    BY <1>0, <1>4, CallBegins DEF selectAgentPreset
  <2>3. CallOK(c)' BY <2>1, <2>2 DEF CallOK
  <2>4. ASSUME NEW d \in Clients, d # c PROVE CallOK(d)' BY <1>0, <2>1, <2>2, <2>4 DEF CallOK
  <2> QED BY <2>1, <2>2, <2>3, <2>4, SameLog DEF AgentInv
<1>5. ASSUME NEW c \in Clients, claimTurn(c) PROVE AgentInv' /\ (started => header' = header)
  <2>1. /\ claimed = NoClient /\ claimed' = c
        /\ UNCHANGED <<row, header, started, agent, isResident, opener, switching>>
    BY <1>5 DEF claimTurn, durable
  <2>2. /\ calls' \in [Clients -> AgentCalls] /\ calls'[c].kind = "turn" /\ calls'[c].step = "wait"
        /\ \A d \in Clients : d # c => calls'[d] = calls[d]
    BY <1>0, <1>5, CallBegins DEF claimTurn
  <2>3. CallOK(c)' BY <2>1, <2>2 DEF CallOK
  <2>4. ASSUME NEW d \in Clients, d # c PROVE CallOK(d)' BY <1>0, <2>1, <2>2, <2>4 DEF CallOK
  <2> QED BY <2>1, <2>2, <2>3, <2>4, SameLog DEF AgentInv
<1>6. ASSUME NEW c \in Clients, claimOpens(c) PROVE AgentInv' /\ (started => header' = header)
  <2>1. /\ calls[c].kind = "turn" /\ switching = NoClient
        /\ UNCHANGED <<row, header, started, agent, isResident, opener, claimed, switching>>
    BY <1>6 DEF claimOpens, awaitSwitch, durable, owners
  <2>2. /\ calls' \in [Clients -> AgentCalls] /\ calls'[c].kind = "turn" /\ calls'[c].step = "open"
        /\ \A d \in Clients : d # c => calls'[d] = calls[d]
    BY <1>0, <1>6, CallGoes DEF claimOpens
  <2>3. CallOK(c)' BY <1>0, <2>1, <2>2 DEF CallOK
  <2>4. ASSUME NEW d \in Clients, d # c PROVE CallOK(d)' BY <1>0, <2>1, <2>2, <2>4 DEF CallOK
  <2> QED BY <2>1, <2>2, <2>3, <2>4, SameLog DEF AgentInv
<1>7. ASSUME NEW c \in Clients, withAgentControl(c) \/ renameSession(c) PROVE AgentInv' /\ (started => header' = header)
  <2>1. UNCHANGED <<row, header, started, agent, isResident, opener, claimed, switching>>
    BY <1>7 DEF withAgentControl, renameSession, durable, owners
  <2>2. PICK kind \in {"control", "feedback", "rename"} : Begins(c, kind, "open", DefaultPreset)
    BY <1>7 DEF withAgentControl, renameSession
  <2>3. /\ calls' \in [Clients -> AgentCalls] /\ calls'[c].kind = kind /\ calls'[c].step = "open"
        /\ \A d \in Clients : d # c => calls'[d] = calls[d]
    BY <1>0, <2>2, CallBegins
  <2>4. CallOK(c)' BY <2>1, <2>3 DEF CallOK
  <2>5. ASSUME NEW d \in Clients, d # c PROVE CallOK(d)' BY <1>0, <2>1, <2>3, <2>5 DEF CallOK
  <2> QED BY <2>1, <2>3, <2>4, <2>5, SameLog DEF AgentInv
<1>8. ASSUME NEW c \in Clients, getOrResumeAgent(c) PROVE AgentInv' /\ (started => header' = header)
  <2>1. calls[c].step = "open" /\ UNCHANGED <<header, started, agent, isResident>>
    BY <1>8 DEF getOrResumeAgent
  <2>2. CASE isResident
    <3>1. Goes(c, "opened") /\ UNCHANGED <<row, opener, claimed, switching>>
      BY <1>8, <2>2 DEF getOrResumeAgent, owners
    <3>2. /\ calls' \in [Clients -> AgentCalls] /\ calls'[c].kind = calls[c].kind /\ calls'[c].step = "opened"
          /\ \A d \in Clients : d # c => calls'[d] = calls[d]
      BY <1>0, <3>1, CallGoes
    <3>3. CallOK(c)' BY <1>0, <2>1, <2>2, <3>1, <3>2 DEF CallOK
    <3>4. ASSUME NEW d \in Clients, d # c PROVE CallOK(d)'
      BY <1>0, <2>1, <3>1, <3>2, <3>4 DEF CallOK
    <3> QED BY <2>1, <3>1, <3>2, <3>3, <3>4, SameLog DEF AgentInv
  <2>3. CASE ~isResident /\ (agent.live \/ opener # NoClient \/ row = "none")
    <3>1. Ends(c) /\ UNCHANGED <<row, opener>> BY <1>8, <2>3 DEF getOrResumeAgent
    <3>2. CallOK(c)' BY <1>0, <3>1, CallEnds DEF CallOK
    <3>3. ASSUME NEW d \in Clients, d # c PROVE CallOK(d)'
      BY <1>0, <2>1, <3>1, <3>3, CallEnds DEF CallOK
    <3> QED BY <1>0, <2>1, <3>1, <3>2, <3>3, CallEnds, SameLog DEF AgentInv
  <2>4. CASE ~isResident /\ ~(agent.live \/ opener # NoClient \/ row = "none")
    <3>1. Goes(c, "resuming") /\ opener' = c /\ row' = "stored" /\ UNCHANGED <<claimed, switching>>
      BY <1>8, <2>4 DEF getOrResumeAgent, owners
    <3>2. /\ calls' \in [Clients -> AgentCalls] /\ calls'[c].kind = calls[c].kind /\ calls'[c].step = "resuming"
          /\ \A d \in Clients : d # c => calls'[d] = calls[d]
      BY <1>0, <3>1, CallGoes
    <3>3. CallOK(c)' BY <1>0, <2>1, <2>4, <3>1, <3>2 DEF CallOK
    <3>4. ASSUME NEW d \in Clients, d # c PROVE CallOK(d)'
      BY <1>0, <2>1, <2>4, <3>1, <3>2, <3>4 DEF CallOK
    <3>5. AgentTypeOK' /\ ResidentOK' /\ AgentKnowsItsLog'
      BY <1>0, <2>1, <2>4, <3>1, <3>2 DEF AgentTypeOK, IsAgent, ResidentOK, AgentKnowsItsLog
    <3> QED BY <2>1, <3>3, <3>4, <3>5 DEF AgentInv
  <2> QED BY <2>2, <2>3, <2>4
<1>9. ASSUME NEW c \in Clients, composeAgent(c) PROVE AgentInv' /\ (started => header' = header)
  <2>1. /\ calls[c].step = "resuming" /\ Goes(c, "saving") /\ UNCHANGED <<row, header, started, isResident, opener, claimed, switching>>
        /\ agent' = [live |-> TRUE, composed |-> sessionAgentPreset(header), header |-> header, began |-> started, unsaved |-> <<>>]
    BY <1>9 DEF composeAgent, durable, owners
  <2>2. /\ calls' \in [Clients -> AgentCalls] /\ calls'[c].kind = calls[c].kind /\ calls'[c].step = "saving"
        /\ \A d \in Clients : d # c => calls'[d] = calls[d]
    BY <1>0, <2>1, CallGoes
  <2>3. opener = c /\ ~agent.live /\ ~isResident /\ row # "none"
    BY <1>0, <2>1 DEF CallOK, ResidentOK, AgentKnowsItsLog
  <2>4. started \in BOOLEAN BY <1>0 DEF AgentTypeOK
  <2>5. /\ IsAgent(agent') /\ agent'.live /\ agent'.began = started /\ agent'.unsaved = <<>>
    BY <2>1, <2>4 DEF IsAgent
  <2>6. AgentTypeOK' /\ ResidentOK' /\ AgentKnowsItsLog'
    BY <1>0, <2>1, <2>2, <2>3, <2>5 DEF AgentTypeOK, ResidentOK, AgentKnowsItsLog
  <2>7. CallOK(c)' BY <1>0, <2>1, <2>2, <2>3, <2>5 DEF CallOK
  <2>8. ASSUME NEW d \in Clients, d # c PROVE CallOK(d)'
    BY <1>0, <2>1, <2>2, <2>3, <2>5, <2>8 DEF CallOK
  <2> QED BY <2>1, <2>6, <2>7, <2>8 DEF AgentInv
<1>10. ASSUME NEW c \in Clients, resumeEnds(c) PROVE AgentInv' /\ (started => header' = header)
  <2>1. opener' = NoClient /\ row' = row BY <1>10 DEF resumeEnds
  <2>2. calls[c].step \in {"resuming", "saving"} BY <1>10 DEF resumeEnds
  <2>3. opener = c /\ ~isResident /\ row # "none"
    BY <1>0, <2>2 DEF CallOK, ResidentOK, AgentKnowsItsLog
  <2>4. CASE /\ calls[c].step = "saving" /\ isResident' = TRUE /\ agent' = Saved(agent) /\ Stores(agent.unsaved)
             /\ Goes(c, "opened") /\ UNCHANGED owners
    <3>1. IsAgent(agent') /\ agent'.live = agent.live /\ agent'.began = agent.began /\ agent'.unsaved = <<>>
      BY <1>0, <2>4, SavedAgent
    <3>2. /\ started' \in BOOLEAN /\ (started' => started \/ (agent.began /\ agent.live)) /\ (started => header' = header)
      BY <2>4, Stored0
    <3>3. /\ calls' \in [Clients -> AgentCalls] /\ calls'[c].kind = calls[c].kind /\ calls'[c].step = "opened"
          /\ \A d \in Clients : d # c => calls'[d] = calls[d]
      BY <1>0, <2>4, CallGoes
    <3>4. agent.live /\ UNCHANGED <<claimed, switching>> BY <1>0, <2>4 DEF CallOK, owners
    <3>5. AgentTypeOK' /\ ResidentOK' /\ AgentKnowsItsLog'
      BY <1>0, <2>1, <2>3, <2>4, <3>1, <3>2, <3>3, <3>4 DEF AgentTypeOK, ResidentOK, AgentKnowsItsLog
    <3>6. CallOK(c)' BY <1>0, <2>1, <2>2, <2>3, <2>4, <3>3, <3>4 DEF CallOK
    <3>7. ASSUME NEW d \in Clients, d # c PROVE CallOK(d)'
      BY <1>0, <2>1, <2>3, <2>4, <3>1, <3>3, <3>4, <3>7 DEF CallOK
    <3> QED BY <3>2, <3>5, <3>6, <3>7 DEF AgentInv
  <2>5. CASE agent' = NoAgent /\ Ends(c) /\ UNCHANGED <<header, started, recorded, isResident>>
    <3>1. IsAgent(agent') /\ ~agent'.live /\ agent'.unsaved = <<>> BY <2>5 DEF NoAgent, IsAgent
    <3>2. AgentTypeOK' /\ ResidentOK' /\ AgentKnowsItsLog'
      BY <1>0, <2>1, <2>3, <2>5, <3>1, CallEnds DEF AgentTypeOK, ResidentOK, AgentKnowsItsLog
    <3>3. CallOK(c)' BY <1>0, <2>5, CallEnds DEF CallOK
    <3>4. ASSUME NEW d \in Clients, d # c PROVE CallOK(d)'
      BY <1>0, <2>1, <2>3, <2>5, <3>1, <3>4, CallEnds DEF CallOK
    <3> QED BY <2>5, <3>2, <3>3, <3>4 DEF AgentInv
  <2> QED BY <1>10, <2>4, <2>5 DEF resumeEnds
<1>11. ASSUME NEW c \in Clients, turnStarts(c) PROVE AgentInv' /\ (started => header' = header)
  <2>1. /\ calls[c].kind = "turn" /\ calls[c].step = "opened" /\ Goes(c, "running")
        /\ UNCHANGED <<row, header, started, isResident, opener, claimed, switching>>
        /\ agent' = [Wrote(agent, "turn/start") EXCEPT !.began = TRUE]
    BY <1>11 DEF turnStarts, Opened, durable, owners
  <2>2. PICK a : a = Wrote(agent, "turn/start") OBVIOUS
  <2>3. /\ IsAgent(a) /\ a.live = agent.live
        /\ \A i \in DOMAIN a.unsaved : (i \in DOMAIN agent.unsaved /\ a.unsaved[i] = agent.unsaved[i]) \/ a.unsaved[i] = "turn/start"
    BY <1>0, <2>2, WroteAgent DEF AgentEvents
  <2>4. agent' = [live |-> a.live, composed |-> a.composed, header |-> a.header, began |-> TRUE, unsaved |-> a.unsaved]
    BY <2>1, <2>2, <2>3 DEF IsAgent
  <2>5. IsAgent(agent') /\ agent'.live = agent.live /\ agent'.began /\ agent'.unsaved = a.unsaved
    BY <2>3, <2>4 DEF IsAgent
  <2>6. /\ calls' \in [Clients -> AgentCalls] /\ calls'[c].kind = "turn" /\ calls'[c].step = "running"
        /\ \A d \in Clients : d # c => calls'[d] = calls[d]
    BY <1>0, <2>1, CallGoes
  <2>7. isResident /\ agent.live BY <1>0, <2>1 DEF CallOK, ResidentOK
  <2>8. AgentTypeOK' /\ ResidentOK' /\ AgentKnowsItsLog'
    <3>1. AgentTypeOK' /\ ResidentOK' BY <1>0, <2>1, <2>5, <2>6, <2>7 DEF AgentTypeOK, ResidentOK
    <3>2. started => \A i \in DOMAIN agent'.unsaved : agent'.unsaved[i] \notin Presets
      BY <1>0, <2>3, <2>5 DEF AgentKnowsItsLog
    <3>3. row # "none" BY <1>0, <2>7 DEF AgentKnowsItsLog
    <3>4. AgentKnowsItsLog' BY <2>1, <2>5, <2>7, <3>2, <3>3 DEF AgentKnowsItsLog
    <3> QED BY <3>1, <3>4
  <2>9. CallOK(c)' BY <1>0, <2>1, <2>6, <2>7 DEF CallOK
  <2>10. ASSUME NEW d \in Clients, d # c PROVE CallOK(d)'
    BY <1>0, <2>1, <2>5, <2>6, <2>10 DEF CallOK
  <2> QED BY <2>1, <2>8, <2>9, <2>10 DEF AgentInv
<1>12. ASSUME NEW c \in Clients, callEnds(c) PROVE AgentInv' /\ (started => header' = header)
  <2>1. Ends(c) /\ UNCHANGED <<row, header, started, agent, isResident, opener>>
    BY <1>12 DEF callEnds, durable
  <2>2. CallOK(c)' BY <1>0, <2>1, CallEnds DEF CallOK
  <2>3. ASSUME NEW d \in Clients, d # c PROVE CallOK(d)' BY <1>0, <2>1, <2>3, CallEnds DEF CallOK
  <2> QED BY <1>0, <2>1, <2>2, <2>3, CallEnds, SameLog DEF AgentInv
<1>13. ASSUME NEW c \in Clients, recordSessionFeedback(c) PROVE AgentInv' /\ (started => header' = header)
  <2>1. /\ calls[c].kind = "feedback" /\ Goes(c, "flushing") /\ UNCHANGED <<row, header, started, isResident, opener, claimed, switching>>
        /\ agent' = agent \/ (agent.live /\ agent' = Wrote(agent, "feedback"))
    BY <1>13 DEF recordSessionFeedback, Opened, durable, owners
  <2>2. /\ IsAgent(agent') /\ agent'.live = agent.live /\ agent'.began = agent.began
        /\ \A i \in DOMAIN agent'.unsaved : (i \in DOMAIN agent.unsaved /\ agent'.unsaved[i] = agent.unsaved[i]) \/ agent'.unsaved[i] = "feedback"
        /\ ~agent.live => agent'.unsaved = agent.unsaved
    BY <1>0, <2>1, WroteAgent DEF AgentEvents
  <2>3. /\ calls' \in [Clients -> AgentCalls] /\ calls'[c].kind = "feedback" /\ calls'[c].step = "flushing"
        /\ \A d \in Clients : d # c => calls'[d] = calls[d]
    BY <1>0, <2>1, CallGoes
  <2>4. AgentTypeOK' /\ ResidentOK' /\ AgentKnowsItsLog'
    BY <1>0, <2>1, <2>2, <2>3 DEF AgentTypeOK, ResidentOK, AgentKnowsItsLog
  <2>5. CallOK(c)' BY <2>3 DEF CallOK
  <2>6. ASSUME NEW d \in Clients, d # c PROVE CallOK(d)' BY <1>0, <2>1, <2>2, <2>3, <2>6 DEF CallOK
  <2> QED BY <2>1, <2>4, <2>5, <2>6 DEF AgentInv
<1>14. ASSUME NEW c \in Clients, feedbackSaved(c) PROVE AgentInv' /\ (started => header' = header)
  <2>1. Ends(c) /\ UNCHANGED <<row, isResident, opener>> BY <1>14 DEF feedbackSaved
  <2>2. (Stores(agent.unsaved) /\ agent' = Saved(agent)) \/ UNCHANGED <<header, started, agent>>
    BY <1>14 DEF feedbackSaved
  <2>3. /\ IsAgent(agent') /\ agent'.live = agent.live /\ agent'.began = agent.began
        /\ agent'.unsaved = <<>> \/ (agent'.unsaved = agent.unsaved /\ started' = started)
    BY <1>0, <2>2, SavedAgent
  <2>4. /\ started' \in BOOLEAN /\ (started' => started \/ (agent.began /\ agent.live)) /\ (started => header' = header)
    BY <1>0, <2>2, Stored0 DEF AgentTypeOK
  <2>5. AgentTypeOK' /\ ResidentOK' /\ AgentKnowsItsLog'
    BY <1>0, <2>1, <2>3, <2>4, CallEnds DEF AgentTypeOK, ResidentOK, AgentKnowsItsLog
  <2>6. CallOK(c)' BY <1>0, <2>1, CallEnds DEF CallOK
  <2>7. ASSUME NEW d \in Clients, d # c PROVE CallOK(d)'
    BY <1>0, <2>1, <2>3, <2>7, CallEnds DEF CallOK
  <2> QED BY <2>4, <2>5, <2>6, <2>7 DEF AgentInv
<1>15. ASSUME NEW c \in Clients, presetChecked(c) PROVE AgentInv' /\ (started => header' = header)
  <2>1. /\ calls[c].kind = "switch" /\ calls[c].step = "opened" /\ UNCHANGED <<row, header, started, isResident, opener>>
    BY <1>15 DEF presetChecked, Opened, durable
  <2>2. isResident /\ agent.live BY <1>0, <2>1 DEF CallOK, ResidentOK
  <2>3. CASE ~agent.began /\ agent' = Wrote(agent, calls[c].preset) /\ Goes(c, "flushing") /\ UNCHANGED owners
    <3>1. PICK e : e = calls[c].preset /\ e \in Presets BY <1>0 DEF AgentTypeOK, AgentCalls
    <3>2. /\ IsAgent(agent') /\ agent'.live = agent.live /\ agent'.began = agent.began
          /\ \A i \in DOMAIN agent'.unsaved : (i \in DOMAIN agent.unsaved /\ agent'.unsaved[i] = agent.unsaved[i]) \/ agent'.unsaved[i] = e
      BY <1>0, <2>3, <3>1, WroteAgent DEF AgentEvents
    <3>3. /\ calls' \in [Clients -> AgentCalls] /\ calls'[c].kind = "switch" /\ calls'[c].step = "flushing"
          /\ \A d \in Clients : d # c => calls'[d] = calls[d]
      BY <1>0, <2>1, <2>3, CallGoes
    <3>4. ~started /\ UNCHANGED <<claimed, switching>> /\ e # "turn/start"
      BY <1>0, <2>2, <2>3, <3>1 DEF AgentKnowsItsLog, owners
    <3>5. AgentTypeOK' /\ ResidentOK' /\ AgentKnowsItsLog'
      BY <1>0, <2>1, <2>2, <3>2, <3>3, <3>4 DEF AgentTypeOK, ResidentOK, AgentKnowsItsLog
    <3>6. CallOK(c)' BY <1>0, <2>1, <2>2, <3>3, <3>4 DEF CallOK
    <3>7. ASSUME NEW d \in Clients, d # c PROVE CallOK(d)'
      BY <1>0, <2>1, <3>2, <3>3, <3>4, <3>7 DEF CallOK
    <3> QED BY <2>1, <3>5, <3>6, <3>7 DEF AgentInv
  <2>4. CASE Ends(c) /\ UNCHANGED agent
    <3>1. CallOK(c)' BY <1>0, <2>4, CallEnds DEF CallOK
    <3>2. ASSUME NEW d \in Clients, d # c PROVE CallOK(d)'
      BY <1>0, <2>1, <2>4, <3>2, CallEnds DEF CallOK
    <3> QED BY <1>0, <2>1, <2>4, <3>1, <3>2, CallEnds, SameLog DEF AgentInv
  <2> QED BY <1>15, <2>3, <2>4 DEF presetChecked, pickIfBlank
<1>16. ASSUME NEW c \in Clients, presetFlushed(c) PROVE AgentInv' /\ (started => header' = header)
  <2>1. calls[c].kind = "switch" /\ calls[c].step = "flushing" /\ UNCHANGED <<row, opener>>
    BY <1>16 DEF presetFlushed
  <2>2. isResident /\ agent.live /\ opener = NoClient /\ switching = c /\ row # "none"
    BY <1>0, <2>1 DEF CallOK, ResidentOK, AgentKnowsItsLog
  <2>3. CASE Stores(agent.unsaved) /\ agent' = Saved(agent) /\ isResident' = FALSE /\ Goes(c, "disposing") /\ UNCHANGED owners
    <3>1. IsAgent(agent') /\ agent'.live = agent.live /\ agent'.began = agent.began /\ agent'.unsaved = <<>>
      BY <1>0, <2>3, SavedAgent
    <3>2. /\ started' \in BOOLEAN /\ (started' => started \/ (agent.began /\ agent.live)) /\ (started => header' = header)
      BY <2>3, Stored0
    <3>3. /\ calls' \in [Clients -> AgentCalls] /\ calls'[c].kind = "switch" /\ calls'[c].step = "disposing"
          /\ \A d \in Clients : d # c => calls'[d] = calls[d]
      BY <1>0, <2>1, <2>3, CallGoes
    <3>4. UNCHANGED <<claimed, switching>> BY <2>3 DEF owners
    <3>5. AgentTypeOK' /\ ResidentOK' /\ AgentKnowsItsLog'
      <4>1. isResident' \in BOOLEAN BY <2>3, Zenon
      <4> QED BY <1>0, <2>1, <2>2, <2>3, <3>1, <3>2, <3>3, <4>1 DEF AgentTypeOK, ResidentOK, AgentKnowsItsLog
    <3>6. CallOK(c)' BY <1>0, <2>1, <2>2, <2>3, <3>1, <3>3, <3>4 DEF CallOK
    <3>7. ASSUME NEW d \in Clients, d # c PROVE CallOK(d)'
      BY <1>0, <2>1, <2>2, <2>3, <3>1, <3>3, <3>4, <3>7 DEF CallOK
    <3> QED BY <3>2, <3>5, <3>6, <3>7 DEF AgentInv
  <2>4. CASE Ends(c) /\ UNCHANGED <<header, started, recorded, agent, isResident>>
    <3>1. CallOK(c)' BY <1>0, <2>4, CallEnds DEF CallOK
    <3>2. ASSUME NEW d \in Clients, d # c PROVE CallOK(d)'
      BY <1>0, <2>1, <2>4, <3>2, CallEnds DEF CallOK
    <3> QED BY <1>0, <2>1, <2>4, <3>1, <3>2, CallEnds, SameLog DEF AgentInv
  <2> QED BY <1>16, <2>3, <2>4 DEF presetFlushed
<1>17. ASSUME NEW c \in Clients, disposeResidentAgent(c) PROVE AgentInv' /\ (started => header' = header)
  <2>1. calls[c].step = "disposing" /\ Ends(c) /\ UNCHANGED <<row, isResident, opener>>
    BY <1>17 DEF disposeResidentAgent
  <2>2. calls[c].kind = "switch" /\ agent.live /\ ~isResident /\ opener = NoClient /\ switching = c /\ row # "none"
    BY <1>0, <2>1 DEF CallOK, AgentKnowsItsLog
  <2>3. CASE agent' = NoAgent /\ Stores(agent.unsaved)
    <3>1. IsAgent(agent') /\ ~agent'.live /\ agent'.unsaved = <<>> BY <2>3 DEF NoAgent, IsAgent
    <3>2. started' \in BOOLEAN /\ (started => header' = header) BY <2>3, Stored0
    <3>3. AgentTypeOK' /\ ResidentOK' /\ AgentKnowsItsLog'
      BY <1>0, <2>1, <2>2, <3>1, <3>2, CallEnds DEF AgentTypeOK, ResidentOK, AgentKnowsItsLog
    <3>4. CallOK(c)' BY <1>0, <2>1, CallEnds DEF CallOK
    <3>5. ASSUME NEW d \in Clients, d # c PROVE CallOK(d)'
      BY <1>0, <2>1, <2>2, <3>1, <3>5, CallEnds DEF CallOK
    <3> QED BY <3>2, <3>3, <3>4, <3>5 DEF AgentInv
  <2>4. CASE UNCHANGED <<agent, header, started, recorded>>
    <3>1. CallOK(c)' BY <1>0, <2>1, CallEnds DEF CallOK
    <3>2. ASSUME NEW d \in Clients, d # c PROVE CallOK(d)'
      BY <1>0, <2>1, <2>4, <3>2, CallEnds DEF CallOK
    <3> QED BY <1>0, <2>1, <2>4, <3>1, <3>2, CallEnds, SameLog DEF AgentInv
  <2> QED BY <1>17, <2>3, <2>4 DEF disposeResidentAgent
<1> QED BY <1>1, <1>2, <1>3, <1>4, <1>5, <1>6, <1>7, <1>8, <1>9, <1>10, <1>11, <1>12, <1>13, <1>14, <1>15, <1>16, <1>17 DEF AgentsNext

\* The agent's invariant holds before there is a session.
LEMMA AgentsInit0 == AgentsInit => AgentInv
<1> SUFFICES ASSUME AgentsInit PROVE AgentInv OBVIOUS
<1>1. Idle \in AgentCalls /\ Idle.kind = "none" /\ Idle.step = "idle"
  BY PresetsOffered DEF Idle, AgentCalls
<1>2. calls = [c \in Clients |-> Idle] BY DEF AgentsInit
<1>3. IsAgent(agent) /\ ~agent.live /\ agent.unsaved = <<>> BY DEF AgentsInit, NoAgent, IsAgent
<1>4. AgentTypeOK /\ ResidentOK /\ AgentKnowsItsLog
  <2>1. started \in BOOLEAN /\ isResident \in BOOLEAN BY Zenon DEF AgentsInit
  <2>2. row = "none" /\ ~started /\ ~isResident /\ opener = NoClient BY DEF AgentsInit
  <2> QED BY <1>1, <1>2, <1>3, <2>1, <2>2 DEF AgentTypeOK, ResidentOK, AgentKnowsItsLog
<1>5. \A c \in Clients : CallOK(c) BY <1>1, <1>2 DEF CallOK
<1> QED BY <1>4, <1>5 DEF AgentInv

\* The invariant of what a session runs on: wherever a choice of model may be
\* read from there is one in force, and the calls that share the agent exclude
\* each other where they could dispose of it.
THEOREM RunsInvariant == RunsSpec => [](ChoiceInv /\ AgentInv)
<1>1. ChoiceInit /\ AgentsInit => ChoiceInv /\ AgentInv BY ChoiceInit0, AgentsInit0
<1>2. ChoiceInv /\ UNCHANGED choiceVars => ChoiceInv'
  BY DEF choiceVars, ChoiceInv, ChoiceTypeOK, SourcesInForce, Fallback, PublishedIsRead, AdmittedIsRead
<1>3. AgentInv /\ UNCHANGED agentVars => AgentInv'
  <2> SUFFICES ASSUME AgentInv, UNCHANGED agentVars PROVE AgentInv' OBVIOUS
  <2>1. UNCHANGED <<row, started, agent, isResident, opener, calls, claimed, switching>>
    BY DEF agentVars
  <2>2. ASSUME NEW c \in Clients PROVE CallOK(c)' BY <2>1 DEF AgentInv, CallOK
  <2>3. calls' \in [Clients -> AgentCalls] BY <2>1 DEF AgentInv, AgentTypeOK
  <2> QED BY <2>1, <2>2, <2>3, SameLog DEF AgentInv
<1>4. ChoiceInv /\ AgentInv /\ [(ChoiceNext /\ UNCHANGED agentVars) \/ (AgentsNext /\ UNCHANGED choiceVars)]_<<choiceVars, agentVars>>
        => ChoiceInv' /\ AgentInv'
  BY <1>2, <1>3, ChoiceStep, AgentStep
<1> QED BY <1>1, <1>4, PTL DEF RunsSpec

\* The acknowledged choice of a model stays in force through turns, retries and
\* evictions, and a turn keeps the agent it opened.
THEOREM ChoicesCorrect == RunsSpec => []ChoicesHold
<1>1. ChoiceInv => ChoiceIsInForce
  BY DEF ChoiceInv, SourcesInForce, ChoiceIsInForce, modelSelection, agentPending, Bridged, current
<1>2. AgentInv => TurnKeepsItsAgent BY DEF AgentInv, CallOK, ResidentOK, TurnKeepsItsAgent
<1> QED BY <1>1, <1>2, RunsInvariant, PTL DEF ChoicesHold

\* Images are taken only while the choice in force reads them, and the preset of
\* a session with a turn never changes.
THEOREM RunsStepsCorrect == RunsSpec => ImagesMeetTheirModel /\ PresetIsFixed
<1>1. ASSUME ChoiceInv, ChoiceNext, waiting' > waiting \/ (images' /\ ~images /\ waiting' = waiting), Cardinality(inForce) = 1
      PROVE  inForce \subseteq VisionModels
  <2>1. PICK m : inForce = {m} BY <1>1, FS_Singleton DEF ChoiceInv, ChoiceTypeOK
  <2> QED BY <1>1, <2>1, ChoiceStep
<1>2. ChoiceInv /\ [(ChoiceNext /\ UNCHANGED agentVars) \/ (AgentsNext /\ UNCHANGED choiceVars)]_<<choiceVars, agentVars>>
        => [(waiting' > waiting \/ (images' /\ ~images /\ waiting' = waiting))
              /\ Cardinality(inForce) = 1 => inForce \subseteq VisionModels]_choiceVars
  BY <1>1
<1>3. AgentInv /\ [(ChoiceNext /\ UNCHANGED agentVars) \/ (AgentsNext /\ UNCHANGED choiceVars)]_<<choiceVars, agentVars>>
        => [started => header' = header]_agentVars
  BY AgentStep
<1> QED BY <1>2, <1>3, RunsInvariant, PTL DEF RunsSpec, ImagesMeetTheirModel, PresetIsFixed

----------------------------------------
(* Receipts of uploads.  Prompts that bind one receipt form a pile: each   *)
(* has noted whom it took the receipt from.  From the one that holds the   *)
(* receipt, what was noted leads to no free receipt without passing any    *)
(* given one that is open (`Behind`).  The Agent's registry may be staler  *)
(* than the rows; with what a prompt noted of it, it is in step with them  *)
(* down to that prompt (`InStep`).                                         *)

RowHolder(r) == uploadRow[r].request
ReceiptTypes ==
    /\ prompt \in [Requests -> {"new", "bound", "delivered", "answered", "unheld", "recorded", "removed"}]
    /\ bound = [p \in Requests |-> bound[p]]
    /\ \A p \in Requests : bound[p] = [rows |-> bound[p].rows, files |-> bound[p].files]
    /\ \A r \in DOMAIN uploadRow : uploadRow[r] = [request |-> uploadRow[r].request, age |-> uploadRow[r].age]
BoundBefore(p) ==
    /\ DOMAIN bound[p].files \subseteq DOMAIN bound[p].rows
    /\ DOMAIN bound[p].rows \subseteq uploaded
    /\ prompt[p] = "new" => bound[p] = NoBinding

Behind(p, r, pile) ==
    /\ RowHolder(r) \in pile
    /\ \A x \in pile \ {p} : r \in DOMAIN bound[x].rows => bound[x].rows[r] \in pile
InStep(p, r, pile) ==
    /\ Behind(p, r, pile)
    /\ r \in DOMAIN staged => staged[r] = RowHolder(r)
    /\ \A x \in pile \ {p} : r \in DOMAIN bound[x].rows =>
          r \in DOMAIN bound[x].files /\ bound[x].files[r] = bound[x].rows[r]
BindingOK(p, r) ==
    /\ r \in DOMAIN bound[p].rows => \E pile \in SUBSET Requests : Behind(p, r, pile)
    /\ r \in DOMAIN bound[p].files =>
          /\ \E pile \in SUBSET Requests : InStep(p, r, pile)
          /\ bound[p].files[r] = Unbound => bound[p].rows[r] = Unbound

Accounted ==
    /\ uploaded = DOMAIN uploadRow \cup used \cup expired
    /\ DOMAIN uploadRow \cap used = {} /\ DOMAIN staged \subseteq uploaded
FreeIsFree ==
    \A r \in DOMAIN staged \cap DOMAIN uploadRow : staged[r] = Unbound => RowHolder(r) = Unbound
UsedIsTaken ==
    \A r \in DOMAIN staged \cap used :
       /\ staged[r] # Unbound
       /\ \A p \in Requests : r \in DOMAIN bound[p].files => bound[p].files[r] # Unbound
AgentHolds ==
    ~agentLive => DOMAIN staged = {} /\ \A p \in Requests : DOMAIN bound[p].files = {}
ReceiptInv ==
    /\ ReceiptTypes /\ Accounted /\ FreeIsFree /\ UsedIsTaken /\ AgentHolds
    /\ \A p \in Requests : BoundBefore(p)
    /\ \A p \in Requests : \A r \in DOMAIN uploadRow : BindingOK(p, r)

LEMMA NothingBound == DOMAIN <<>> = {}
  OBVIOUS

LEMMA ReceiptInvInit == ReceiptInit => ReceiptInv
<1> SUFFICES ASSUME ReceiptInit PROVE ReceiptInv OBVIOUS
<1> USE NothingBound DEF ReceiptInit
<1>1. ReceiptTypes BY DEF ReceiptTypes, NoBinding
<1>2. Accounted /\ FreeIsFree /\ UsedIsTaken /\ AgentHolds
  BY DEF Accounted, FreeIsFree, UsedIsTaken, AgentHolds, NoBinding
<1>3. \A p \in Requests : BoundBefore(p) BY DEF BoundBefore, NoBinding
<1> QED BY <1>1, <1>2, <1>3 DEF ReceiptInv

\* What leaves the bindings alone, adds rows only for new receipts and restores
\* registry entries from their rows.
LEMMA BindingsStand ==
    ASSUME ReceiptInv, ReceiptTypes', Accounted', bound' = bound, agentLive' = agentLive, uploaded \subseteq uploaded', used \subseteq used',
           \A p \in Requests : prompt'[p] = "new" => prompt[p] = "new",
           \A r \in DOMAIN uploadRow' :
              IF r \in DOMAIN uploadRow THEN RowHolder(r)' = RowHolder(r) ELSE r \notin uploaded /\ RowHolder(r)' = Unbound,
           \A r \in DOMAIN staged' :
              \/ r \in DOMAIN staged /\ staged'[r] = staged[r]
              \/ agentLive /\ r \notin DOMAIN staged /\ r \in DOMAIN uploadRow' /\ staged'[r] = RowHolder(r)',
           \A r \in used' \ used :
              /\ r \in DOMAIN uploadRow /\ RowHolder(r) # Unbound
              /\ r \in DOMAIN staged' => r \in DOMAIN staged /\ staged'[r] = staged[r] /\ staged[r] # RowHolder(r)
    PROVE  ReceiptInv'
<1>1. /\ Accounted /\ FreeIsFree /\ UsedIsTaken /\ AgentHolds
      /\ \A p \in Requests : BoundBefore(p) /\ \A r \in DOMAIN uploadRow : BindingOK(p, r)
  BY DEF ReceiptInv
<1>2. FreeIsFree' BY <1>1 DEF FreeIsFree, Accounted
<1>3. UsedIsTaken'
  <2> SUFFICES ASSUME NEW r \in DOMAIN staged' \cap used'
               PROVE  /\ staged'[r] # Unbound
                      /\ \A p \in Requests : r \in DOMAIN bound'[p].files => bound'[p].files[r] # Unbound
    BY DEF UsedIsTaken
  <2>1. r \notin DOMAIN uploadRow' BY DEF Accounted
  <2>2. r \in DOMAIN staged /\ staged'[r] = staged[r] BY <2>1
  <2>3. CASE r \in used BY <2>2, <2>3, <1>1 DEF UsedIsTaken
  <2>4. CASE r \notin used
    <3>1. r \in DOMAIN uploadRow /\ RowHolder(r) # Unbound /\ staged[r] # RowHolder(r) BY <2>4, <2>2
    <3>2. staged[r] # Unbound BY <3>1, <2>2, <1>1 DEF FreeIsFree
    <3>3. ASSUME NEW p \in Requests PROVE r \notin DOMAIN bound[p].files
      <4>1. BindingOK(p, r) BY <3>1, <1>1
      <4> QED BY <4>1, <3>1, <2>2 DEF BindingOK, InStep
    <3> QED BY <3>2, <3>3, <2>2
  <2> QED BY <2>3, <2>4
<1>4. ASSUME NEW p \in Requests PROVE BoundBefore(p)' BY <1>1 DEF BoundBefore
<1>5. ASSUME NEW p \in Requests, NEW r \in DOMAIN uploadRow' PROVE BindingOK(p, r)'
  <2>1. CASE r \notin DOMAIN uploadRow BY <2>1, <1>1 DEF BoundBefore, BindingOK
  <2>2. CASE r \in DOMAIN uploadRow
    <3>1. BindingOK(p, r) /\ RowHolder(r)' = RowHolder(r) BY <2>2, <1>1
    <3>2. r \in DOMAIN staged' => \/ r \in DOMAIN staged /\ staged'[r] = staged[r]
                                  \/ staged'[r] = RowHolder(r)'
      OBVIOUS
    <3>3. ASSUME NEW pile \in SUBSET Requests, Behind(p, r, pile) PROVE Behind(p, r, pile)'
      BY <3>3, <3>1 DEF Behind
    <3>4. ASSUME NEW pile \in SUBSET Requests, InStep(p, r, pile) PROVE InStep(p, r, pile)'
      BY <3>4, <3>1, <3>2, <3>3 DEF InStep
    <3>5. r \in DOMAIN bound'[p].rows => \E pile \in SUBSET Requests : Behind(p, r, pile)'
      BY <3>1, <3>3 DEF BindingOK
    <3>6. r \in DOMAIN bound'[p].files =>
            /\ \E pile \in SUBSET Requests : InStep(p, r, pile)'
            /\ bound'[p].files[r] = Unbound => bound'[p].rows[r] = Unbound
      BY <3>1, <3>4 DEF BindingOK
    <3> QED BY <3>5, <3>6 DEF BindingOK
  <2> QED BY <2>1, <2>2
<1>6. AgentHolds' BY <1>1 DEF AgentHolds
<1> QED BY <1>2, <1>3, <1>4, <1>5, <1>6 DEF ReceiptInv

\* Bindings without files, and a registry without receipts.
LEMMA RegistryGone ==
    ASSUME ReceiptInv, ReceiptTypes', uploadRow' = uploadRow, uploaded' = uploaded, used' = used, expired' = expired,
           staged' = <<>>,
           \A p \in Requests : /\ bound'[p].files = <<>>
                               /\ bound'[p] = NoBinding \/ bound'[p].rows = bound[p].rows
                               /\ prompt'[p] = "new" => bound'[p] = NoBinding,
           \A p \in Requests : \A x \in Requests :
              bound'[p].rows = bound[p].rows => bound'[x].rows = bound[x].rows \/ bound'[x].rows = <<>>
    PROVE  ReceiptInv'
<1> USE NothingBound
<1>1. /\ Accounted /\ \A p \in Requests : BoundBefore(p) /\ \A r \in DOMAIN uploadRow : BindingOK(p, r)
  BY DEF ReceiptInv
<1>2. Accounted' /\ FreeIsFree' /\ UsedIsTaken' /\ AgentHolds'
  BY <1>1 DEF Accounted, FreeIsFree, UsedIsTaken, AgentHolds
<1>3. ASSUME NEW p \in Requests PROVE BoundBefore(p)' BY <1>1 DEF BoundBefore, NoBinding
<1>4. ASSUME NEW p \in Requests, NEW r \in DOMAIN uploadRow' PROVE BindingOK(p, r)'
  <2>1. BindingOK(p, r) /\ RowHolder(r)' = RowHolder(r) /\ r \notin DOMAIN bound'[p].files
    BY <1>1 DEF RowHolder
  <2>2. ASSUME r \in DOMAIN bound'[p].rows PROVE \E pile \in SUBSET Requests : Behind(p, r, pile)'
    <3>1. bound'[p].rows = bound[p].rows BY <2>2 DEF NoBinding
    <3>2. PICK pile \in SUBSET Requests : Behind(p, r, pile) BY <2>1, <2>2, <3>1 DEF BindingOK
    <3>3. ASSUME NEW x \in pile \ {p}, r \in DOMAIN bound'[x].rows PROVE bound'[x].rows[r] \in pile
      <4>1. bound'[x].rows = bound[x].rows BY <3>3 DEF NoBinding
      <4> QED BY <4>1, <3>2, <3>3 DEF Behind
    <3>4. Behind(p, r, pile)' BY <3>2, <3>3, <2>1 DEF Behind
    <3> QED BY <3>4
  <2> QED BY <2>1, <2>2 DEF BindingOK
<1> QED BY <1>2, <1>3, <1>4 DEF ReceiptInv

LEMMA QuietReceiptSteps ==
    ASSUME ReceiptInv,
           \/ \E r \in Receipts : record(r)
           \/ \E p \in Requests : \/ \E S \in SUBSET Receipts : BindFails(p, S)
                                  \/ Delivered(p) \/ commit(p) \/ RetireFails(p)
                                  \/ Retired(p, "recorded") \/ Retired(p, "removed")
           \/ Day
    PROVE  ReceiptInv'
<1>1. /\ ReceiptTypes /\ Accounted /\ FreeIsFree BY DEF ReceiptInv
<1>2. ASSUME NEW r \in Receipts, record(r) PROVE ReceiptInv'
  <2>1. PICK old \in SUBSET Expired :
          /\ uploadRow' = Join(Drop(uploadRow, old), [e \in {r} |-> [request |-> Unbound, age |-> 0]])
          /\ expired' = expired \cup old
    BY <1>2 DEF record
  <2>2. /\ r \notin uploaded /\ uploaded' = uploaded \cup {r} /\ UNCHANGED <<agentLive, prompt, bound, used>>
        /\ staged' = IF agentLive THEN Join(staged, [e \in {r} |-> Unbound]) ELSE staged
    BY <1>2 DEF record
  <2>3. DOMAIN uploadRow' = (DOMAIN uploadRow \ old) \cup {r} /\ old \subseteq DOMAIN uploadRow
    BY <2>1 DEF Join, Drop, Expired
  <2>4. /\ uploadRow'[r] = [request |-> Unbound, age |-> 0]
        /\ \A e \in DOMAIN uploadRow' \ {r} : uploadRow'[e] = uploadRow[e]
    BY <2>1, <2>3 DEF Join, Drop
  <2>5. /\ DOMAIN staged' \subseteq DOMAIN staged \cup {r}
        /\ \A e \in DOMAIN staged' : IF e = r THEN staged'[e] = Unbound \/ e \in DOMAIN staged
                                     ELSE e \in DOMAIN staged /\ staged'[e] = staged[e]
    BY <2>2 DEF Join
  <2>6. r \notin DOMAIN staged /\ r \notin DOMAIN uploadRow /\ r \notin used
    BY <2>2, <1>1 DEF Accounted
  <2>7. ReceiptTypes' BY <2>2, <2>3, <2>4, <1>1 DEF ReceiptTypes
  <2>8. Accounted' BY <2>1, <2>2, <2>3, <2>5, <2>6, <1>1 DEF Accounted
  <2>9. \A e \in DOMAIN uploadRow' :
           IF e \in DOMAIN uploadRow THEN RowHolder(e)' = RowHolder(e) ELSE e \notin uploaded /\ RowHolder(e)' = Unbound
    BY <2>2, <2>3, <2>4, <2>6 DEF RowHolder
  <2>10. \A e \in DOMAIN staged' : \/ e \in DOMAIN staged /\ staged'[e] = staged[e]
                                   \/ agentLive /\ e \notin DOMAIN staged /\ e \in DOMAIN uploadRow' /\ staged'[e] = RowHolder(e)'
    BY <2>2, <2>3, <2>4, <2>5, <2>6 DEF RowHolder
  <2> QED BY <2>2, <2>7, <2>8, <2>9, <2>10, BindingsStand
<1>3. ASSUME NEW p \in Requests, NEW S \in SUBSET Receipts, BindFails(p, S) PROVE ReceiptInv'
  <2>1. /\ staged' = Restored(S) /\ UNCHANGED <<uploadRow, uploaded, agentLive, prompt, bound, used, expired>>
        /\ agentLive /\ \A r \in S : Resolved(r)
    BY <1>3 DEF BindFails
  <2>2. \A r \in DOMAIN staged' : IF r \in DOMAIN staged THEN staged'[r] = staged[r]
                                  ELSE Fresh(r) /\ staged'[r] = uploadRow[r].request
    BY <2>1 DEF Restored, Join
  <2>3. ReceiptTypes' BY <2>1, <1>1 DEF ReceiptTypes
  <2>4. Accounted' BY <2>1, <2>2, <1>1 DEF Accounted, Fresh
  <2>5. \A r \in DOMAIN uploadRow' : r \in DOMAIN uploadRow /\ RowHolder(r)' = RowHolder(r)
    BY <2>1 DEF RowHolder
  <2>6. \A r \in DOMAIN staged' : \/ r \in DOMAIN staged /\ staged'[r] = staged[r]
                                  \/ agentLive /\ r \notin DOMAIN staged /\ r \in DOMAIN uploadRow' /\ staged'[r] = RowHolder(r)'
    BY <2>1, <2>2 DEF RowHolder, Fresh
  <2> QED BY <2>1, <2>3, <2>4, <2>5, <2>6, BindingsStand
<1>4. ASSUME NEW p \in Requests, Delivered(p) \/ commit(p) PROVE ReceiptInv'
  <2>1. /\ UNCHANGED <<uploadRow, uploaded, agentLive, staged, bound, used, expired>>
        /\ \E to \in {"delivered", "answered"} : prompt' = [prompt EXCEPT ![p] = to]
    BY <1>4 DEF Delivered, commit
  <2>2. ReceiptTypes' /\ \A x \in Requests : prompt'[x] = "new" => prompt[x] = "new"
    BY <2>1, <1>1 DEF ReceiptTypes
  <2>3. Accounted' BY <2>1, <1>1 DEF Accounted
  <2>4. \A r \in DOMAIN uploadRow' : r \in DOMAIN uploadRow /\ RowHolder(r)' = RowHolder(r)
    BY <2>1 DEF RowHolder
  <2> QED BY <2>1, <2>2, <2>3, <2>4, BindingsStand
<1>5. ASSUME NEW p \in Requests, RetireFails(p) \/ Retired(p, "recorded") \/ Retired(p, "removed") PROVE ReceiptInv'
  <2>1. /\ UNCHANGED <<uploaded, agentLive, bound, expired>>
        /\ \E to \in {"recorded", "removed"} : prompt' = [prompt EXCEPT ![p] = to]
        /\ staged' = Drop(staged, {r \in DOMAIN staged : staged[r] = p})
        /\ \/ UNCHANGED <<uploadRow, used>>
           \/ /\ uploadRow' = Drop(uploadRow, {r \in DOMAIN uploadRow : uploadRow[r].request = p})
              /\ used' = used \cup {r \in DOMAIN uploadRow : uploadRow[r].request = p}
    BY <1>5 DEF RetireFails, Retired, forget
  <2>2. \A r \in DOMAIN staged' : r \in DOMAIN staged /\ staged'[r] = staged[r] /\ staged[r] # p
    BY <2>1 DEF Drop
  <2>3. /\ \A r \in DOMAIN uploadRow' : r \in DOMAIN uploadRow /\ uploadRow'[r] = uploadRow[r]
        /\ \A r \in used' \ used : r \in DOMAIN uploadRow /\ uploadRow[r].request = p
        /\ used \subseteq used'
    BY <2>1 DEF Drop
  <2>4. ReceiptTypes' /\ \A x \in Requests : prompt'[x] = "new" => prompt[x] = "new"
    BY <2>1, <2>3, <1>1 DEF ReceiptTypes
  <2>5. Accounted' BY <2>1, <1>1 DEF Accounted, Drop
  <2>6. p # Unbound BY RequestsAreNamed
  <2> QED BY <2>1, <2>2, <2>3, <2>4, <2>5, <2>6, BindingsStand DEF RowHolder
<1>6. CASE Day
  <2>1. /\ DOMAIN uploadRow' = DOMAIN uploadRow /\ UNCHANGED <<uploaded, agentLive, staged, prompt, bound, used, expired>>
        /\ \A r \in DOMAIN uploadRow :
              uploadRow'[r] = [uploadRow[r] EXCEPT !.age = IF @ < Retention THEN @ + 1 ELSE @]
    BY <1>6 DEF Day
  <2>2. \A r \in DOMAIN uploadRow : uploadRow'[r].request = uploadRow[r].request
                                    /\ uploadRow'[r] = [request |-> uploadRow'[r].request, age |-> uploadRow'[r].age]
    BY <2>1, <1>1 DEF ReceiptTypes
  <2>3. ReceiptTypes' BY <2>1, <2>2, <1>1 DEF ReceiptTypes
  <2>4. Accounted' BY <2>1, <1>1 DEF Accounted
  <2> QED BY <2>1, <2>2, <2>3, <2>4, BindingsStand DEF RowHolder
<1> QED BY <1>2, <1>3, <1>4, <1>5, <1>6

\* A prompt that binds is on top of every pile of what it binds.
LEMMA BindKeeps ==
    ASSUME ReceiptInv, NEW p \in Requests, NEW S \in SUBSET Receipts, bindPromptFiles(p, S)
    PROVE  ReceiptInv'
<1> USE NothingBound
<1>1. /\ ReceiptTypes /\ Accounted /\ FreeIsFree /\ UsedIsTaken /\ AgentHolds
      /\ \A x \in Requests : BoundBefore(x) /\ \A r \in DOMAIN uploadRow : BindingOK(x, r)
  BY DEF ReceiptInv
<1>2. /\ prompt[p] = "new" /\ \A r \in S : Resolved(r)
      /\ prompt' = [prompt EXCEPT ![p] = "bound"]
      /\ staged' = IF agentLive THEN Join(Restored(S), [r \in S |-> p]) ELSE staged
      /\ uploadRow' = SetRequests([r \in S |-> p])
      /\ UNCHANGED <<uploaded, agentLive, used, expired>>
  BY DEF bindPromptFiles
<1> DEFINE priors == [r \in S |-> IF r \in DOMAIN uploadRow THEN uploadRow[r].request ELSE Unbound]
           files == IF agentLive THEN [r \in S |-> Restored(S)[r]] ELSE <<>>
<1>3. bound' = [bound EXCEPT ![p] = [rows |-> priors, files |-> files]] BY DEF bindPromptFiles
<1>4. /\ DOMAIN priors = S /\ DOMAIN files \subseteq S
      /\ \A r \in S \cap DOMAIN uploadRow : priors[r] = RowHolder(r)
      /\ \A r \in DOMAIN files : agentLive /\ files[r] = Restored(S)[r]
      /\ agentLive => DOMAIN files = S
  BY DEF RowHolder
<1>5. \A r \in S : IF r \in DOMAIN staged THEN Restored(S)[r] = staged[r]
                   ELSE r \in DOMAIN uploadRow /\ Restored(S)[r] = RowHolder(r)
  BY <1>2 DEF Restored, Join, Resolved, Fresh, RowHolder
<1>7. /\ bound'[p].rows = priors /\ bound'[p].files = files
      /\ \A x \in Requests \ {p} : bound'[x] = bound[x]
  BY <1>3, <1>1 DEF ReceiptTypes
<1>8. /\ DOMAIN uploadRow' = DOMAIN uploadRow
      /\ \A r \in DOMAIN uploadRow : RowHolder(r)' = IF r \in S THEN p ELSE RowHolder(r)
      /\ \A r \in DOMAIN uploadRow :
            uploadRow'[r] = [request |-> uploadRow'[r].request, age |-> uploadRow'[r].age]
  BY <1>1, <1>2 DEF SetRequests, RowHolder, ReceiptTypes
<1>9. \A r \in DOMAIN staged' : IF r \in S /\ agentLive THEN staged'[r] = p
                                ELSE r \in DOMAIN staged /\ staged'[r] = staged[r]
  BY <1>2 DEF Join, Restored
<1>10. DOMAIN staged' \subseteq DOMAIN staged \cup S BY <1>2 DEF Join, Restored
<1>11. S \subseteq uploaded BY <1>1, <1>2 DEF Accounted, Resolved, Fresh
<1> HIDE DEF priors, files
<1>12. ReceiptTypes'
  <2>1. prompt' \in [Requests -> {"new", "bound", "delivered", "answered", "unheld", "recorded", "removed"}]
    BY <1>1, <1>2 DEF ReceiptTypes
  <2>2. /\ bound' = [x \in Requests |-> bound'[x]]
        /\ \A x \in Requests : bound'[x] = [rows |-> bound'[x].rows, files |-> bound'[x].files]
    BY <1>1, <1>3 DEF ReceiptTypes
  <2> QED BY <2>1, <2>2, <1>8 DEF ReceiptTypes
<1>13. Accounted' BY <1>1, <1>2, <1>8, <1>10, <1>11 DEF Accounted
<1>14. p # Unbound BY RequestsAreNamed
<1>15. FreeIsFree'
  <2> SUFFICES ASSUME NEW r \in DOMAIN staged' \cap DOMAIN uploadRow', staged'[r] = Unbound
               PROVE  RowHolder(r)' = Unbound
    BY DEF FreeIsFree
  <2>1. r \in DOMAIN staged /\ staged[r] = Unbound /\ ~(r \in S /\ agentLive) BY <1>9, <1>14
  <2>2. RowHolder(r) = Unbound BY <2>1, <1>1, <1>8 DEF FreeIsFree
  <2>3. r \notin S BY <2>1, <2>2, <1>1, <1>2 DEF AgentHolds
  <2> QED BY <2>2, <2>3, <1>8
<1>16. UsedIsTaken'
  <2> SUFFICES ASSUME NEW r \in DOMAIN staged' \cap used'
               PROVE  /\ staged'[r] # Unbound
                      /\ \A x \in Requests : r \in DOMAIN bound'[x].files => bound'[x].files[r] # Unbound
    BY DEF UsedIsTaken
  <2>1. r \in used /\ r \notin DOMAIN uploadRow BY <1>1, <1>2 DEF Accounted
  <2>2. r \in DOMAIN staged BY <2>1, <1>5, <1>10
  <2>3. staged[r] # Unbound /\ \A x \in Requests : r \in DOMAIN bound[x].files => bound[x].files[r] # Unbound
    BY <2>1, <2>2, <1>1 DEF UsedIsTaken
  <2>4. staged'[r] # Unbound BY <2>3, <1>9, <1>14
  <2>5. r \in DOMAIN files => files[r] # Unbound BY <2>2, <2>3, <1>4, <1>5
  <2> QED BY <2>3, <2>4, <2>5, <1>7
<1>17. ASSUME NEW x \in Requests PROVE BoundBefore(x)'
  <2>1. prompt'[p] = "bound" /\ \A y \in Requests \ {p} : prompt'[y] = prompt[y]
    BY <1>1, <1>2 DEF ReceiptTypes
  <2>2. CASE x = p
    <3>1. DOMAIN files \subseteq DOMAIN priors /\ DOMAIN priors \subseteq uploaded'
      BY <1>2, <1>4, <1>11
    <3> QED BY <2>1, <2>2, <3>1, <1>7 DEF BoundBefore
  <2>3. CASE x # p BY <2>1, <2>3, <1>1, <1>2, <1>7 DEF BoundBefore
  <2> QED BY <2>2, <2>3
<1>18. ASSUME NEW x \in Requests, NEW r \in DOMAIN uploadRow' PROVE BindingOK(x, r)'
  <2>1. r \in DOMAIN uploadRow /\ BindingOK(x, r) /\ BindingOK(p, r) BY <1>1, <1>8
  <2>2. CASE x = p
    <3>1. CASE r \in S
      <4>1. InStep(p, r, {p})' /\ Behind(p, r, {p})'
        <5>1. RowHolder(r)' = p BY <3>1, <2>1, <1>8
        <5>2. Behind(p, r, {p})' BY <5>1 DEF Behind
        <5>3. r \in DOMAIN staged' => staged'[r] = p BY <3>1, <1>1, <1>2, <1>9 DEF AgentHolds
        <5> QED BY <5>1, <5>2, <5>3 DEF InStep
      <4>2. r \in DOMAIN files => (files[r] = Unbound => priors[r] = Unbound)
        <5>1. CASE r \in DOMAIN staged BY <5>1, <3>1, <2>1, <1>1, <1>4, <1>5 DEF FreeIsFree
        <5>2. CASE r \notin DOMAIN staged BY <5>2, <3>1, <2>1, <1>4, <1>5
        <5> QED BY <5>1, <5>2
      <4>3. {p} \in SUBSET Requests OBVIOUS
      <4> QED BY <4>1, <4>2, <4>3, <2>2, <1>7 DEF BindingOK
    <3>2. CASE r \notin S BY <3>2, <2>2, <1>4, <1>7 DEF BindingOK
    <3> QED BY <3>1, <3>2
  <2>3. CASE x # p
    <3>1. bound'[x] = bound[x] BY <2>3, <1>7
    <3> DEFINE wider(pile) == IF r \in S THEN pile \cup {p} ELSE pile
    <3>2. ASSUME NEW pile \in SUBSET Requests, Behind(x, r, pile)
          PROVE  wider(pile) \in SUBSET Requests /\ Behind(x, r, wider(pile))'
      <4>1. RowHolder(r)' \in wider(pile) /\ RowHolder(r) \in pile /\ pile \subseteq wider(pile)
        BY <3>2, <2>1, <1>8 DEF Behind
      <4>2. ASSUME NEW y \in wider(pile) \ {x}, r \in DOMAIN bound'[y].rows
            PROVE  bound'[y].rows[r] \in wider(pile)
        <5>1. CASE y = p BY <5>1, <4>1, <4>2, <2>1, <1>4, <1>7
        <5>2. CASE y # p BY <5>2, <4>1, <4>2, <3>2, <1>7 DEF Behind
        <5> QED BY <5>1, <5>2
      <4> QED BY <4>1, <4>2 DEF Behind
    <3>3. ASSUME NEW pile \in SUBSET Requests, InStep(x, r, pile), r \in DOMAIN bound[x].files
          PROVE  InStep(x, r, wider(pile))'
      <4>1. Behind(x, r, wider(pile))' BY <3>2, <3>3 DEF InStep
      <4>2. r \in S => agentLive BY <3>3, <1>1 DEF AgentHolds
      <4>3. r \in DOMAIN staged' => staged'[r] = RowHolder(r)'
        BY <4>2, <3>3, <2>1, <1>8, <1>9 DEF InStep
      <4>4. ASSUME NEW y \in wider(pile) \ {x}, r \in DOMAIN bound'[y].rows
            PROVE  r \in DOMAIN bound'[y].files /\ bound'[y].files[r] = bound'[y].rows[r]
        <5>1. CASE y = p
          <6>1. r \in S /\ agentLive BY <5>1, <4>2, <4>4, <1>4, <1>7
          <6>2. r \in DOMAIN files /\ priors[r] = RowHolder(r) /\ files[r] = Restored(S)[r]
            BY <6>1, <2>1, <1>4
          <6>3. Restored(S)[r] = RowHolder(r) BY <6>1, <1>5, <3>3 DEF InStep
          <6> QED BY <6>2, <6>3, <5>1, <1>7
        <5>2. CASE y # p BY <5>2, <4>4, <3>3, <1>7 DEF InStep
        <5> QED BY <5>1, <5>2
      <4> QED BY <4>1, <4>3, <4>4 DEF InStep
    <3>4. r \in DOMAIN bound'[x].rows => \E pile \in SUBSET Requests : Behind(x, r, pile)'
      <4> HIDE DEF wider
      <4> QED BY <3>1, <3>2, <2>1 DEF BindingOK
    <3>5. r \in DOMAIN bound'[x].files =>
            /\ \E pile \in SUBSET Requests : InStep(x, r, pile)'
            /\ bound'[x].files[r] = Unbound => bound'[x].rows[r] = Unbound
      <4>1. SUFFICES ASSUME r \in DOMAIN bound[x].files
                     PROVE  \E pile \in SUBSET Requests : InStep(x, r, pile)'
        BY <3>1, <2>1 DEF BindingOK
      <4>2. PICK pile \in SUBSET Requests : InStep(x, r, pile) BY <4>1, <2>1 DEF BindingOK
      <4>3. wider(pile) \in SUBSET Requests /\ InStep(x, r, wider(pile))'
        BY <4>1, <4>2, <3>2, <3>3 DEF InStep
      <4> HIDE DEF wider
      <4> QED BY <4>3
    <3> QED BY <3>4, <3>5 DEF BindingOK
  <2> QED BY <2>2, <2>3
<1>19. AgentHolds' BY <1>1, <1>2, <1>4, <1>7 DEF AgentHolds
<1> QED BY <1>12, <1>13, <1>15, <1>16, <1>17, <1>18, <1>19 DEF ReceiptInv

\* A prompt that lets its binding go leaves every pile it was in: what it holds
\* goes to whom it took it from.
LEMMA DisposeKeeps ==
    ASSUME ReceiptInv, NEW p \in Requests, dispose(p) PROVE ReceiptInv'
<1> USE NothingBound
<1>1. /\ ReceiptTypes /\ Accounted /\ FreeIsFree /\ UsedIsTaken /\ AgentHolds
      /\ \A x \in Requests : BoundBefore(x) /\ \A r \in DOMAIN uploadRow : BindingOK(x, r)
  BY DEF ReceiptInv
<1> DEFINE priors == bound[p].rows
           files == bound[p].files
<1>2. /\ prompt[p] \in {"bound", "delivered"}
      /\ prompt' = [prompt EXCEPT ![p] = IF @ = "bound" THEN "new" ELSE "unheld"]
      /\ uploadRow' = SetRequests(StillBound(p))
      /\ staged' = Join(staged, [r \in {e \in DOMAIN files \cap DOMAIN staged : staged[e] = p} |-> files[r]])
      /\ bound' = [bound EXCEPT ![p] = NoBinding]
      /\ UNCHANGED <<uploaded, agentLive, used, expired>>
  BY DEF dispose
<1>3. bound'[p] = NoBinding /\ \A x \in Requests \ {p} : bound'[x] = bound[x]
  BY <1>1, <1>2 DEF ReceiptTypes
<1>4. /\ DOMAIN uploadRow' = DOMAIN uploadRow
      /\ \A r \in DOMAIN uploadRow :
            RowHolder(r)' = IF r \in DOMAIN priors /\ RowHolder(r) = p THEN priors[r] ELSE RowHolder(r)
      /\ \A r \in DOMAIN uploadRow :
            uploadRow'[r] = [request |-> uploadRow'[r].request, age |-> uploadRow'[r].age]
  <2> DEFINE back == StillBound(p)
  <2>1. /\ DOMAIN back = {e \in DOMAIN priors \cap DOMAIN uploadRow : RowHolder(e) = p}
        /\ \A r \in DOMAIN back : back[r] = priors[r]
    BY DEF StillBound, RowHolder
  <2> HIDE DEF back
  <2>2. /\ DOMAIN uploadRow' = DOMAIN uploadRow
        /\ \A r \in DOMAIN uploadRow :
              uploadRow'[r] = IF r \in DOMAIN back THEN [uploadRow[r] EXCEPT !.request = back[r]] ELSE uploadRow[r]
    BY <1>2 DEF SetRequests, back
  <2>3. \A r \in DOMAIN uploadRow :
           /\ uploadRow'[r].request = IF r \in DOMAIN back THEN back[r] ELSE uploadRow[r].request
           /\ uploadRow'[r] = [request |-> uploadRow'[r].request, age |-> uploadRow'[r].age]
    BY <1>1, <2>2 DEF ReceiptTypes
  <2> QED BY <2>1, <2>2, <2>3 DEF RowHolder
<1>5. /\ DOMAIN staged' = DOMAIN staged
      /\ \A r \in DOMAIN staged :
            staged'[r] = IF r \in DOMAIN files /\ staged[r] = p THEN files[r] ELSE staged[r]
  BY <1>2 DEF Join
<1> HIDE DEF priors, files
<1>6. /\ BoundBefore(p) /\ DOMAIN files \subseteq DOMAIN priors
      /\ \A r \in DOMAIN uploadRow : BindingOK(p, r)
  BY <1>1 DEF BoundBefore, priors, files
<1>7. ReceiptTypes'
  <2>1. prompt' \in [Requests -> {"new", "bound", "delivered", "answered", "unheld", "recorded", "removed"}]
    BY <1>1, <1>2 DEF ReceiptTypes
  <2>2. /\ bound' = [x \in Requests |-> bound'[x]]
        /\ \A x \in Requests : bound'[x] = [rows |-> bound'[x].rows, files |-> bound'[x].files]
    BY <1>1, <1>2, <1>3 DEF ReceiptTypes, NoBinding
  <2> QED BY <2>1, <2>2, <1>4 DEF ReceiptTypes
<1>8. Accounted' /\ AgentHolds' BY <1>1, <1>2, <1>3, <1>4, <1>5 DEF Accounted, AgentHolds, NoBinding
<1>9. p # Unbound BY RequestsAreNamed
\* What the registry gives back is what the rows give back.
<1>10. ASSUME NEW r \in DOMAIN uploadRow, r \in DOMAIN files, r \in DOMAIN staged
       PROVE  staged[r] = RowHolder(r) /\ (files[r] = Unbound => priors[r] = Unbound)
  <2>1. BindingOK(p, r) BY <1>6
  <2> QED BY <2>1, <1>10 DEF BindingOK, InStep, priors, files
<1>11. FreeIsFree'
  <2> SUFFICES ASSUME NEW r \in DOMAIN staged' \cap DOMAIN uploadRow', staged'[r] = Unbound
               PROVE  RowHolder(r)' = Unbound
    BY DEF FreeIsFree
  <2>1. r \in DOMAIN staged /\ r \in DOMAIN uploadRow BY <1>4, <1>5
  <2>2. CASE r \in DOMAIN files /\ staged[r] = p
    <3>1. files[r] = Unbound /\ RowHolder(r) = p /\ priors[r] = Unbound /\ r \in DOMAIN priors
      BY <2>1, <2>2, <1>5, <1>6, <1>10
    <3> QED BY <3>1, <2>1, <1>4
  <2>3. CASE ~(r \in DOMAIN files /\ staged[r] = p)
    <3>1. staged[r] = Unbound BY <2>1, <2>3, <1>5
    <3>2. RowHolder(r) = Unbound BY <3>1, <2>1, <1>1 DEF FreeIsFree
    <3> QED BY <3>2, <2>1, <1>4, <1>9
  <2> QED BY <2>2, <2>3
<1>12. UsedIsTaken'
  <2> SUFFICES ASSUME NEW r \in DOMAIN staged' \cap used'
               PROVE  /\ staged'[r] # Unbound
                      /\ \A x \in Requests : r \in DOMAIN bound'[x].files => bound'[x].files[r] # Unbound
    BY DEF UsedIsTaken
  <2>1. r \in used /\ r \in DOMAIN staged BY <1>2, <1>5
  <2>2. staged[r] # Unbound /\ \A x \in Requests : r \in DOMAIN bound[x].files => bound[x].files[r] # Unbound
    BY <2>1, <1>1 DEF UsedIsTaken
  <2>3. staged'[r] # Unbound BY <2>1, <2>2, <1>5 DEF files
  <2>4. ASSUME NEW x \in Requests, r \in DOMAIN bound'[x].files PROVE bound'[x].files[r] # Unbound
    <3>1. x # p BY <2>4, <1>3 DEF NoBinding
    <3> QED BY <3>1, <2>2, <2>4, <1>3
  <2> QED BY <2>3, <2>4
<1>13. ASSUME NEW x \in Requests PROVE BoundBefore(x)'
  <2>1. CASE x = p BY <2>1, <1>3 DEF BoundBefore, NoBinding
  <2>2. CASE x # p
    <3>1. prompt'[x] = prompt[x] BY <2>2, <1>1, <1>2 DEF ReceiptTypes
    <3> QED BY <3>1, <2>2, <1>1, <1>2, <1>3 DEF BoundBefore
  <2> QED BY <2>1, <2>2
<1>14. ASSUME NEW x \in Requests, NEW r \in DOMAIN uploadRow' PROVE BindingOK(x, r)'
  <2>1. CASE x = p BY <2>1, <1>3 DEF BindingOK, NoBinding
  <2>2. CASE x # p
    <3>1. r \in DOMAIN uploadRow /\ bound'[x] = bound[x] /\ BindingOK(x, r)
      BY <2>2, <1>1, <1>3, <1>4
    <3>2. ASSUME NEW pile \in SUBSET Requests, Behind(x, r, pile) PROVE Behind(x, r, pile)'
      <4>1. RowHolder(r)' \in pile
        <5>1. CASE r \in DOMAIN priors /\ RowHolder(r) = p
          BY <5>1, <3>1, <3>2, <2>2, <1>4 DEF Behind, priors
        <5>2. CASE ~(r \in DOMAIN priors /\ RowHolder(r) = p) BY <5>2, <3>1, <3>2, <1>4 DEF Behind
        <5> QED BY <5>1, <5>2
      <4>2. ASSUME NEW y \in pile \ {x}, r \in DOMAIN bound'[y].rows PROVE bound'[y].rows[r] \in pile
        <5>1. y # p BY <4>2, <1>3 DEF NoBinding
        <5> QED BY <5>1, <4>2, <3>2, <1>3 DEF Behind
      <4> QED BY <4>1, <4>2 DEF Behind
    <3>3. ASSUME NEW pile \in SUBSET Requests, InStep(x, r, pile) PROVE InStep(x, r, pile)'
      <4>1. Behind(x, r, pile)' BY <3>2, <3>3 DEF InStep
      <4>2. r \in DOMAIN staged' => staged'[r] = RowHolder(r)'
        <5> SUFFICES ASSUME r \in DOMAIN staged PROVE staged'[r] = RowHolder(r)' BY <1>5
        <5>1. staged[r] = RowHolder(r) BY <3>3 DEF InStep
        <5>2. CASE RowHolder(r) = p
          <6>1. p \in pile \ {x} BY <5>2, <3>3, <2>2 DEF InStep, Behind
          <6>2. r \in DOMAIN priors => r \in DOMAIN files /\ files[r] = priors[r]
            BY <6>1, <3>3 DEF InStep, priors, files
          <6> QED BY <6>2, <5>1, <5>2, <3>1, <1>4, <1>5, <1>6
        <5>3. CASE RowHolder(r) # p BY <5>1, <5>3, <3>1, <1>4, <1>5
        <5> QED BY <5>2, <5>3
      <4>3. ASSUME NEW y \in pile \ {x}, r \in DOMAIN bound'[y].rows
            PROVE  r \in DOMAIN bound'[y].files /\ bound'[y].files[r] = bound'[y].rows[r]
        <5>1. y # p BY <4>3, <1>3 DEF NoBinding
        <5> QED BY <5>1, <4>3, <3>3, <1>3 DEF InStep
      <4> QED BY <4>1, <4>2, <4>3 DEF InStep
    <3>4. r \in DOMAIN bound'[x].rows => \E pile \in SUBSET Requests : Behind(x, r, pile)'
      BY <3>1, <3>2 DEF BindingOK
    <3>5. r \in DOMAIN bound'[x].files =>
            /\ \E pile \in SUBSET Requests : InStep(x, r, pile)'
            /\ bound'[x].files[r] = Unbound => bound'[x].rows[r] = Unbound
      BY <3>1, <3>3 DEF BindingOK
    <3> QED BY <3>4, <3>5 DEF BindingOK
  <2> QED BY <2>1, <2>2
<1> QED BY <1>7, <1>8, <1>11, <1>12, <1>13, <1>14 DEF ReceiptInv

LEMMA ReceiptInvStep == ReceiptInv /\ [ReceiptNext]_receiptVars => ReceiptInv'
<1> SUFFICES ASSUME ReceiptInv, [ReceiptNext]_receiptVars PROVE ReceiptInv' OBVIOUS
<1> USE NothingBound
<1>1. ReceiptTypes /\ Accounted BY DEF ReceiptInv
<1>2. ASSUME NEW p \in Requests, NEW S \in SUBSET Receipts, bindPromptFiles(p, S) PROVE ReceiptInv'
  BY <1>2, BindKeeps
<1>3. ASSUME NEW p \in Requests, dispose(p) PROVE ReceiptInv' BY <1>3, DisposeKeeps
<1>4. CASE AgentChanges
  <2>1. /\ staged' = <<>> /\ UNCHANGED <<uploadRow, uploaded, prompt, used, expired>>
        /\ bound' = [x \in Requests |-> [bound[x] EXCEPT !.files = <<>>]]
    BY <1>4 DEF AgentChanges
  <2>2. \A x \in Requests : bound'[x] = [rows |-> bound[x].rows, files |-> <<>>]
    BY <2>1, <1>1 DEF ReceiptTypes
  <2>3. ASSUME NEW x \in Requests PROVE bound'[x].rows = bound[x].rows /\ bound'[x].files = <<>>
    <3> DEFINE rowsThen == bound[x].rows
               gone == <<>>
               bindingNow == bound'[x]
    <3>1. bindingNow = [rows |-> rowsThen, files |-> gone] BY <2>2
    <3> HIDE DEF rowsThen, gone, bindingNow
    <3>2. bindingNow.rows = rowsThen /\ bindingNow.files = gone BY <3>1
    <3> QED BY <3>2 DEF rowsThen, gone, bindingNow
  <2>4. ReceiptTypes' BY <2>1, <2>2, <2>3, <1>1 DEF ReceiptTypes
  <2>5. \A x \in Requests : prompt'[x] = "new" => bound'[x] = NoBinding
    BY <2>1, <2>2 DEF ReceiptInv, BoundBefore, NoBinding
  <2> QED BY <2>1, <2>3, <2>4, <2>5, RegistryGone
<1>5. CASE Restart
  <2>1. /\ staged' = <<>> /\ UNCHANGED <<uploadRow, uploaded, used, expired>>
        /\ bound' = [x \in Requests |-> NoBinding]
        /\ prompt' = [x \in Requests |-> IF prompt[x] = "bound" THEN "new"
                                         ELSE IF prompt[x] = "delivered" THEN "answered" ELSE prompt[x]]
    BY <1>5 DEF Restart
  <2>2. ReceiptTypes' BY <2>1, <1>1 DEF ReceiptTypes, NoBinding
  <2>3. \A x \in Requests : bound'[x] = NoBinding /\ bound'[x].files = <<>> /\ bound'[x].rows = <<>>
    BY <2>1 DEF NoBinding
  <2> QED BY <2>1, <2>2, <2>3, RegistryGone
<1>6. CASE UNCHANGED receiptVars
  <2>1. UNCHANGED <<uploadRow, uploaded, agentLive, staged, prompt, bound, used, expired>>
    BY <1>6 DEF receiptVars
  <2>2. ReceiptTypes' /\ Accounted' BY <2>1, <1>1 DEF ReceiptTypes, Accounted
  <2>3. \A r \in DOMAIN uploadRow' : r \in DOMAIN uploadRow /\ RowHolder(r)' = RowHolder(r)
    BY <2>1 DEF RowHolder
  <2> QED BY <2>1, <2>2, <2>3, BindingsStand
<1> QED BY <1>2, <1>3, <1>4, <1>5, <1>6, QuietReceiptSteps DEF ReceiptNext

\* No receipt is lost: its row goes only by its age or with the message that
\* took it; the live Agent offers no spent receipt as a free one; and a prompt
\* that was delivered holds its receipts unless another took them over.
THEOREM ReceiptsCorrect == ReceiptSpec => []ReceiptsKept
<1>1. ReceiptInv => ReceiptsKept
  <2> SUFFICES ASSUME ReceiptInv PROVE ReceiptsKept OBVIOUS
  <2>1. Accounted /\ UsedIsTaken BY DEF ReceiptInv
  <2>2. ASSUME NEW p \in Requests, NEW r \in DOMAIN bound[p].rows \cap DOMAIN uploadRow
        PROVE  uploadRow[r].request # Unbound
    <3>1. BindingOK(p, r) BY <2>2 DEF ReceiptInv
    <3> QED BY <3>1, <2>2, RequestsAreNamed DEF BindingOK, Behind, RowHolder
  <2> QED BY <2>1, <2>2 DEF ReceiptsKept, Accounted, UsedIsTaken
<1> QED BY <1>1, ReceiptInvInit, ReceiptInvStep, PTL DEF ReceiptSpec

----------------------------------------
(* Lists and searches. *)

\* Lines without a common member make one line.
LEMMA JoinLines ==
    ASSUME NEW S, NEW s \in Seq(S), NEW t \in Seq(S), IsInjective(s), IsInjective(t),
           ToSet(s) \cap ToSet(t) = {}
    PROVE  s \o t \in Seq(S) /\ IsInjective(s \o t) /\ ToSet(s \o t) = ToSet(s) \cup ToSet(t)
<1> DEFINE u == s \o t
<1>1. /\ u \in Seq(S) /\ Len(u) = Len(s) + Len(t) /\ DOMAIN u = 1..Len(u)
      /\ \A i \in 1..Len(u) : u[i] = IF i <= Len(s) THEN s[i] ELSE t[i - Len(s)]
      /\ Len(s) \in Nat /\ Len(t) \in Nat /\ DOMAIN s = 1..Len(s) /\ DOMAIN t = 1..Len(t)
  BY ConcatProperties, LenProperties
<1> HIDE DEF u
<1>2. \A i \in 1..Len(s) : i \in 1..Len(u) /\ u[i] = s[i] BY <1>1
<1>3. \A i \in 1..Len(t) : Len(s) + i \in 1..Len(u) /\ u[Len(s) + i] = t[i]
  <2> SUFFICES ASSUME NEW i \in 1..Len(t) PROVE Len(s) + i \in 1..Len(u) /\ u[Len(s) + i] = t[i]
    OBVIOUS
  <2>1. Len(s) + i \in 1..Len(u) /\ ~(Len(s) + i <= Len(s)) /\ (Len(s) + i) - Len(s) = i BY <1>1
  <2> QED BY <2>1, <1>1
<1>4. \A i \in 1..Len(u) : \/ i \in 1..Len(s) /\ u[i] = s[i]
                           \/ i - Len(s) \in 1..Len(t) /\ u[i] = t[i - Len(s)] /\ ~(i \in 1..Len(s))
  BY <1>1
<1>5. ToSet(u) \subseteq ToSet(s) \cup ToSet(t)
  <2> SUFFICES ASSUME NEW i \in 1..Len(u) PROVE u[i] \in ToSet(s) \cup ToSet(t) BY <1>1 DEF ToSet
  <2> QED BY <1>4, <1>1 DEF ToSet
<1>6. ToSet(s) \subseteq ToSet(u) BY <1>1, <1>2 DEF ToSet
<1>7. ToSet(t) \subseteq ToSet(u)
  <2> SUFFICES ASSUME NEW i \in 1..Len(t) PROVE t[i] \in ToSet(u) BY <1>1 DEF ToSet
  <2>1. PICK k \in 1..Len(u) : u[k] = t[i] BY <1>3
  <2> QED BY <2>1, <1>1 DEF ToSet
<1>8. IsInjective(u)
  <2> SUFFICES ASSUME NEW i \in 1..Len(u), NEW j \in 1..Len(u), u[i] = u[j] PROVE i = j
    BY <1>1 DEF IsInjective
  <2>1. CASE i \in 1..Len(s) /\ j \in 1..Len(s) BY <2>1, <1>1, <1>2 DEF IsInjective
  <2>2. CASE i \in 1..Len(s) /\ ~(j \in 1..Len(s)) BY <2>2, <1>1, <1>2, <1>4 DEF ToSet
  <2>3. CASE ~(i \in 1..Len(s)) /\ j \in 1..Len(s) BY <2>3, <1>1, <1>2, <1>4 DEF ToSet
  <2>4. CASE ~(i \in 1..Len(s)) /\ ~(j \in 1..Len(s))
    <3>1. i - Len(s) = j - Len(s) BY <2>4, <1>1, <1>4 DEF IsInjective
    <3> QED BY <3>1, <1>1
  <2> QED BY <2>1, <2>2, <2>3, <2>4
<1> QED BY <1>1, <1>5, <1>6, <1>7, <1>8 DEF u

\* The first rows of a line.
LEMMA FirstRows ==
    ASSUME NEW S, NEW ranked \in Seq(S), IsInjective(ranked), NEW n \in Nat
    PROVE  /\ UpTo(ranked, n) \in Seq(S) /\ IsInjective(UpTo(ranked, n))
           /\ Len(UpTo(ranked, n)) = IF n < Len(ranked) THEN n ELSE Len(ranked)
           /\ \A i \in 1..Len(UpTo(ranked, n)) : i \in 1..Len(ranked) /\ UpTo(ranked, n)[i] = ranked[i]
           /\ ToSet(UpTo(ranked, n)) \subseteq ToSet(ranked)
           /\ Len(ranked) <= n => ToSet(UpTo(ranked, n)) = ToSet(ranked)
<1> DEFINE m == IF n < Len(ranked) THEN n ELSE Len(ranked)
           p == UpTo(ranked, n)
<1>1. Len(ranked) \in Nat /\ DOMAIN ranked = 1..Len(ranked) /\ m \in Nat /\ m <= Len(ranked)
  BY LenProperties
<1>2. p \in Seq(S) /\ Len(p) = m /\ DOMAIN p = 1..m /\ \A i \in 1..m : p[i] = ranked[i]
  <2>1. p = SubSeq(ranked, 1, m) BY DEF UpTo
  <2> HIDE DEF p, m
  <2>2. \A i \in 1..m : ranked[i] \in S BY <1>1, ElementOfSeq
  <2> QED BY <2>1, <2>2, <1>1, SubSeqProperties, LenProperties
<1>3. \A i \in 1..Len(p) : i \in 1..Len(ranked) /\ p[i] = ranked[i]
  <2> HIDE DEF p
  <2> QED BY <1>1, <1>2
<1> HIDE DEF p
<1>4. IsInjective(p)
  <2> HIDE DEF m
  <2> QED BY <1>1, <1>2, <1>3 DEF IsInjective
<1>5. ToSet(p) \subseteq ToSet(ranked)
  <2> HIDE DEF m
  <2> QED BY <1>1, <1>2, <1>3 DEF ToSet
<1>6. Len(ranked) <= n => ToSet(p) = ToSet(ranked) BY <1>1, <1>2 DEF ToSet
<1> QED BY <1>2, <1>3, <1>4, <1>5, <1>6 DEF p

\* Newest first, ties by id: an order of the sessions.
DirTypes ==
    /\ now \in Nat /\ kept \in [Sessions -> {"none", "blank", "stored"}]
    /\ created \in [Sessions -> Nat] /\ prompted \in [Sessions -> Nat]
    /\ storedLog \in [Sessions -> [length : Nat, match : BOOLEAN]]
    /\ held \in [Sessions -> [length : Nat, match : BOOLEAN]]
    /\ registered \subseteq Materialized
    /\ visitor \in [at : {"idle", "list", "listed", "search", "searched"}, after : Nat,
                    left : Seq(Sessions), seen : Seq(Sessions), more : BOOLEAN, began : SUBSET Sessions]

LEMMA ListOrder ==
    ASSUME DirTypes, NEW C \in SUBSET Sessions
    PROVE  /\ InListOrder(C) \in Seq(C) /\ IsInjective(InListOrder(C)) /\ ToSet(InListOrder(C)) = C
           /\ \A i, j \in 1..Len(InListOrder(C)) : i < j => Before(InListOrder(C)[i], InListOrder(C)[j])
<1> DEFINE R == {x \in Sessions \X Sessions : Before(x[1], x[2])}
           n == Cardinality(C)
           ranked == InListOrder(C)
<1>1. IsFiniteSet(C) /\ \A a \in C : a \in Nat /\ created[a] \in Nat
  BY DirectorySetting, FS_Subset DEF DirTypes
<1>2. \A a, b \in C : <<a, b>> \in R <=> Before(a, b) OBVIOUS
<1>3. Orders(R, C)
  <2> HIDE DEF R
  <2>1. \A a \in C : ~Before(a, a) BY <1>1 DEF Before
  <2>2. \A a, b \in C : a # b => Before(a, b) \/ Before(b, a) BY <1>1 DEF Before
  <2>3. \A a, b, c \in C : Before(a, b) /\ Before(b, c) => Before(a, c) BY <1>1 DEF Before
  <2> QED BY <1>2, <2>1, <2>2, <2>3 DEF Orders
<1> HIDE DEF R
<1>4. /\ \E p \in [1..n -> C] : \A i, j \in 1..n : i < j => <<p[i], p[j]>> \in R
      /\ \A p \in [1..n -> C] : (\A i, j \in 1..n : i < j => <<p[i], p[j]>> \in R)
            => p \in Seq(C) /\ Len(p) = n /\ IsInjective(p) /\ ToSet(p) = C
  BY <1>1, <1>3, LineUp
<1>5. \E p \in [1..n -> C] : \A i, j \in 1..n : i < j => Before(p[i], p[j])
  <2>1. PICK p \in [1..n -> C] : \A i, j \in 1..n : i < j => <<p[i], p[j]>> \in R BY <1>4
  <2>2. \A i \in 1..n : p[i] \in C BY <2>1
  <2> HIDE DEF n
  <2> QED BY <2>1, <2>2, <1>2
<1>6. ranked \in [1..n -> C] /\ \A i, j \in 1..n : i < j => Before(ranked[i], ranked[j])
  BY <1>5, Zenon DEF InListOrder
<1> HIDE DEF ranked, n
<1>7. \A i, j \in 1..n : i < j => <<ranked[i], ranked[j]>> \in R
  <2>1. \A i \in 1..n : ranked[i] \in C BY <1>6
  <2> QED BY <2>1, <1>6, <1>2
<1> QED BY <1>4, <1>6, <1>7 DEF ranked

LEMMA NewestOrder ==
    ASSUME DirTypes, NEW C \in SUBSET Sessions, NEW m \in Nat
    PROVE  /\ ByNewest(C, m) \in Seq(C) /\ ToSet(ByNewest(C, m)) \subseteq C
           /\ Len(ByNewest(C, m)) \in Nat /\ Len(ByNewest(C, m)) <= m
           /\ Len(ByNewest(C, m)) < m => ToSet(ByNewest(C, m)) = C
           /\ IsInjective(ByNewest(C, m))
<1> DEFINE R == {x \in Sessions \X Sessions : Newer(x[1], x[2])}
           n == Cardinality(C)
           ranked == CHOOSE p \in [1..n -> C] : \A i, j \in 1..n : i < j => Newer(p[i], p[j])
<1>1. IsFiniteSet(C) /\ \A a \in C : a \in Nat /\ UpdatedAt(a) \in Nat
  BY DirectorySetting, FS_Subset DEF DirTypes, UpdatedAt
<1>2. \A a, b \in C : <<a, b>> \in R <=> Newer(a, b) OBVIOUS
<1>3. Orders(R, C)
  <2> HIDE DEF R
  <2>1. \A a \in C : ~Newer(a, a) BY <1>1 DEF Newer
  <2>2. \A a, b \in C : a # b => Newer(a, b) \/ Newer(b, a) BY <1>1 DEF Newer
  <2>3. \A a, b, c \in C : Newer(a, b) /\ Newer(b, c) => Newer(a, c) BY <1>1 DEF Newer
  <2> QED BY <1>2, <2>1, <2>2, <2>3 DEF Orders
<1> HIDE DEF R
<1>4. /\ \E p \in [1..n -> C] : \A i, j \in 1..n : i < j => <<p[i], p[j]>> \in R
      /\ \A p \in [1..n -> C] : (\A i, j \in 1..n : i < j => <<p[i], p[j]>> \in R)
            => p \in Seq(C) /\ Len(p) = n /\ IsInjective(p) /\ ToSet(p) = C
  BY <1>1, <1>3, LineUp
<1>5. \E p \in [1..n -> C] : \A i, j \in 1..n : i < j => Newer(p[i], p[j])
  <2>1. PICK p \in [1..n -> C] : \A i, j \in 1..n : i < j => <<p[i], p[j]>> \in R BY <1>4
  <2>2. \A i \in 1..n : p[i] \in C BY <2>1
  <2> HIDE DEF n
  <2> QED BY <2>1, <2>2, <1>2
<1>6. ranked \in [1..n -> C] /\ \A i, j \in 1..n : i < j => Newer(ranked[i], ranked[j])
  BY <1>5, Zenon
<1>7. ByNewest(C, m) = UpTo(ranked, m) BY DEF ByNewest
<1> HIDE DEF ranked, n
<1>8. \A i, j \in 1..n : i < j => <<ranked[i], ranked[j]>> \in R
  <2>1. \A i \in 1..n : ranked[i] \in C BY <1>6
  <2> QED BY <2>1, <1>6, <1>2
<1>9. ranked \in Seq(C) /\ IsInjective(ranked) /\ ToSet(ranked) = C BY <1>4, <1>6, <1>8
<1>10. /\ UpTo(ranked, m) \in Seq(C) /\ IsInjective(UpTo(ranked, m))
       /\ Len(UpTo(ranked, m)) = IF m < Len(ranked) THEN m ELSE Len(ranked)
       /\ ToSet(UpTo(ranked, m)) \subseteq C
       /\ Len(ranked) <= m => ToSet(UpTo(ranked, m)) = C
  BY <1>9, FirstRows
<1>11. Len(ranked) \in Nat BY <1>9, LenProperties
<1> QED BY <1>7, <1>10, <1>11

\* A log that is read now: the live one when there is one.
Matches(s) == IF s \in registered THEN held[s].match ELSE storedLog[s].match
ListStands ==
    CASE visitor.at = "idle" -> visitor = Unread
      [] visitor.at = "list" ->
            /\ visitor.after \in Materialized /\ visitor.began \subseteq Materialized
            /\ ToSet(visitor.seen) \subseteq Materialized /\ IsInjective(visitor.seen)
            /\ \A s \in ToSet(visitor.seen) : s = visitor.after \/ Before(s, visitor.after)
            /\ \A s \in visitor.began : s \in ToSet(visitor.seen) \/ Before(visitor.after, s)
      [] visitor.at = "listed" -> IsInjective(visitor.seen) /\ visitor.began \subseteq ToSet(visitor.seen)
      [] OTHER -> TRUE
SearchStands ==
    /\ visitor.at = "search" =>
          \A s \in visitor.began : /\ Matches(s)
                                   /\ visitor.more \/ s \in ToSet(visitor.left) \cup ToSet(visitor.seen)
    /\ visitor.at = "searched" /\ ~visitor.more => visitor.began \subseteq ToSet(visitor.seen)
BlanksMatchNothing == \A s \in Sessions \ Materialized : ~storedLog[s].match
DirInv == DirTypes /\ ListStands /\ SearchStands /\ BlanksMatchNothing

LEMMA DirInvInit == DirectoryInit => DirInv
<1> SUFFICES ASSUME DirectoryInit PROVE DirInv OBVIOUS
<1>1. <<>> \in Seq(Sessions) BY EmptySeq
<1>2. Unread \in [at : {"idle", "list", "listed", "search", "searched"}, after : Nat,
                  left : Seq(Sessions), seen : Seq(Sessions), more : BOOLEAN, began : SUBSET Sessions]
  BY <1>1 DEF Unread
<1>3. DirTypes BY <1>2 DEF DirectoryInit, DirTypes, EmptyLog, Materialized
<1>4. ListStands /\ SearchStands BY DEF DirectoryInit, ListStands, SearchStands, Unread
<1>5. BlanksMatchNothing BY DEF DirectoryInit, BlanksMatchNothing, EmptyLog
<1> QED BY <1>3, <1>4, <1>5 DEF DirInv

\* What the sessions do while a visitor reads.
LEMMA VisitorStays ==
    ASSUME DirInv, DirTypes', BlanksMatchNothing', visitor' = visitor, Materialized \subseteq Materialized',
           \A s \in Materialized : created'[s] = created[s],
           visitor.at = "search" => \A s \in Sessions : Matches(s) => Matches(s)'
    PROVE  DirInv'
<1>1. visitor.began \subseteq Sessions /\ DirTypes /\ ListStands /\ SearchStands
  BY DEF DirInv, DirTypes
<1>2. \A a, b \in Materialized : Before(a, b) => Before(a, b)' BY DEF Before
<1>3. ListStands'
  <2>1. CASE visitor.at = "idle" BY <2>1, <1>1 DEF ListStands, Unread
  <2>2. CASE visitor.at = "list"
    <3>1. /\ visitor.after \in Materialized /\ visitor.began \subseteq Materialized
          /\ ToSet(visitor.seen) \subseteq Materialized /\ IsInjective(visitor.seen)
          /\ \A s \in ToSet(visitor.seen) : s = visitor.after \/ Before(s, visitor.after)
          /\ \A s \in visitor.began : s \in ToSet(visitor.seen) \/ Before(visitor.after, s)
      BY <2>2, <1>1 DEF ListStands
    <3>2. \A s \in ToSet(visitor.seen) : s = visitor.after \/ Before(s, visitor.after)'
      BY <3>1, <1>2
    <3>3. \A s \in visitor.began : s \in ToSet(visitor.seen) \/ Before(visitor.after, s)'
      BY <3>1, <1>2
    <3> QED BY <3>1, <3>2, <3>3, <2>2 DEF ListStands
  <2>3. CASE visitor.at = "listed" BY <2>3, <1>1 DEF ListStands
  <2>4. CASE visitor.at \notin {"idle", "list", "listed"} BY <2>4 DEF ListStands
  <2> QED BY <2>1, <2>2, <2>3, <2>4
<1>4. SearchStands' BY <1>1 DEF SearchStands
<1> QED BY <1>3, <1>4 DEF DirInv

LEMMA SessionsGoOn ==
    ASSUME DirInv,
           \/ Tick \/ Evicted
           \/ \E s \in Sessions : createBlank(s) \/ materializeBlankSession(s) \/ Opens(s) \/ Takes(s) \/ flush(s)
    PROVE  DirInv'
<1>1. DirTypes /\ BlanksMatchNothing /\ ListStands /\ SearchStands BY DEF DirInv
<1>2. CASE Tick
  <2>1. now' = now + 1 /\ UNCHANGED <<kept, created, prompted, storedLog, held, registered, visitor>>
    BY <1>2 DEF Tick
  <2>2. DirTypes' /\ BlanksMatchNothing' /\ Materialized' = Materialized
    BY <2>1, <1>1 DEF DirTypes, BlanksMatchNothing, Materialized
  <2>3. \A s \in Sessions : Matches(s) => Matches(s)' BY <2>1 DEF Matches
  <2> QED BY <2>1, <2>2, <2>3, VisitorStays
<1>3. ASSUME NEW s \in Sessions, createBlank(s) PROVE DirInv'
  <2>1. /\ kept[s] = "none" /\ kept' = [kept EXCEPT ![s] = "blank"] /\ created' = [created EXCEPT ![s] = now]
        /\ UNCHANGED <<now, prompted, storedLog, held, registered, visitor>>
    BY <1>3 DEF createBlank
  <2>2. Materialized' = Materialized /\ s \notin Materialized
    BY <2>1, <1>1 DEF Materialized, DirTypes
  <2>3. DirTypes' /\ BlanksMatchNothing' BY <2>1, <2>2, <1>1 DEF DirTypes, BlanksMatchNothing
  <2>4. \A t \in Sessions : Matches(t) => Matches(t)' BY <2>1 DEF Matches
  <2>5. \A t \in Materialized : created'[t] = created[t]
    BY <2>1, <2>2, <1>1 DEF DirTypes, Materialized
  <2> QED BY <2>1, <2>2, <2>3, <2>4, <2>5, VisitorStays
<1>4. ASSUME NEW s \in Sessions, materializeBlankSession(s) PROVE DirInv'
  <2>1. /\ kept' = [kept EXCEPT ![s] = "stored"]
        /\ UNCHANGED <<now, created, prompted, storedLog, held, registered, visitor>>
    BY <1>4 DEF materializeBlankSession
  <2>2. Materialized' = Materialized \cup {s} BY <2>1, <1>1 DEF Materialized, DirTypes
  <2>3. DirTypes' /\ BlanksMatchNothing' BY <2>1, <2>2, <1>1 DEF DirTypes, BlanksMatchNothing
  <2>4. \A t \in Sessions : Matches(t) => Matches(t)' BY <2>1 DEF Matches
  <2> QED BY <2>1, <2>2, <2>3, <2>4, VisitorStays
<1>5. ASSUME NEW s \in Sessions, Opens(s) PROVE DirInv'
  <2>1. /\ kept[s] = "stored" /\ s \notin registered
        /\ registered' = registered \cup {s} /\ held' = [held EXCEPT ![s] = storedLog[s]]
        /\ UNCHANGED <<now, kept, created, prompted, storedLog, visitor>>
    BY <1>5 DEF Opens
  <2>2. Materialized' = Materialized BY <2>1 DEF Materialized
  <2>3. DirTypes' /\ BlanksMatchNothing'
    BY <2>1, <2>2, <1>1 DEF DirTypes, BlanksMatchNothing, Materialized
  <2>4. \A t \in Sessions : Matches(t) => Matches(t)' BY <2>1, <1>1 DEF Matches, DirTypes
  <2> QED BY <2>1, <2>2, <2>3, <2>4, VisitorStays
<1>6. ASSUME NEW s \in Sessions, Takes(s) PROVE DirInv'
  <2>1. PICK m \in BOOLEAN : held' = [held EXCEPT ![s] = [length |-> @.length + 1, match |-> @.match \/ m]]
    BY <1>6 DEF Takes
  <2>2. UNCHANGED <<now, kept, created, prompted, storedLog, registered, visitor>> BY <1>6 DEF Takes
  <2>3. Materialized' = Materialized BY <2>2 DEF Materialized
  <2>4. held' \in [Sessions -> [length : Nat, match : BOOLEAN]]
    <3>1. [length |-> held[s].length + 1, match |-> held[s].match \/ m] \in [length : Nat, match : BOOLEAN]
      <4>1. held[s].length + 1 \in Nat BY <1>1 DEF DirTypes
      <4>2. (held[s].match \/ m) \in BOOLEAN OBVIOUS
      <4> QED BY <4>1, <4>2
    <3> QED BY <3>1, <2>1, <1>1 DEF DirTypes
  <2>5. DirTypes' /\ BlanksMatchNothing' BY <2>2, <2>3, <2>4, <1>1 DEF DirTypes, BlanksMatchNothing
  <2>6. \A t \in Sessions : held[t].match => held'[t].match
    <3> TAKE t \in Sessions
    <3>1. CASE t = s
      <4> DEFINE n == held[s].length + 1
                 b == held[s].match \/ m
                 now1 == held'[s]
      <4>1. now1 = [length |-> n, match |-> b] BY <2>1, <1>1 DEF DirTypes
      <4> HIDE DEF n, b, now1
      <4>2. now1.match = b BY <4>1
      <4>3. held[s].match => b BY DEF b
      <4> QED BY <4>2, <4>3, <3>1, Zenon DEF now1
    <3>2. CASE t # s BY <3>2, <2>1, <1>1 DEF DirTypes
    <3> QED BY <3>1, <3>2
  <2>7. \A t \in Sessions : Matches(t) => Matches(t)' BY <2>2, <2>6 DEF Matches
  <2> QED BY <2>2, <2>3, <2>5, <2>7, VisitorStays
<1>7. ASSUME NEW s \in Sessions, flush(s) PROVE DirInv'
  <2>1. /\ s \in registered /\ storedLog' = [storedLog EXCEPT ![s] = held[s]]
        /\ prompted' = [prompted EXCEPT ![s] = IF storedLog[s] = held[s] THEN @ ELSE now]
        /\ UNCHANGED <<now, kept, created, held, registered, visitor>>
    BY <1>7 DEF flush, StoresHeld
  <2>2. Materialized' = Materialized /\ s \in Materialized BY <2>1, <1>1 DEF Materialized, DirTypes
  <2>3. DirTypes' /\ BlanksMatchNothing' BY <2>1, <2>2, <1>1 DEF DirTypes, BlanksMatchNothing
  <2>4. \A t \in Sessions : Matches(t) => Matches(t)' BY <2>1, <1>1 DEF Matches, DirTypes
  <2> QED BY <2>1, <2>2, <2>3, <2>4, VisitorStays
<1>8. CASE Evicted
  <2>1. /\ registered' = {} /\ held' = storedLog
        /\ visitor' = IF visitor.at = "search" THEN Unread ELSE visitor
        /\ UNCHANGED <<now, kept, created, prompted, storedLog>>
    BY <1>8 DEF Evicted
  <2>2. Materialized' = Materialized BY <2>1 DEF Materialized
  <2>3. Unread \in [at : {"idle", "list", "listed", "search", "searched"}, after : Nat,
                    left : Seq(Sessions), seen : Seq(Sessions), more : BOOLEAN, began : SUBSET Sessions]
    BY EmptySeq DEF Unread
  <2>4. DirTypes' /\ BlanksMatchNothing' BY <2>1, <2>2, <2>3, <1>1 DEF DirTypes, BlanksMatchNothing
  <2>5. CASE visitor.at = "search"
    <3>1. visitor' = Unread BY <2>1, <2>5
    <3>2. ListStands' /\ SearchStands' BY <3>1 DEF ListStands, SearchStands, Unread
    <3> QED BY <3>2, <2>4 DEF DirInv
  <2>6. CASE visitor.at # "search" BY <2>1, <2>2, <2>4, <2>6, VisitorStays
  <2> QED BY <2>5, <2>6
<1> QED BY <1>2, <1>3, <1>4, <1>5, <1>6, <1>7, <1>8

\* A page of the list: what follows the cursor, up to a page of it.
LEMMA ListKeeps == ASSUME DirInv, listSessions PROVE DirInv'
<1>1. DirTypes /\ BlanksMatchNothing /\ ListStands BY DEF DirInv
<1> DEFINE after == visitor.after
           C == {s \in Materialized : after = 0 \/ Before(after, s)}
           ranked == InListOrder(C)
           page == UpTo(ranked, PageSize)
           seen == visitor.seen \o page
           began == IF visitor.at = "idle" THEN Materialized ELSE visitor.began
           to == IF page = <<>> THEN after ELSE Last(page)
<1>2. /\ visitor.at \in {"idle", "list"}
      /\ visitor' = [visitor EXCEPT !.at = IF Len(ranked) > PageSize THEN "list" ELSE "listed",
                                    !.after = to, !.seen = seen, !.began = began]
      /\ UNCHANGED <<now, kept, created, prompted, storedLog, held, registered>>
  BY DEF listSessions, readSessionSummaryPage
<1>3. C \in SUBSET Sessions /\ Materialized \subseteq Sessions /\ C \subseteq Materialized
  BY DEF Materialized
<1>4. /\ ranked \in Seq(C) /\ IsInjective(ranked) /\ ToSet(ranked) = C
      /\ \A i, j \in 1..Len(ranked) : i < j => Before(ranked[i], ranked[j])
  <2> HIDE DEF C
  <2> QED BY <1>1, <1>3, ListOrder
<1> HIDE DEF C, ranked
<1>5. /\ page \in Seq(C) /\ IsInjective(page)
      /\ Len(page) = IF PageSize < Len(ranked) THEN PageSize ELSE Len(ranked)
      /\ \A i \in 1..Len(page) : i \in 1..Len(ranked) /\ page[i] = ranked[i]
      /\ ToSet(page) \subseteq C
      /\ Len(ranked) <= PageSize => ToSet(page) = C
  BY <1>4, FirstRows, DirectorySetting
<1>6. Len(ranked) \in Nat /\ Len(page) \in Nat /\ DOMAIN ranked = 1..Len(ranked) /\ DOMAIN page = 1..Len(page)
  BY <1>4, <1>5, LenProperties
<1> HIDE DEF page
\* Where it was: nothing yet, or at a cursor.
<1>7. /\ visitor.seen \in Seq(Sessions) /\ IsInjective(visitor.seen) /\ ToSet(visitor.seen) \subseteq Materialized
      /\ \A s \in ToSet(visitor.seen) : after \in Materialized /\ (s = after \/ Before(s, after))
      /\ after = 0 \/ after \in Materialized
      /\ began \subseteq Materialized
      /\ \A s \in began : s \in ToSet(visitor.seen) \/ s \in C
  <2>1. CASE visitor.at = "idle"
    <3>1. visitor.seen = <<>> /\ after = 0 /\ began = Materialized
      BY <2>1, <1>1 DEF ListStands, Unread
    <3>2. ToSet(<<>>) = {} /\ IsInjective(<<>>) /\ <<>> \in Seq(Sessions)
      BY EmptySeq DEF ToSet, IsInjective
    <3>3. C = Materialized BY <3>1 DEF C
    <3> QED BY <3>1, <3>2, <3>3
  <2>2. CASE visitor.at = "list"
    <3>1. /\ after \in Materialized /\ visitor.began \subseteq Materialized
          /\ ToSet(visitor.seen) \subseteq Materialized /\ IsInjective(visitor.seen)
          /\ \A s \in ToSet(visitor.seen) : s = after \/ Before(s, after)
          /\ \A s \in visitor.began : s \in ToSet(visitor.seen) \/ Before(after, s)
      BY <2>2, <1>1 DEF ListStands
    <3>2. began = visitor.began BY <2>2
    <3>3. visitor.seen \in Seq(Sessions) BY <1>1 DEF DirTypes
    <3>4. \A s \in began : s \in ToSet(visitor.seen) \/ s \in C BY <3>1, <3>2 DEF C
    <3> HIDE DEF began, after
    <3> QED BY <3>1, <3>2, <3>3, <3>4
  <2> QED BY <2>1, <2>2, <1>2
<1> HIDE DEF began
<1>8. \A a, b, c \in Materialized : /\ ~Before(a, a)
                                    /\ Before(a, b) => ~Before(b, a)
                                    /\ Before(a, b) /\ Before(b, c) => Before(a, c)
  <2>1. \A a \in Materialized : a \in Nat /\ created[a] \in Nat
    BY <1>1, <1>3, DirectorySetting DEF DirTypes
  <2> QED BY <2>1 DEF Before
<1>9. ToSet(visitor.seen) \cap C = {}
  <2> SUFFICES ASSUME NEW s \in ToSet(visitor.seen), s \in C PROVE FALSE BY Zenon
  <2>1. after \in Materialized /\ s \in Materialized /\ (s = after \/ Before(s, after))
    BY <1>7, <1>3
  <2>2. after # 0 BY <2>1, <1>3, DirectorySetting
  <2>3. Before(after, s) BY <2>2 DEF C
  <2> HIDE DEF after
  <2> QED BY <2>1, <2>3, <1>8
<1>10. page \in Seq(Sessions) /\ ToSet(visitor.seen) \cap ToSet(page) = {}
  <2>1. \A i \in 1..Len(page) : page[i] \in Sessions BY <1>3, <1>5, ElementOfSeq
  <2>2. page \in Seq(Sessions) BY <2>1, <1>5, <1>6, SeqDef, LenProperties
  <2> QED BY <2>2, <1>5, <1>9
<1>11. seen \in Seq(Sessions) /\ IsInjective(seen) /\ ToSet(seen) = ToSet(visitor.seen) \cup ToSet(page)
  BY <1>5, <1>7, <1>10, JoinLines
<1> HIDE DEF seen
<1>12. to \in Nat
  <2>1. CASE page = <<>> BY <2>1, <1>1 DEF DirTypes
  <2>2. CASE page # <<>>
    <3>1. Len(page) # 0 BY <2>2, <1>5, EmptySeq
    <3>2. to = page[Len(page)] /\ page[Len(page)] \in Sessions
      BY <2>2, <3>1, <1>6, <1>10, ElementOfSeq DEF Last
    <3> QED BY <3>2, DirectorySetting
  <2> QED BY <2>1, <2>2
<1>13. DirTypes'
  <2>1. /\ visitor' \in [at : {"idle", "list", "listed", "search", "searched"}, after : Nat,
                         left : Seq(Sessions), seen : Seq(Sessions), more : BOOLEAN, began : SUBSET Sessions]
    <3>1. began \in SUBSET Sessions BY <1>3, <1>7
    <3> HIDE DEF to
    <3> QED BY <1>1, <1>2, <1>11, <1>12, <3>1 DEF DirTypes
  <2>2. Materialized' = Materialized BY <1>2 DEF Materialized
  <2> QED BY <2>1, <2>2, <1>1, <1>2 DEF DirTypes
<1>14. /\ visitor'.at = IF Len(ranked) > PageSize THEN "list" ELSE "listed"
       /\ visitor'.after = to /\ visitor'.seen = seen /\ visitor'.began = began
  BY <1>1, <1>2 DEF DirTypes
<1>15. Materialized' = Materialized /\ \A a, b : Before(a, b)' <=> Before(a, b)
  BY <1>2 DEF Materialized, Before
<1>16. BlanksMatchNothing' /\ SearchStands'
  BY <1>1, <1>2, <1>14, <1>15 DEF BlanksMatchNothing, SearchStands
<1>17. CASE Len(ranked) > PageSize
  <2>1. Len(page) = PageSize /\ PageSize \in 1..Len(page) /\ PageSize \in 1..Len(ranked)
    BY <1>17, <1>5, <1>6, DirectorySetting
  <2>2. page # <<>> /\ to = ranked[PageSize] BY <2>1, <1>5, <1>6 DEF Last
  <2>3. to \in C BY <2>1, <2>2, <1>4, ElementOfSeq
  <2>4. \A s \in ToSet(page) : s = to \/ Before(s, to)
    <3> SUFFICES ASSUME NEW i \in 1..Len(page) PROVE page[i] = to \/ Before(page[i], to)
      BY <1>6 DEF ToSet
    <3>1. i \in 1..Len(ranked) /\ page[i] = ranked[i] /\ (i = PageSize \/ i < PageSize)
      BY <2>1, <1>5, DirectorySetting
    <3> HIDE DEF to
    <3> QED BY <3>1, <2>1, <2>2, <1>4
  <2>5. \A s \in ToSet(visitor.seen) : s = to \/ Before(s, to)
    <3> SUFFICES ASSUME NEW s \in ToSet(visitor.seen) PROVE Before(s, to) OBVIOUS
    <3>1. after \in Materialized /\ (s = after \/ Before(s, after)) /\ s \in Materialized /\ to \in Materialized
      BY <2>3, <1>3, <1>7
    <3>2. Before(after, to) BY <2>3, <3>1, <1>3, DirectorySetting DEF C
    <3> HIDE DEF to, after
    <3> QED BY <3>1, <3>2, <1>8
  <2>6. \A s \in C : s \in ToSet(page) \/ Before(to, s)
    <3> SUFFICES ASSUME NEW i \in 1..Len(ranked) PROVE ranked[i] \in ToSet(page) \/ Before(to, ranked[i])
      BY <1>4, <1>6 DEF ToSet
    <3>1. CASE i <= PageSize
      <4>1. i \in 1..Len(page) BY <3>1, <2>1
      <4> QED BY <4>1, <1>5, <1>6 DEF ToSet
    <3>2. CASE PageSize < i BY <3>2, <2>1, <2>2, <1>4
    <3> QED BY <3>1, <3>2, <1>6, DirectorySetting
  <2> HIDE DEF to
  <2>7. ListStands'
    <3>1. visitor'.at = "list" BY <1>14, <1>17
    <3>2. to \in Materialized /\ began \subseteq Materialized /\ ToSet(seen) \subseteq Materialized /\ IsInjective(seen)
      BY <2>3, <1>3, <1>5, <1>7, <1>11
    <3>3. \A s \in ToSet(seen) : s = to \/ Before(s, to) BY <2>4, <2>5, <1>11
    <3>4. \A s \in began : s \in ToSet(seen) \/ Before(to, s) BY <2>6, <1>7, <1>11
    <3> QED BY <3>1, <3>2, <3>3, <3>4, <1>14, <1>15 DEF ListStands
  <2> QED BY <2>7, <1>13, <1>16 DEF DirInv
<1>18. CASE ~(Len(ranked) > PageSize)
  <2>1. ToSet(page) = C BY <1>18, <1>5, <1>6, DirectorySetting
  <2>2. began \subseteq ToSet(seen) BY <2>1, <1>7, <1>11
  <2>3. visitor'.at = "listed" BY <1>14, <1>18
  <2>4. ListStands' BY <2>2, <2>3, <1>11, <1>14 DEF ListStands
  <2> QED BY <2>4, <1>13, <1>16 DEF DirInv
<1> QED BY <1>17, <1>18

\* What a search considers: every session there is, unless there are more than
\* it may read.
LEMMA CandidatesAre ==
    ASSUME DirTypes, NEW m \in Nat
    PROVE  /\ collectRecentApiSessions(m) \in Seq(Sessions) /\ IsInjective(collectRecentApiSessions(m))
           /\ Len(collectRecentApiSessions(m)) \in Nat
           /\ Len(collectRecentApiSessions(m)) < m => Materialized \subseteq ToSet(collectRecentApiSessions(m))
<1> DEFINE blanks == {s \in Sessions : kept[s] = "blank"}
           both == ToSet(ByNewest(blanks, m)) \cup ToSet(ByNewest(Materialized, m))
           found == ByNewest(both, m)
<1>1. blanks \in SUBSET Sessions /\ Materialized \in SUBSET Sessions BY DEF Materialized
<1>2. ToSet(ByNewest(blanks, m)) \subseteq Sessions
  <2> HIDE DEF blanks
  <2> QED BY <1>1, NewestOrder
<1>3. /\ ByNewest(Materialized, m) \in Seq(Materialized) /\ IsInjective(ByNewest(Materialized, m))
      /\ ToSet(ByNewest(Materialized, m)) \subseteq Materialized
      /\ Len(ByNewest(Materialized, m)) \in Nat
      /\ Len(ByNewest(Materialized, m)) < m => ToSet(ByNewest(Materialized, m)) = Materialized
  BY <1>1, NewestOrder
<1>4. both \in SUBSET Sessions BY <1>1, <1>2, <1>3
<1>5. collectRecentApiSessions(m) = found BY DEF collectRecentApiSessions, Range, ToSet
<1> HIDE DEF blanks
<1>6. /\ found \in Seq(both) /\ ToSet(found) \subseteq both
      /\ Len(found) \in Nat /\ Len(found) <= m
      /\ Len(found) < m => ToSet(found) = both
      /\ IsInjective(found)
  <2> HIDE DEF both
  <2> QED BY <1>4, NewestOrder
<1>7. found \in Seq(Sessions)
  <2> HIDE DEF found, both
  <2>1. \A i \in 1..Len(found) : found[i] \in Sessions BY <1>4, <1>6, ElementOfSeq
  <2> QED BY <2>1, <1>6, SeqDef, LenProperties
<1>8. ASSUME Len(found) < m PROVE Materialized \subseteq ToSet(found)
  <2> DEFINE some == ToSet(ByNewest(Materialized, m))
  <2>1. IsFiniteSet(some) /\ Cardinality(some) = Len(ByNewest(Materialized, m)) BY <1>3, LineLength
  <2>2. IsFiniteSet(ToSet(found)) /\ Cardinality(ToSet(found)) = Len(found)
    <3> HIDE DEF found, both
    <3> QED BY <1>6, LineLength
  <2>3. some \subseteq ToSet(found)
    <3> HIDE DEF found
    <3> QED BY <1>6, <1>8
  <2>4. Cardinality(some) <= Cardinality(ToSet(found))
    <3> HIDE DEF found, some
    <3> QED BY <2>1, <2>2, <2>3, FS_Subset
  <2>5. Len(ByNewest(Materialized, m)) < m
    <3> HIDE DEF found, some
    <3> QED BY <2>1, <2>2, <2>4, <1>3, <1>6, <1>8
  <2> QED BY <2>3, <2>5, <1>3
<1> QED BY <1>5, <1>6, <1>7, <1>8

LEMMA SearchKeeps ==
    ASSUME DirInv, searchApiSessions \/ searchesNext \/ searchEnds
    PROVE  DirInv'
<1>1. DirTypes /\ BlanksMatchNothing /\ SearchStands BY DEF DirInv
<1>2. CASE searchApiSessions
  <2> DEFINE found == collectRecentApiSessions(MaxSearchSessions + 1)
             left == UpTo(found, MaxSearchSessions)
             more == Len(found) > MaxSearchSessions
  <2>1. /\ visitor' = [Unread EXCEPT !.at = "search", !.began = Matching, !.left = left, !.more = more]
        /\ UNCHANGED <<now, kept, created, prompted, storedLog, held, registered>>
    BY <1>2 DEF searchApiSessions
  <2>2. MaxSearchSessions \in Nat /\ MaxSearchSessions + 1 \in Nat BY DirectorySetting
  <2>3. /\ found \in Seq(Sessions) /\ IsInjective(found) /\ Len(found) \in Nat
        /\ Len(found) < MaxSearchSessions + 1 => Materialized \subseteq ToSet(found)
    <3> DEFINE m == MaxSearchSessions + 1
    <3> HIDE DEF m
    <3>1. /\ collectRecentApiSessions(m) \in Seq(Sessions) /\ IsInjective(collectRecentApiSessions(m))
          /\ Len(collectRecentApiSessions(m)) \in Nat
          /\ Len(collectRecentApiSessions(m)) < m => Materialized \subseteq ToSet(collectRecentApiSessions(m))
      BY <1>1, <2>2, CandidatesAre DEF m
    <3> QED BY <3>1 DEF m
  <2> HIDE DEF found
  <2>4. left \in Seq(Sessions) /\ (Len(found) <= MaxSearchSessions => ToSet(left) = ToSet(found))
    BY <2>2, <2>3, FirstRows
  <2> HIDE DEF left
  <2>5. Matching \in SUBSET Materialized
    BY <1>1 DEF Matching, Materialized, BlanksMatchNothing, DirTypes
  <2>6. visitor' = [at |-> "search", after |-> 0, left |-> left, seen |-> <<>>, more |-> more, began |-> Matching]
    BY <2>1 DEF Unread
  <2>7. more \in BOOLEAN /\ <<>> \in Seq(Sessions) /\ Matching \in SUBSET Sessions
    BY <2>5, EmptySeq DEF Materialized
  <2>8. /\ visitor' \in [at : {"idle", "list", "listed", "search", "searched"}, after : Nat,
                         left : Seq(Sessions), seen : Seq(Sessions), more : BOOLEAN, began : SUBSET Sessions]
        /\ visitor'.at = "search" /\ visitor'.left = left /\ (visitor'.more <=> more) /\ visitor'.began = Matching
    <3> HIDE DEF more
    <3> DEFINE none == <<>>
    <3>1. visitor' = [at |-> "search", after |-> 0, left |-> left, seen |-> none, more |-> more, began |-> Matching]
      BY <2>6
    <3>2. none \in Seq(Sessions) BY <2>7
    <3> HIDE DEF none
    <3> QED BY <2>4, <2>7, <3>1, <3>2
  <2>9. Materialized' = Materialized BY <2>1 DEF Materialized
  <2>10. DirTypes' /\ BlanksMatchNothing' /\ ListStands'
    BY <2>1, <2>8, <2>9, <1>1 DEF DirTypes, BlanksMatchNothing, ListStands
  <2>11. \A s \in Matching : Matches(s)' /\ (more \/ s \in ToSet(left))
    <3>1. \A s \in Matching : Matches(s)' BY <2>1 DEF Matching, Matches
    <3>2. ~more => Matching \subseteq ToSet(left) BY <2>2, <2>3, <2>4, <2>5
    <3> QED BY <3>1, <3>2
  <2>12. SearchStands'
    <3> HIDE DEF more
    <3> QED BY <2>8, <2>11 DEF SearchStands
  <2> QED BY <2>10, <2>12 DEF DirInv
<1>3. CASE searchesNext
  <2> DEFINE s == Head(visitor.left)
             log == IF s \in registered THEN held[s] ELSE storedLog[s]
             hit == log.match /\ log.length <= MaxSearchEvents
             items == IF hit THEN Append(visitor.seen, s) ELSE visitor.seen
             over == Len(items) > ResultLimit
  <2>1. /\ visitor.at = "search" /\ visitor.left # <<>>
        /\ IF s \in registered THEN StoresHeld(s) ELSE UNCHANGED <<storedLog, prompted>>
        /\ visitor' = IF over THEN [visitor EXCEPT !.at = "searched", !.more = TRUE]
                      ELSE [visitor EXCEPT !.left = Tail(@), !.seen = items, !.more = MoreAfter(log, @)]
        /\ UNCHANGED <<now, kept, created, held, registered>>
    BY <1>3 DEF searchesNext
  <2>2. /\ s \in Sessions /\ Tail(visitor.left) \in Seq(Sessions)
        /\ ToSet(visitor.left) = {s} \cup ToSet(Tail(visitor.left))
    <3>1. visitor.left \in Seq(Sessions) BY <1>1 DEF DirTypes
    <3>2. /\ Tail(visitor.left) \in Seq(Sessions) /\ Len(Tail(visitor.left)) = Len(visitor.left) - 1
          /\ \A i \in 1..Len(Tail(visitor.left)) : Tail(visitor.left)[i] = visitor.left[i + 1]
          /\ s = visitor.left[1] /\ s \in Sessions /\ Len(visitor.left) # 0
      BY <2>1, <3>1, HeadTailProperties, EmptySeq
    <3> HIDE DEF s
    <3> DEFINE l == visitor.left
               t == Tail(visitor.left)
    <3>3. Len(l) \in Nat /\ DOMAIN l = 1..Len(l) /\ DOMAIN t = 1..Len(t) /\ Len(t) = Len(l) - 1 /\ Len(l) # 0
      BY <3>1, <3>2, LenProperties
    <3>4. ASSUME NEW x \in ToSet(l) PROVE x = s \/ x \in ToSet(t)
      <4>1. PICK i \in 1..Len(l) : l[i] = x BY <3>3 DEF ToSet
      <4>2. CASE i = 1 BY <4>1, <4>2, <3>2
      <4>3. CASE i # 1
        <5>1. i - 1 \in 1..Len(t) /\ (i - 1) + 1 = i BY <4>3, <3>3
        <5>2. t[i - 1] = x BY <5>1, <4>1, <3>2
        <5> QED BY <5>1, <5>2, <3>3 DEF ToSet
      <4> QED BY <4>2, <4>3
    <3>5. ASSUME NEW x, x = s \/ x \in ToSet(t) PROVE x \in ToSet(l)
      <4>1. CASE x = s
        <5>1. 1 \in DOMAIN l /\ l[1] = x BY <4>1, <3>2, <3>3
        <5> QED BY <5>1 DEF ToSet
      <4>2. CASE x \in ToSet(t)
        <5>1. PICK i \in 1..Len(t) : t[i] = x BY <4>2, <3>3 DEF ToSet
        <5>2. i + 1 \in 1..Len(l) /\ l[i + 1] = x BY <5>1, <3>2, <3>3
        <5> QED BY <5>2, <3>3 DEF ToSet
      <4> QED BY <3>5, <4>1, <4>2
    <3>6. ToSet(l) = {s} \cup ToSet(t)
      <4> HIDE DEF l, t
      <4> QED BY <3>4, <3>5
    <3> QED BY <3>2, <3>6
  <2>3. /\ log \in [length : Nat, match : BOOLEAN] /\ (log.match <=> Matches(s))
        /\ visitor.seen \in Seq(Sessions)
    BY <2>2, <1>1 DEF DirTypes, Matches
  <2> HIDE DEF s, log
  <2>4. /\ items \in Seq(Sessions) /\ ToSet(visitor.seen) \subseteq ToSet(items)
        /\ hit => s \in ToSet(items)
    <3>1. CASE hit
      <4> DEFINE seen == visitor.seen
                 u == Append(seen, s)
      <4>1. /\ u \in Seq(Sessions) /\ Len(u) = Len(seen) + 1 /\ u[Len(u)] = s
            /\ \A i \in 1..Len(seen) : u[i] = seen[i]
        BY <2>2, <2>3, AppendProperties
      <4>2. DOMAIN u = 1..Len(u) /\ DOMAIN seen = 1..Len(seen) /\ Len(seen) \in Nat
        BY <2>3, <4>1, LenProperties
      <4> HIDE DEF u, seen
      <4>3. Len(u) \in 1..Len(u) /\ \A i \in 1..Len(seen) : i \in 1..Len(u) BY <4>1, <4>2
      <4>4. ToSet(seen) \subseteq ToSet(u) /\ s \in ToSet(u) BY <4>1, <4>2, <4>3 DEF ToSet
      <4>5. items = u BY <3>1 DEF u, seen
      <4> QED BY <4>1, <4>4, <4>5 DEF seen
    <3>2. CASE ~hit BY <3>2, <2>3
    <3> QED BY <3>1, <3>2
  <2> HIDE DEF items
  <2>5. /\ storedLog' \in [Sessions -> [length : Nat, match : BOOLEAN]] /\ prompted' \in [Sessions -> Nat]
        /\ \A t \in Sessions : storedLog'[t] = storedLog[t]
                               \/ (t = s /\ s \in registered /\ storedLog'[t] = held[t])
    <3>1. CASE s \in registered
      <4>1. /\ storedLog' = [storedLog EXCEPT ![s] = held[s]]
            /\ prompted' = [prompted EXCEPT ![s] = IF storedLog[s] = held[s] THEN @ ELSE now]
        BY <2>1, <3>1 DEF StoresHeld
      <4> QED BY <4>1, <3>1, <2>2, <1>1 DEF DirTypes
    <3>2. CASE s \notin registered BY <2>1, <3>2, <1>1 DEF DirTypes
    <3> QED BY <3>1, <3>2
  <2>6. Materialized' = Materialized /\ \A t \in Sessions : Matches(t)' <=> Matches(t)
    <3>1. Materialized' = Materialized BY <2>1 DEF Materialized
    <3>2. \A t \in Sessions : t \notin registered => storedLog'[t] = storedLog[t] BY <2>5
    <3> QED BY <3>1, <3>2, <2>1 DEF Matches
  <2>7. BlanksMatchNothing'
    <3> SUFFICES ASSUME NEW t \in Sessions \ Materialized PROVE ~storedLog'[t].match
      BY <2>6 DEF BlanksMatchNothing
    <3>1. storedLog'[t] = storedLog[t] BY <2>5, <1>1 DEF DirTypes
    <3> QED BY <3>1, <1>1 DEF BlanksMatchNothing
  <2>8. \A t \in visitor.began : t \in Sessions /\ Matches(t) /\ (visitor.more \/ t \in ToSet(visitor.left) \cup ToSet(visitor.seen))
    BY <2>1, <1>1 DEF SearchStands, DirTypes
  <2>9. CASE over
    <3>1. visitor' = [visitor EXCEPT !.at = "searched", !.more = TRUE] BY <2>1, <2>9
    <3>2. /\ visitor' \in [at : {"idle", "list", "listed", "search", "searched"}, after : Nat,
                           left : Seq(Sessions), seen : Seq(Sessions), more : BOOLEAN, began : SUBSET Sessions]
          /\ visitor'.at = "searched" /\ visitor'.more
      BY <3>1, <1>1 DEF DirTypes
    <3>3. DirTypes' BY <3>2, <2>1, <2>5, <2>6, <1>1 DEF DirTypes
    <3>4. ListStands' /\ SearchStands' BY <3>2 DEF ListStands, SearchStands
    <3> QED BY <3>3, <3>4, <2>7 DEF DirInv
  <2>10. CASE ~over
    <3> DEFINE more == MoreAfter(log, visitor.more)
    <3>1. visitor' = [visitor EXCEPT !.left = Tail(visitor.left), !.seen = items, !.more = more]
      BY <2>1, <2>10
    <3>2. more \in BOOLEAN /\ (visitor.more => more) /\ (log.length > MaxSearchEvents => more)
      BY <1>1 DEF MoreAfter, DirTypes
    <3> HIDE DEF more
    <3>3. /\ visitor' \in [at : {"idle", "list", "listed", "search", "searched"}, after : Nat,
                           left : Seq(Sessions), seen : Seq(Sessions), more : BOOLEAN, began : SUBSET Sessions]
          /\ visitor'.at = visitor.at /\ visitor'.left = Tail(visitor.left) /\ visitor'.seen = items
          /\ visitor'.more = more /\ visitor'.began = visitor.began
      BY <3>1, <3>2, <2>2, <2>4, <1>1 DEF DirTypes
    <3>4. DirTypes' BY <3>3, <2>1, <2>5, <2>6, <1>1 DEF DirTypes
    <3>5. ASSUME NEW t \in visitor.began PROVE Matches(t)' /\ (more \/ t \in ToSet(Tail(visitor.left)) \cup ToSet(items))
      <4>1. t \in Sessions /\ Matches(t)' /\ Matches(t) BY <2>6, <2>8
      <4>2. CASE t = s
        <5>1. log.match BY <4>1, <4>2, <2>3
        <5>2. ~(log.length <= MaxSearchEvents) => more
          <6>1. ~(log.length <= MaxSearchEvents) => visitor.more \/ log.length > MaxSearchEvents
            BY <2>3, DirectorySetting
          <6> QED BY <6>1, <3>2
        <5>3. hit => t \in ToSet(items) BY <2>4, <4>2
        <5> QED BY <4>1, <5>1, <5>2, <5>3
      <4>3. CASE t # s BY <4>1, <4>3, <3>2, <2>2, <2>4, <2>8
      <4> QED BY <4>2, <4>3
    <3>6. ListStands' /\ SearchStands' BY <3>3, <3>5, <2>1 DEF ListStands, SearchStands
    <3> QED BY <3>4, <3>6, <2>7 DEF DirInv
  <2> QED BY <2>9, <2>10
<1>4. CASE searchEnds
  <2>1. /\ visitor.at = "search" /\ visitor.left = <<>> /\ visitor' = [visitor EXCEPT !.at = "searched"]
        /\ UNCHANGED <<now, kept, created, prompted, storedLog, held, registered>>
    BY <1>4 DEF searchEnds
  <2>2. /\ visitor' \in [at : {"idle", "list", "listed", "search", "searched"}, after : Nat,
                         left : Seq(Sessions), seen : Seq(Sessions), more : BOOLEAN, began : SUBSET Sessions]
        /\ visitor'.at = "searched" /\ visitor'.more = visitor.more /\ visitor'.seen = visitor.seen
        /\ visitor'.began = visitor.began
    BY <2>1, <1>1 DEF DirTypes
  <2>3. Materialized' = Materialized BY <2>1 DEF Materialized
  <2>4. DirTypes' /\ BlanksMatchNothing' /\ ListStands'
    BY <2>1, <2>2, <2>3, <1>1 DEF DirTypes, BlanksMatchNothing, ListStands
  <2>5. ToSet(<<>>) = {} BY DEF ToSet
  <2>6. SearchStands' BY <2>1, <2>2, <2>5, <1>1 DEF SearchStands
  <2> QED BY <2>4, <2>6 DEF DirInv
<1> QED BY <1>2, <1>3, <1>4

LEMMA DirInvStep == DirInv /\ [DirectoryNext]_directoryVars => DirInv'
<1> SUFFICES ASSUME DirInv, [DirectoryNext]_directoryVars PROVE DirInv' OBVIOUS
<1>1. CASE UNCHANGED directoryVars
  <2>1. UNCHANGED <<now, kept, created, prompted, storedLog, held, registered, visitor>>
    BY <1>1 DEF directoryVars
  <2>2. Materialized' = Materialized /\ \A s \in Sessions : Matches(s) => Matches(s)'
    BY <2>1 DEF Materialized, Matches
  <2>3. DirTypes' /\ BlanksMatchNothing' BY <2>1, <2>2 DEF DirInv, DirTypes, BlanksMatchNothing
  <2> QED BY <2>1, <2>2, <2>3, VisitorStays
<1> QED BY <1>1, SessionsGoOn, ListKeeps, SearchKeeps DEF DirectoryNext

\* The pages of the list together hold every session there was when the first
\* was read, each once; a search that says it saw everything did.
THEOREM DirectoryCorrect == DirectorySpec => [](ListingIsComplete /\ SearchIsHonest)
<1>1. DirInv => ListingIsComplete /\ SearchIsHonest
  BY DEF DirInv, ListStands, SearchStands, ListingIsComplete, SearchIsHonest, Range, ToSet
<1> QED BY <1>1, DirInvInit, DirInvStep, PTL DEF DirectorySpec

----------------------------------------
(* The upgrade of the logs.  A session's conversion is worked out from the *)
(* rows and the children's logs as they were at the start, so that the     *)
(* order of the sessions does not matter: after some of them, their logs   *)
(* are conversions and the others are as they were.                        *)

MigTypes ==
    /\ build \in {Old, New} /\ up \in BOOLEAN /\ Stored \subseteq Ids
    /\ \A id \in Stored : headers[id] \in [version : {Old, New}, parent : {0} \cup Ids]
    /\ \A k \in DOMAIN events : k[1] \in Stored
Conversion(id) == Migrated(id, collectChildFacts(headers, events, id))
Converted(s, done) ==
    /\ DOMAIN s.head = Stored
    /\ \A id \in Stored :
          s.head[id] = IF id \in done THEN [headers[id] EXCEPT !.version = build] ELSE headers[id]
    /\ \A k : k \in DOMAIN s.table <=>
          IF k[1] \in done THEN k \in DOMAIN Conversion(k[1])
          ELSE k \in DOMAIN events /\ (rebuilds => k[1] \in Stored /\ headers[k[1]].version = build)
    /\ \A k \in DOMAIN s.table : s.table[k] = IF k[1] \in done THEN Conversion(k[1])[k] ELSE events[k]

\* A conversion is of its own session.
LEMMA ConversionIsOwn ==
    ASSUME NEW id, NEW k \in DOMAIN Conversion(id) PROVE k[1] = id
<1> DEFINE facts == collectChildFacts(headers, events, id)
           next == 1 + Max({-1} \cup {j[2] : j \in RowsOf(events, id)})
           nth(c) == next + Cardinality({d \in DOMAIN facts : d < c})
           staying == {j \in RowsOf(events, id) : events[j] # "chunk"}
           entries == {<<id, nth(c)>> : c \in DOMAIN facts}
<1>1. DOMAIN Conversion(id) = staying \cup entries BY DEF Conversion, Migrated
<1>2. CASE k \in staying BY <1>2 DEF RowsOf
<1>3. CASE k \in entries
  <2> HIDE DEF nth, facts
  <2> QED BY <1>3
<1> QED BY <1>1, <1>2, <1>3

\* One more session is converted.
LEMMA SessionConverted ==
    ASSUME MigTypes, NEW s, NEW done, done \subseteq Migratable, Converted(s, done), NEW id \in Migratable, id \notin done
    PROVE  Converted(migrateSession(s, id), done \cup {id})
<1> DEFINE p == prepareMigration(id, collectChildFacts(headers, events, id))
           t == commitMigration(s.table, p, rebuilds)
           h == [s.head EXCEPT ![id].version = build]
           packed == Conversion(id)
           before == RowsOf(events, id)
<1>1. migrateSession(s, id) = [head |-> h, table |-> t]
  <2>1. \A e, f : FactsFor(childFacts, e, f, id) = collectChildFacts(headers, events, id)
    BY DEF FactsFor, childFacts
  <2> QED BY <2>1 DEF migrateSession
<1>2. migrateSession(s, id).head = h /\ migrateSession(s, id).table = t
  <2> HIDE DEF h, t
  <2> QED BY <1>1
<1>3. /\ p.packed = packed /\ p.removed = before \ DOMAIN packed /\ p.added = DOMAIN packed \ before
      /\ p.changed = {k \in before \cap DOMAIN packed : events[k] # packed[k]}
  BY DEF prepareMigration, Conversion
<1> HIDE DEF p, packed
<1>4. id \in Stored /\ headers[id].version < build BY DEF Migratable, Outdated
<1>5. \A k \in DOMAIN packed : k[1] = id BY ConversionIsOwn DEF packed
<1>6. \A k \in before : k[1] = id /\ k \in DOMAIN events BY DEF RowsOf
<1>7. DOMAIN h = Stored /\ \A i \in Stored :
        h[i] = IF i \in done \cup {id} THEN [headers[i] EXCEPT !.version = build] ELSE headers[i]
  BY <1>4 DEF Converted
\* In place: what was removed is gone and what was added is there.
<1>8. CASE ~rebuilds
  <2>1. t = [k \in (DOMAIN s.table \ p.removed) \cup p.added |->
               IF k \in p.changed \cup p.added THEN p.packed[k] ELSE s.table[k]]
    BY <1>8 DEF commitMigration
  <2> HIDE DEF t
  <2>2. ASSUME NEW k PROVE k \in DOMAIN t <=>
          IF k[1] \in done \cup {id} THEN k \in DOMAIN Conversion(k[1]) ELSE k \in DOMAIN events
    <3>1. CASE k[1] = id
      <4>1. k \in DOMAIN s.table <=> k \in before BY <1>8, <3>1 DEF Converted, RowsOf
      <4> QED BY <4>1, <3>1, <2>1, <1>3 DEF packed
    <3>2. CASE k[1] # id
      <4>1. k \notin p.removed /\ k \notin p.added BY <3>2, <1>3, <1>5, <1>6
      <4>2. k \in DOMAIN t <=> k \in DOMAIN s.table BY <4>1, <2>1
      <4> QED BY <4>2, <3>2, <1>8 DEF Converted
    <3> QED BY <3>1, <3>2
  <2>3. ASSUME NEW k \in DOMAIN t PROVE t[k] = IF k[1] \in done \cup {id} THEN Conversion(k[1])[k] ELSE events[k]
    <3>1. CASE k[1] = id
      <4>1. k \in DOMAIN packed /\ (k \in DOMAIN s.table <=> k \in before)
        BY <2>2, <1>8, <3>1 DEF Converted, RowsOf, packed
      <4>2. CASE k \in p.changed \cup p.added BY <4>2, <3>1, <2>1, <1>3 DEF packed
      <4>3. CASE k \notin p.changed \cup p.added
        <5>1. k \in before /\ events[k] = packed[k] /\ k \in DOMAIN s.table BY <4>1, <4>3, <1>3
        <5>2. t[k] = s.table[k] /\ s.table[k] = events[k] BY <4>3, <5>1, <2>1, <3>1 DEF Converted
        <5> QED BY <5>1, <5>2, <3>1 DEF packed
      <4> QED BY <4>2, <4>3
    <3>2. CASE k[1] # id
      <4>1. k \notin p.added /\ k \notin p.changed /\ k \in DOMAIN s.table
        BY <3>2, <2>1, <1>3, <1>5, <1>6
      <4> QED BY <4>1, <3>2, <2>1 DEF Converted
    <3> QED BY <3>1, <3>2
  <2> HIDE DEF h
  <2> QED BY <2>2, <2>3, <1>2, <1>7, <1>8 DEF Converted
\* Into the new table: nothing of the session was there.
<1>9. CASE rebuilds
  <2>1. t = [k \in DOMAIN packed \cup DOMAIN s.table |-> IF k \in DOMAIN packed THEN packed[k] ELSE s.table[k]]
    BY <1>3, <1>9 DEF commitMigration, Covering
  <2> HIDE DEF t
  <2>2. ASSUME NEW k, k[1] = id PROVE k \notin DOMAIN s.table
    <3>1. k[1] \notin done /\ headers[k[1]].version # build
      <4>1. headers[id].version # build BY <1>4 DEF MigTypes, Old, New
      <4> QED BY <2>2, <4>1
    <3> QED BY <3>1, <1>9 DEF Converted
  <2>3. ASSUME NEW k PROVE k \in DOMAIN t <=>
          IF k[1] \in done \cup {id} THEN k \in DOMAIN Conversion(k[1])
          ELSE k \in DOMAIN events /\ k[1] \in Stored /\ headers[k[1]].version = build
    <3>1. CASE k[1] = id BY <3>1, <2>1, <2>2 DEF packed
    <3>2. CASE k[1] # id BY <3>2, <2>1, <1>5, <1>9 DEF Converted
    <3> QED BY <3>1, <3>2
  <2>4. ASSUME NEW k \in DOMAIN t PROVE t[k] = IF k[1] \in done \cup {id} THEN Conversion(k[1])[k] ELSE events[k]
    <3>1. CASE k[1] = id BY <3>1, <2>1, <2>2 DEF packed
    <3>2. CASE k[1] # id BY <3>2, <2>1, <1>5 DEF Converted
    <3> QED BY <3>1, <3>2
  <2> HIDE DEF h
  <2> QED BY <2>3, <2>4, <1>2, <1>7, <1>9 DEF Converted
<1> QED BY <1>8, <1>9

MigOrder == InIdOrder(Migratable)
MigRun == CHOOSE g : g = [n \in 0..Len(MigOrder) |->
                            IF n = 0 THEN beforeMigration ELSE migrateSession(g[n - 1], MigOrder[n])]
MigStep(g, n) == g[n] = IF n = 0 THEN beforeMigration ELSE migrateSession(g[n - 1], MigOrder[n])

LEMMA MigOrderIs ==
    ASSUME MigTypes
    PROVE  MigOrder \in Seq(Migratable) /\ IsInjective(MigOrder) /\ ToSet(MigOrder) = Migratable
<1> DEFINE C == Migratable
           R == {x \in C \X C : x[1] < x[2]}
           n == Cardinality(C)
           ranked == InIdOrder(C)
<1>1. IsFiniteSet(C) /\ \A a \in C : a \in Nat
  <2>1. C \subseteq Ids BY DEF Migratable, Outdated, MigTypes
  <2> HIDE DEF C
  <2> QED BY <2>1, MigrationSetting, FS_Subset
<1> HIDE DEF C
<1>2. \A a, b \in C : <<a, b>> \in R <=> a < b OBVIOUS
<1>3. Orders(R, C)
  <2> HIDE DEF R
  <2> QED BY <1>1, <1>2 DEF Orders
<1> HIDE DEF R
<1>4. /\ \E p \in [1..n -> C] : \A i, j \in 1..n : i < j => <<p[i], p[j]>> \in R
      /\ \A p \in [1..n -> C] : (\A i, j \in 1..n : i < j => <<p[i], p[j]>> \in R)
            => p \in Seq(C) /\ Len(p) = n /\ IsInjective(p) /\ ToSet(p) = C
  BY <1>1, <1>3, LineUp
<1>5. \E p \in [1..n -> C] : \A i, j \in 1..n : i < j => p[i] < p[j]
  <2>1. PICK p \in [1..n -> C] : \A i, j \in 1..n : i < j => <<p[i], p[j]>> \in R BY <1>4
  <2>2. \A i \in 1..n : p[i] \in C BY <2>1
  <2> HIDE DEF n
  <2> QED BY <2>1, <2>2, <1>2
<1>6. ranked \in [1..n -> C] /\ \A i, j \in 1..n : i < j => ranked[i] < ranked[j]
  BY <1>5, Zenon DEF InIdOrder
<1> HIDE DEF ranked, n
<1>7. \A i, j \in 1..n : i < j => <<ranked[i], ranked[j]>> \in R
  <2>1. \A i \in 1..n : ranked[i] \in C BY <1>6
  <2> QED BY <2>1, <1>6, <1>2
<1>8. ranked \in Seq(C) /\ IsInjective(ranked) /\ ToSet(ranked) = C BY <1>4, <1>6, <1>7
<1> QED BY <1>8 DEF MigOrder, ranked, C

\* The recursion over the sessions has a solution, and so the operator is one.
LEMMA MigRunExists ==
    ASSUME NEW m \in Nat PROVE \E g : \A n \in 0..m : MigStep(g, n)
<1> DEFINE Has(k) == \E g : \A n \in 0..k : MigStep(g, n)
           Fails == {k \in Nat : ~Has(k)}
<1>1. SUFFICES ASSUME Fails # {} PROVE FALSE BY Zenon
<1>2. PICK k \in Fails : \A i \in Fails : k <= i
  <2> HIDE DEF Fails
  <2>1. Fails \subseteq Nat BY DEF Fails
  <2> QED BY <1>1, <2>1, LeastNumber
<1>3. k \in Nat /\ ~Has(k) BY <1>2
<1>4. k # 0
  <2> SUFFICES ASSUME k = 0 PROVE Has(k) BY <1>3
  <2>1. \A n \in 0..k : MigStep([i \in 0..k |-> beforeMigration], n) BY DEF MigStep
  <2> QED BY <2>1
<1>5. k - 1 \in Nat /\ k - 1 \notin Fails
  <2>1. k - 1 \in Nat /\ ~(k <= k - 1) BY <1>3, <1>4
  <2> HIDE DEF Fails
  <2> QED BY <2>1, <1>2
<1>6. PICK g : \A n \in 0..(k - 1) : MigStep(g, n)
  <2> HIDE DEF Has
  <2>1. Has(k - 1) BY <1>5
  <2> QED BY <2>1 DEF Has
<1> DEFINE last == migrateSession(g[k - 1], MigOrder[k])
           h == [n \in 0..k |-> IF n = k THEN last ELSE g[n]]
<1>7. \A n \in 0..k : n # k => n \in 0..(k - 1) BY <1>3
<1>8. ASSUME NEW n \in 0..k PROVE MigStep(h, n)
  <2>1. CASE n = k
    <3>1. h[n] = last /\ h[n - 1] = g[n - 1] BY <2>1, <1>3, <1>4
    <3> QED BY <3>1, <2>1, <1>4 DEF MigStep
  <2>2. CASE n # k
    <3>1. n \in 0..(k - 1) /\ h[n] = g[n] /\ (n # 0 => n - 1 \in 0..k /\ n - 1 # k /\ h[n - 1] = g[n - 1])
      BY <2>2, <1>3, <1>7
    <3>2. MigStep(g, n) BY <3>1, <1>6
    <3> HIDE DEF h
    <3> QED BY <3>1, <3>2 DEF MigStep
  <2> QED BY <2>1, <2>2
<1>9. Has(k)
  <2> HIDE DEF h
  <2> QED BY <1>8
<1> QED BY <1>3, <1>9

LEMMA NothingConverted == Converted(beforeMigration, {})
<1>1. /\ beforeMigration.head = headers
      /\ beforeMigration.table = IF rebuilds THEN Logs(events, {id \in Stored : headers[id].version = build})
                                 ELSE events
  BY DEF beforeMigration
<1>2. CASE rebuilds
  <2> DEFINE ofBuild == {id \in Stored : headers[id].version = build}
  <2>1. beforeMigration.table = [k \in {j \in DOMAIN events : j[1] \in ofBuild} |-> events[k]]
    BY <1>1, <1>2 DEF Logs, Restrict
  <2>2. \A k : k \in DOMAIN beforeMigration.table <=> k \in DOMAIN events /\ k[1] \in ofBuild
    BY <2>1
  <2>3. \A k \in DOMAIN beforeMigration.table : beforeMigration.table[k] = events[k] BY <2>1
  <2> QED BY <1>1, <1>2, <2>2, <2>3 DEF Converted, Stored
<1>3. CASE ~rebuilds BY <1>1, <1>3 DEF Converted, Stored
<1> QED BY <1>2, <1>3

\* All sessions of the old format that are not too large are converted.
LEMMA AllConverted ==
    ASSUME MigTypes PROVE Converted(migrateStoredSessions, Migratable)
<1> DEFINE N == Len(MigOrder)
           F == MigRun
           done(n) == {MigOrder[i] : i \in 1..n}
<1>1. /\ N \in Nat /\ MigOrder \in Seq(Migratable) /\ IsInjective(MigOrder) /\ DOMAIN MigOrder = 1..N
      /\ ToSet(MigOrder) = Migratable
  BY MigOrderIs, LenProperties
<1>2. PICK g : \A n \in 0..N : MigStep(g, n) BY <1>1, MigRunExists
<1> DEFINE f == [n \in 0..N |-> g[n]]
<1>3. f = [n \in 0..N |-> IF n = 0 THEN beforeMigration ELSE migrateSession(f[n - 1], MigOrder[n])]
  <2>1. ASSUME NEW n \in 0..N PROVE f[n] = IF n = 0 THEN beforeMigration ELSE migrateSession(f[n - 1], MigOrder[n])
    <3>1. MigStep(g, n) /\ f[n] = g[n] /\ (n # 0 => f[n - 1] = g[n - 1]) BY <1>1, <1>2
    <3> HIDE DEF f
    <3> QED BY <3>1 DEF MigStep
  <2>2. f = [n \in 0..N |-> f[n]] OBVIOUS
  <2> HIDE DEF f
  <2> QED BY <2>1, <2>2
<1> HIDE DEF f
<1>4. F = [n \in 0..N |-> IF n = 0 THEN beforeMigration ELSE migrateSession(F[n - 1], MigOrder[n])]
  BY <1>3, Zenon DEF MigRun
<1>5. migrateStoredSessions = F[N] BY DEF migrateStoredSessions, MigRun, MigOrder
<1> HIDE DEF F
<1>6. \A n \in 0..N : MigStep(F, n) BY <1>4 DEF MigStep
<1> DEFINE Wrong == {n \in 0..N : ~Converted(F[n], done(n))}
<1>7. Wrong = {}
  <2> SUFFICES ASSUME Wrong # {} PROVE FALSE OBVIOUS
  <2>1. PICK n \in Wrong : \A i \in Wrong : n <= i
    <3>1. Wrong \subseteq Nat BY <1>1
    <3> HIDE DEF Wrong
    <3> QED BY <3>1, <2>1, LeastNumber
  <2>2. n \in 0..N /\ n \in Nat /\ ~Converted(F[n], done(n)) BY <1>1
  <2>3. CASE n = 0
    <3>1. F[n] = beforeMigration /\ done(n) = {} BY <2>2, <2>3, <1>6 DEF MigStep
    <3> QED BY <3>1, <2>2, NothingConverted
  <2>4. CASE n # 0
    <3>1. n - 1 \in 0..N /\ n - 1 < n /\ n \in 1..N /\ n - 1 \in Nat BY <2>2, <2>4, <1>1
    <3>2. n - 1 \notin Wrong
      <4> HIDE DEF Wrong
      <4> QED BY <2>1, <2>2, <3>1
    <3>3. Converted(F[n - 1], done(n - 1)) BY <3>1, <3>2
    <3>4. MigOrder[n] \in Migratable /\ done(n - 1) \subseteq Migratable
      <4>1. \A i \in 1..N : MigOrder[i] \in Migratable BY <1>1, ElementOfSeq
      <4>2. \A i \in 1..(n - 1) : i \in 1..N BY <3>1, <1>1
      <4> QED BY <4>1, <4>2, <3>1
    <3>5. MigOrder[n] \notin done(n - 1)
      <4> SUFFICES ASSUME NEW i \in 1..(n - 1), MigOrder[i] = MigOrder[n] PROVE FALSE OBVIOUS
      <4>1. i \in 1..N /\ i # n BY <3>1, <1>1
      <4> QED BY <4>1, <3>1, <1>1 DEF IsInjective
    <3>6. done(n) = done(n - 1) \cup {MigOrder[n]}
      <4>1. 1..n = 1..(n - 1) \cup {n} BY <3>1
      <4> QED BY <4>1
    <3>7. F[n] = migrateSession(F[n - 1], MigOrder[n]) BY <2>2, <2>4, <1>6 DEF MigStep
    <3> HIDE DEF done
    <3>8. Converted(migrateSession(F[n - 1], MigOrder[n]), done(n - 1) \cup {MigOrder[n]})
      BY <3>3, <3>4, <3>5, SessionConverted
    <3> QED BY <3>6, <3>7, <3>8, <2>2
  <2> QED BY <2>3, <2>4
<1>8. Converted(F[N], done(N))
  <2>1. N \in 0..N BY <1>1
  <2> QED BY <2>1, <1>7
<1>9. done(N) = Migratable BY <1>1 DEF ToSet
<1> QED BY <1>5, <1>8, <1>9

LEMMA ConversionIsFunction ==
    ASSUME NEW id PROVE Conversion(id) = [k \in DOMAIN Conversion(id) |-> Conversion(id)[k]]
<1> DEFINE facts == collectChildFacts(headers, events, id)
           next == 1 + Max({-1} \cup {j[2] : j \in RowsOf(events, id)})
           nth(c) == next + Cardinality({d \in DOMAIN facts : d < c})
           staying == {j \in RowsOf(events, id) : events[j] # "chunk"}
           entries == {<<id, nth(c)>> : c \in DOMAIN facts}
           D == staying \cup entries
           body(k) == IF k \in staying THEN (IF events[k] = "old" THEN "new" ELSE events[k])
                      ELSE facts[CHOOSE c \in DOMAIN facts : nth(c) = k[2]]
<1>1. Conversion(id) = [k \in D |-> body(k)] BY Zenon DEF Conversion, Migrated
<1> HIDE DEF D, body
<1> QED BY <1>1

\* What a conversion holds reads in the new format.
LEMMA ConversionReads ==
    ASSUME NEW id \in Stored, headers[id].version = Old, Decodes(headers, events, id),
           NEW k \in DOMAIN Conversion(id) PROVE Conversion(id)[k] \in Reads(New)
<1> DEFINE facts == collectChildFacts(headers, events, id)
           next == 1 + Max({-1} \cup {j[2] : j \in RowsOf(events, id)})
           nth(c) == next + Cardinality({d \in DOMAIN facts : d < c})
           staying == {j \in RowsOf(events, id) : events[j] # "chunk"}
           entries == {<<id, nth(c)>> : c \in DOMAIN facts}
           fact == CHOOSE c \in DOMAIN facts : nth(c) = k[2]
<1>1. /\ k \in staying \cup entries
      /\ Conversion(id)[k] = IF k \in staying THEN (IF events[k] = "old" THEN "new" ELSE events[k]) ELSE facts[fact]
  BY DEF Conversion, Migrated
<1>2. CASE k \in staying
  <2>1. events[k] \in {"plain", "old", "chunk"} /\ events[k] # "chunk" BY <1>2 DEF Decodes, Reads
  <2> QED BY <2>1, <1>1, <1>2 DEF Reads, New, Old
<1>3. CASE k \notin staying
  <2>1. \E c \in DOMAIN facts : nth(c) = k[2]
    <3> HIDE DEF facts, nth, staying
    <3> QED BY <1>1, <1>3
  <2>2. fact \in DOMAIN facts
    <3> HIDE DEF facts, nth
    <3> QED BY <2>1
  <2>3. \A c \in DOMAIN facts : facts[c] \in {"known", "unknown"} BY DEF collectChildFacts
  <2> HIDE DEF facts, fact, staying
  <2> QED BY <2>2, <2>3, <1>1, <1>3 DEF Reads, New, Old
<1> QED BY <1>2, <1>3

NewLogsRead ==
    \A k \in DOMAIN events : headers[k[1]].version = New => events[k] \in Reads(New)
MigInv ==
    /\ MigTypes /\ NewLogsRead
    /\ up => \A id \in Stored : headers[id].version = build \/ (headers[id].version = Old /\ ~assertMigratable(id))

\* What a start that succeeds leaves.
LEMMA StartConverts ==
    ASSUME MigInv, postInitialize, CanStart
    PROVE  /\ up' /\ build' = build /\ DOMAIN headers' = Stored
           /\ \A id \in Stored \ Migratable :
                headers'[id] = headers[id] /\ LogOf(events', id) = LogOf(events, id)
           /\ \A id \in Migratable :
                /\ headers'[id] = [headers[id] EXCEPT !.version = build]
                /\ LogOf(events', id) = Conversion(id)
           /\ \A id \in Stored \ Migratable : RowsOf(events', id) = RowsOf(events, id)
           /\ \A k \in DOMAIN events' :
                /\ k[1] \in Stored
                /\ IF k[1] \in Migratable THEN k \in DOMAIN Conversion(k[1]) /\ events'[k] = Conversion(k[1])[k]
                   ELSE k \in DOMAIN events /\ events'[k] = events[k]
<1> DEFINE s == migrateStoredSessions
<1>1. up' = TRUE /\ headers' = s.head /\ events' = s.table /\ build' = build BY DEF postInitialize
<1>2. Converted(s, Migratable) BY AllConverted DEF MigInv
<1> HIDE DEF s
<1>3. /\ DOMAIN headers' = Stored
      /\ \A id \in Stored :
            headers'[id] = IF id \in Migratable THEN [headers[id] EXCEPT !.version = build] ELSE headers[id]
      /\ \A k : k \in DOMAIN events' <=>
            IF k[1] \in Migratable THEN k \in DOMAIN Conversion(k[1])
            ELSE k \in DOMAIN events /\ (rebuilds => k[1] \in Stored /\ headers[k[1]].version = build)
      /\ \A k \in DOMAIN events' : events'[k] = IF k[1] \in Migratable THEN Conversion(k[1])[k] ELSE events[k]
  BY <1>1, <1>2 DEF Converted
\* A new table takes over every log that is not converted.
<1>4. ASSUME NEW id \in Stored \ Migratable, rebuilds PROVE headers[id].version = build
  <2>1. Outdated = Migratable BY <1>4 DEF rebuilds, isEventTableRebuildCheaper
  <2>2. ~(headers[id].version < build) /\ headers[id].version <= build
    BY <2>1, <1>4 DEF Outdated, CanStart
  <2>3. headers[id].version \in {Old, New} /\ build \in {Old, New} BY <1>4 DEF MigInv, MigTypes
  <2> QED BY <2>2, <2>3 DEF Old, New
<1>5. Migratable \subseteq Stored /\ \A k \in DOMAIN events : k[1] \in Stored
  BY DEF Migratable, Outdated, MigInv, MigTypes
<1>6. ASSUME NEW id \in Stored \ Migratable
      PROVE  RowsOf(events', id) = RowsOf(events, id) /\ LogOf(events', id) = LogOf(events, id)
  <2>1. \A k : k[1] = id => (k \in DOMAIN events' <=> k \in DOMAIN events) BY <1>3, <1>4, <1>5, <1>6
  <2>2. RowsOf(events', id) = RowsOf(events, id) BY <2>1 DEF RowsOf
  <2>3. \A k \in RowsOf(events, id) : events'[k] = events[k] BY <2>1, <1>3 DEF RowsOf
  <2> QED BY <2>2, <2>3 DEF LogOf, Restrict
<1>7. ASSUME NEW id \in Migratable PROVE LogOf(events', id) = Conversion(id)
  <2>1. RowsOf(events', id) = DOMAIN Conversion(id)
    <3>1. \A k \in RowsOf(events', id) : k \in DOMAIN Conversion(id) BY <1>3, <1>7 DEF RowsOf
    <3>2. \A k \in DOMAIN Conversion(id) : k \in RowsOf(events', id)
      BY <1>3, <1>7, ConversionIsOwn DEF RowsOf
    <3> QED BY <3>1, <3>2
  <2>2. \A k \in DOMAIN Conversion(id) : events'[k] = Conversion(id)[k]
    BY <2>1, <1>3, <1>7 DEF RowsOf
  <2>3. Conversion(id) = [k \in DOMAIN Conversion(id) |-> Conversion(id)[k]] BY ConversionIsFunction
  <2> QED BY <2>1, <2>2, <2>3 DEF LogOf, Restrict
<1>8. \A k \in DOMAIN events' : k[1] \in Stored BY <1>3, <1>5
<1> QED BY <1>1, <1>3, <1>5, <1>6, <1>7, <1>8

LEMMA MigInvStep == MigInv /\ [MigrationNext]_migrationVars => MigInv'
<1> SUFFICES ASSUME MigInv, [MigrationNext]_migrationVars PROVE MigInv' OBVIOUS
<1>1. MigTypes /\ NewLogsRead BY DEF MigInv
<1>2. Stored' = DOMAIN headers' BY DEF Stored
<1>3. CASE postInitialize /\ CanStart
  <2>1. /\ up' /\ build' = build /\ DOMAIN headers' = Stored
        /\ \A id \in Stored \ Migratable : headers'[id] = headers[id]
        /\ \A id \in Migratable : headers'[id] = [headers[id] EXCEPT !.version = build]
        /\ \A id \in Stored \ Migratable : RowsOf(events', id) = RowsOf(events, id)
        /\ \A k \in DOMAIN events' :
             /\ k[1] \in Stored
             /\ IF k[1] \in Migratable THEN k \in DOMAIN Conversion(k[1]) /\ events'[k] = Conversion(k[1])[k]
                ELSE k \in DOMAIN events /\ events'[k] = events[k]
    BY <1>3, StartConverts
  <2>2. \A id \in Stored : headers[id].version <= build /\ headers[id].version \in {Old, New} /\ build \in {Old, New}
    BY <1>1, <1>3 DEF CanStart, MigTypes
  <2>3. Migratable \subseteq Stored /\ \A id \in Migratable : /\ headers[id].version = Old /\ build = New
                                                              /\ Decodes(headers, events, id)
    BY <1>3, <2>2 DEF Migratable, Outdated, CanStart, Old, New
  <2>4. MigTypes'
    <3>1. ASSUME NEW id \in Stored PROVE headers'[id] \in [version : {Old, New}, parent : {0} \cup Ids]
      <4>1. headers[id] \in [version : {Old, New}, parent : {0} \cup Ids] BY <1>1 DEF MigTypes
      <4>2. headers'[id] = headers[id] \/ headers'[id] = [headers[id] EXCEPT !.version = build]
        BY <2>1
      <4> QED BY <4>1, <4>2, <2>2
    <3> QED BY <3>1, <2>1, <1>1, <1>2 DEF MigTypes
  <2>5. NewLogsRead'
    <3> SUFFICES ASSUME NEW k \in DOMAIN events', headers'[k[1]].version = New PROVE events'[k] \in Reads(New)
      BY DEF NewLogsRead, Reads
    <3>1. CASE k[1] \in Migratable
      <4>1. k \in DOMAIN Conversion(k[1]) /\ events'[k] = Conversion(k[1])[k] /\ k[1] \in Stored
        BY <2>1, <3>1
      <4> QED BY <4>1, <2>3, <3>1, ConversionReads
    <3>2. CASE k[1] \notin Migratable
      <4>1. k \in DOMAIN events /\ events'[k] = events[k] /\ headers[k[1]].version = New
        BY <2>1, <3>2
      <4> QED BY <4>1, <1>1 DEF NewLogsRead
    <3> QED BY <3>1, <3>2
  <2>6. ASSUME NEW id \in Stored
        PROVE  headers'[id].version = build \/ (headers'[id].version = Old /\ ~assertMigratable(id)')
    <3>1. CASE id \in Migratable
      <4>1. headers[id] \in [version : {Old, New}, parent : {0} \cup Ids] BY <1>1 DEF MigTypes
      <4> QED BY <4>1, <2>1, <3>1
    <3>2. CASE id \notin Migratable
      <4>1. headers'[id] = headers[id] /\ RowsOf(events', id) = RowsOf(events, id) BY <2>1, <3>2
      <4>2. assertMigratable(id)' <=> assertMigratable(id)
        BY <4>1 DEF assertMigratable, storedEventBytes
      <4>3. headers[id].version = build \/ ~assertMigratable(id)
        BY <2>2, <3>2 DEF Migratable, Outdated, Old, New
      <4> QED BY <4>1, <4>2, <4>3, <2>2 DEF Old, New
    <3> QED BY <3>1, <3>2
  <2> QED BY <2>1, <2>4, <2>5, <2>6, <1>2 DEF MigInv
<1>4. CASE (postInitialize /\ ~CanStart) \/ UNCHANGED migrationVars
  <2>1. UNCHANGED <<build, up, headers, events>> BY <1>4 DEF postInitialize, migrationVars
  <2>2. Stored' = Stored /\ \A id : assertMigratable(id)' <=> assertMigratable(id)
    BY <2>1 DEF Stored, assertMigratable, storedEventBytes, RowsOf
  <2>3. MigTypes' /\ NewLogsRead' BY <2>1, <2>2, <1>1 DEF MigTypes, NewLogsRead
  <2> QED BY <2>1, <2>2, <2>3 DEF MigInv
<1>5. ASSUME NEW b \in {Old, New}, Deploy(b) PROVE MigInv'
  <2>1. build' = b /\ up' = FALSE /\ UNCHANGED <<headers, events>> BY <1>5 DEF Deploy
  <2>2. MigTypes' /\ NewLogsRead' BY <2>1, <1>1 DEF MigTypes, NewLogsRead, Stored
  <2> QED BY <2>1, <2>2 DEF MigInv
<1>6. ASSUME NEW id \in Ids, NEW parent \in {0} \cup Ids,
             NEW written \in IF build = Old THEN OldLogs ELSE NewLogs, createSession(id, parent, written)
      PROVE  MigInv'
  <2> DEFINE new == [version |-> build, parent |-> parent]
             added == [k \in {<<id, n - 1>> : n \in DOMAIN written} |-> written[k[2] + 1]]
  <2>1. /\ up /\ id \notin Stored /\ headers' = Covering([i \in {id} |-> new], headers)
        /\ events' = Covering(added, events) /\ build' = build /\ up' = up
    BY <1>6 DEF createSession
  <2>2. \A k \in DOMAIN added : k[1] = id OBVIOUS
  <2> HIDE DEF added
  <2>3. /\ DOMAIN headers' = Stored \cup {id} /\ headers'[id] = new
        /\ \A i \in Stored : headers'[i] = headers[i]
    BY <2>1 DEF Covering, Stored
  <2>4. /\ DOMAIN events' = DOMAIN added \cup DOMAIN events
        /\ \A k \in DOMAIN events' : events'[k] = IF k \in DOMAIN added THEN added[k] ELSE events[k]
    BY <2>1 DEF Covering
  <2>5. \A k \in DOMAIN events : k[1] \in Stored /\ k[1] # id BY <2>1, <1>1 DEF MigTypes
  <2>6. new \in [version : {Old, New}, parent : {0} \cup Ids] /\ new.version = build
    BY <1>1 DEF MigTypes
  <2> HIDE DEF new
  <2>7. MigTypes' BY <2>1, <2>2, <2>3, <2>4, <2>5, <2>6, <1>1, <1>2 DEF MigTypes
  <2>8. build = New => \A k \in DOMAIN added : added[k] \in Reads(New)
    <3> SUFFICES ASSUME build = New, NEW n \in DOMAIN written PROVE added[<<id, n - 1>>] \in Reads(New)
      BY DEF added
    <3>1. written \in Seq({"plain", "new"}) BY MigrationSetting DEF Old, New
    <3>2. n \in 1..Len(written) /\ written[n] \in {"plain", "new"} /\ n \in Int
      BY <3>1, ElementOfSeq, LenProperties
    <3>3. added[<<id, n - 1>>] = written[(n - 1) + 1] /\ (n - 1) + 1 = n BY <3>2 DEF added
    <3> QED BY <3>2, <3>3 DEF Reads, Old, New
  <2>9. NewLogsRead'
    <3> SUFFICES ASSUME NEW k \in DOMAIN events', headers'[k[1]].version = New PROVE events'[k] \in Reads(New)
      BY DEF NewLogsRead, Reads
    <3>1. CASE k \in DOMAIN added BY <3>1, <2>2, <2>3, <2>4, <2>6, <2>8
    <3>2. CASE k \notin DOMAIN added BY <3>2, <2>3, <2>4, <2>5, <1>1 DEF NewLogsRead
    <3> QED BY <3>1, <3>2
  <2>10. ASSUME NEW i \in Stored
         PROVE  headers'[i].version = build \/ (headers'[i].version = Old /\ ~assertMigratable(i)')
    <3>1. RowsOf(events', i) = RowsOf(events, i) /\ headers'[i] = headers[i]
      BY <2>1, <2>2, <2>3, <2>4 DEF RowsOf
    <3>2. assertMigratable(i)' <=> assertMigratable(i)
      BY <3>1 DEF assertMigratable, storedEventBytes
    <3> QED BY <3>1, <3>2, <2>1 DEF MigInv
  <2> QED BY <2>1, <2>3, <2>6, <2>7, <2>9, <2>10, <1>2 DEF MigInv
<1> QED BY <1>3, <1>4, <1>5, <1>6 DEF MigrationNext

LEMMA MigInvInit == MigrationInit => MigInv
<1>1. DOMAIN <<>> = {} OBVIOUS
<1> QED BY <1>1 DEF MigrationInit, MigInv, MigTypes, NewLogsRead, Stored

\* In a started object every log of its format reads, and only those too large
\* to convert are left in the old one; and a start converts every other log
\* whole, in place or into a new table, or changes nothing.
THEOREM UpgradeCorrect == MigrationSpec => []StartedMeansReadable /\ LogsSurviveUpgrades
<1>1. MigInv => StartedMeansReadable
  <2> SUFFICES ASSUME MigInv, up, NEW id \in Stored
               PROVE  \/ headers[id].version = build /\ (build = New => Decodes(headers, events, id))
                      \/ headers[id].version = Old /\ ~assertMigratable(id)
    BY DEF StartedMeansReadable
  <2>1. headers[id].version = build \/ (headers[id].version = Old /\ ~assertMigratable(id))
    BY DEF MigInv
  <2>2. headers[id].version = New => Decodes(headers, events, id)
    BY DEF MigInv, NewLogsRead, Decodes, RowsOf, Old, New
  <2> QED BY <2>1, <2>2
<1> DEFINE Survives ==
      starts' # starts =>
        \/ ~up' /\ UNCHANGED <<headers, events>>
        \/ /\ up' /\ DOMAIN headers' = Stored
           /\ \A id \in Stored \ Migratable :
                headers'[id] = headers[id] /\ LogOf(events', id) = LogOf(events, id)
           /\ \A id \in Migratable :
                /\ headers'[id] = [headers[id] EXCEPT !.version = build]
                /\ LogOf(events', id) = Migrated(id, collectChildFacts(headers, events, id))
<1>2. MigInv /\ [MigrationNext]_migrationVars => [Survives]_migrationVars
  <2> SUFFICES ASSUME MigInv, MigrationNext, starts' # starts PROVE Survives BY DEF migrationVars
  <2>1. postInitialize BY DEF MigrationNext, Deploy, createSession
  <2>2. CASE CanStart BY <2>1, <2>2, StartConverts DEF Conversion
  <2>3. CASE ~CanStart BY <2>1, <2>3 DEF postInitialize
  <2> QED BY <2>2, <2>3
<1>3. [][Survives]_migrationVars <=> LogsSurviveUpgrades BY PTL DEF LogsSurviveUpgrades
<1> HIDE DEF Survives
<1> QED BY <1>1, <1>2, <1>3, MigInvInit, MigInvStep, PTL DEF MigrationSpec

----------------------------------------
(* What is stored, together. *)

\* A behaviour of a session is one of each component of its store.
LEMMA StoreActs == MCSpec => ReceiptSpec /\ DirectorySpec /\ MigrationSpec
<1>1. MCInit => ReceiptInit /\ DirectoryInit /\ MigrationInit BY DEF MCInit
<1>2. [MCNext]_mcVars => [ReceiptNext]_receiptVars BY DEF MCNext, mcVars
<1>3. [MCNext]_mcVars => [DirectoryNext]_directoryVars BY DEF MCNext, mcVars
<1>4. [MCNext]_mcVars => [MigrationNext]_migrationVars BY DEF MCNext, mcVars
<1> QED BY <1>1, <1>2, <1>3, <1>4, PTL DEF MCSpec, ReceiptSpec, DirectorySpec, MigrationSpec

\* A started object reads its logs, the list shows every session and a search
\* admits what it left out, and an upload lives until it is used or expires.
THEOREM StoredCorrect == MCSpec => []NothingStoredIsLost
<1>1. StartedMeansReadable /\ (ListingIsComplete /\ SearchIsHonest) /\ ReceiptsKept => NothingStoredIsLost
  BY DEF NothingStoredIsLost
<1> QED BY <1>1, StoreActs, ReceiptsCorrect, DirectoryCorrect, UpgradeCorrect, PTL
===============================================================================
