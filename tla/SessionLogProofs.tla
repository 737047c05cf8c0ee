--------------------------- MODULE SessionLogProofs ---------------------------
(***************************************************************************)
(* What holds of one session's log for every value of the constants: the   *)
(* shape of its state and the exactness of its summary, that an export is  *)
(* a snapshot, that repairs keep what is acknowledged, and that the log    *)
(* implements SessionBarrier.                                              *)
(***************************************************************************)
EXTENDS SessionLog, LineLemmas

----------------------------------------
(* The inductive invariant. *)

\* The identities of the events in a sequence of rows or of buffered events,
\* and the line of all that are stored, being stored or waiting for it.
Ids(s) == [i \in DOMAIN s |-> s[i].id]
LineOf(rs, taken, waiting) == (Ids(rs) \o Ids(taken)) \o Ids(waiting)
Line == LineOf(rows, drain.batch, buffer)

InOrder(l, n) ==
    /\ \A i \in 1..Len(l) : l[i] \in 1..n
    /\ \A i, j \in 1..Len(l) : i < j => l[i] < l[j]
LineInOrder == InOrder(Line, born)

\* The live session's events are those of the line; a handle that is not live
\* and not closing holds nothing, and close() waits for a drain under way.
HandleStands ==
    /\ ~up => stage = "none"
    /\ stage \in {"none", "opened", "ready"} => mem = <<>> /\ buffer = <<>> /\ drain.phase = "none"
    /\ drain.phase # "rejected" => drain.batch = <<>>
    /\ stage = "live" => mem = Line
    /\ stage = "closing" => mem = Line \/ (mem = <<>> /\ buffer = <<>> /\ drain.phase = "none")
    /\ closeWaits => stage = "closing"
    /\ stage = "closing" /\ ~closeWaits => drain.phase = "none"
    /\ stage = "opened" => through = -1
    /\ stage = "ready" => through < Len(rows)
    /\ stage = "live" => through < Len(mem)

\* What a flush owes is on the line, and stored once the drain that covers it
\* has written all it took.
FlushStands(f) ==
    /\ f.at = "drain" => stage = "live"
    /\ f.st = "waiting" => drain.phase # "none"
    /\ f.at = "drain" \/ (f.at = "flush" /\ f.st = "waiting") =>
          /\ f.owed \subseteq ToSet(Line)
          /\ drain.phase = "exited" => f.owed \subseteq ToSet(Ids(rows)) \/ (f.at = "drain" /\ f.st = "waiting")
FlushesStand == \A c \in Callers : call[c] # NoRow => FlushStands(call[c])

\* A summary of the log's revision is exact, and the running object has one.
SummaryFits(h, rs, sm) ==
    /\ sm = [recomputeSummary(rs, h) EXCEPT !.types = sm.types]
    /\ sm.types \in {NoRow, KindsIn(rs)}
StorageFits(runs, v, h, rs, sm) ==
    /\ runs => v = "current"
    /\ v = "old" => h # NoRow
    /\ h = NoRow => rs = <<>> /\ sm = NoRow
    /\ runs /\ h # NoRow => sm # NoRow /\ sm.rev = h
    /\ h # NoRow /\ sm # NoRow /\ sm.rev = h => SummaryFits(h, rs, sm)
SummaryFollows == StorageFits(up, version, header, rows, summary)

\* The events on their way to the log continue its sequence numbers.
SeqsFollow ==
    /\ \A i \in DOMAIN drain.batch : drain.batch[i].seq = Len(rows) + i - 1
    /\ \A i \in DOMAIN buffer : buffer[i].seq = Len(rows) + Len(drain.batch) + i - 1

\* The rows an export pinned stay where they are: a torn one among them lies
\* before an intact end of a turn, where no repair cuts the log.
ExportFollows ==
    /\ Len(export.got) <= Len(pin)
    /\ export.state = "open" =>
          /\ up /\ Len(pin) <= Len(rows)
          /\ \A i \in 1..Len(pin) : pin[i] = rows[i].id /\ (rows[i].torn => i <= LastTurnEnd(rows))

LogInv ==
    /\ LogTypeOK /\ LineInOrder /\ HandleStands /\ FlushesStand
    /\ SummaryFollows /\ SeqsFollow /\ ExportFollows /\ ExportIsASnapshot

----------------------------------------
(* The first and the last of a set of places. *)

\* A set of places has a last one.
LEMMA MaxIs ==
    ASSUME NEW n \in Nat, NEW I, I \subseteq 1..n, I # {}
    PROVE  Max(I) \in I /\ \A i \in I : Max(I) >= i
<1> DEFINE U == {m \in Nat : \A i \in I : i <= m}
<1>1. U \subseteq Nat /\ n \in U OBVIOUS
<1>2. PICK m \in U : \A u \in U : m <= u
  <2> HIDE DEF U
  <2> QED BY <1>1, LeastNumber
<1>3. m \in I
  <2> SUFFICES ASSUME m \notin I PROVE FALSE OBVIOUS
  <2>1. m \in Nat /\ \A i \in I : i \in Nat /\ 1 <= i /\ i <= m /\ i # m BY <1>2
  <2>2. PICK i \in I : TRUE OBVIOUS
  <2>3. m - 1 \in Nat BY <2>1, <2>2
  <2>4. \A j \in I : j <= m - 1 BY <2>1
  <2>5. m - 1 \in U BY <2>3, <2>4
  <2> HIDE DEF U
  <2> QED BY <2>1, <2>5, <1>2
<1>4. \E x \in I : \A y \in I : x >= y BY <1>2, <1>3
<1> QED BY <1>4 DEF Max

\* A set of numbers has a first one.
LEMMA MinIs ==
    ASSUME NEW S, S \subseteq Nat, S # {} PROVE Min(S) \in S /\ \A i \in S : Min(S) <= i
<1>1. \E x \in S : \A y \in S : x <= y BY LeastNumber
<1> QED BY <1>1 DEF Min

\* Whether and where the last row of a kind is.
LEMMA LastOfIs ==
    ASSUME NEW rs, NEW n \in Nat, Len(rs) = n, NEW k, NEW l, l = LastOf(rs, k)
    PROVE  /\ l \in Int /\ l >= -1 /\ l < n
           /\ l = -1 <=> \A i \in 1..n : rs[i].kind # k
           /\ l # -1 => l + 1 \in 1..n /\ rs[l + 1].kind = k
           /\ \A i \in 1..n : rs[i].kind = k => i <= l + 1
<1> DEFINE I == {i \in 1..n : rs[i].kind = k}
<1>1. l = (IF I # {} THEN Max(I) ELSE 0) - 1 BY DEF LastOf, SelectLastInSeq
<1>2. CASE I = {} BY <1>1, <1>2
<1>3. CASE I # {}
  <2>1. Max(I) \in I /\ \A i \in I : Max(I) >= i
    <3> HIDE DEF I
    <3>1. I \subseteq 1..n BY DEF I
    <3> QED BY <3>1, <1>3, MaxIs
  <2>2. PICK m \in I : l = m - 1 /\ \A i \in I : m >= i
    <3> HIDE DEF I
    <3> QED BY <2>1, <1>1, <1>3
  <2>3. m \in 1..n /\ l + 1 = m /\ rs[m].kind = k /\ l # -1 BY <2>2
  <2> QED BY <2>2, <2>3
<1> QED BY <1>2, <1>3

\* Where the last intact end of a turn is, 0 without one.
LEMMA LastTurnEndIs ==
    ASSUME NEW rs, NEW n \in Nat, Len(rs) = n, NEW l, l = LastTurnEnd(rs)
    PROVE  /\ l \in 0..n
           /\ l # 0 => rs[l].kind = "end" /\ ~rs[l].torn
           /\ \A i \in 1..n : rs[i].kind = "end" /\ ~rs[i].torn => i <= l
<1> DEFINE I == {i \in 1..n : rs[i].kind = "end" /\ ~rs[i].torn}
<1>1. l = IF I # {} THEN Max(I) ELSE 0 BY DEF LastTurnEnd, SelectLastInSeq
<1>2. CASE I = {} BY <1>1, <1>2
<1>3. CASE I # {}
  <2>1. Max(I) \in I /\ \A i \in I : Max(I) >= i
    <3> HIDE DEF I
    <3>1. I \subseteq 1..n BY DEF I
    <3> QED BY <3>1, <1>3, MaxIs
  <2>2. l \in I /\ \A i \in I : l >= i
    <3> HIDE DEF I
    <3> QED BY <2>1, <1>1, <1>3
  <2> QED BY <2>2
<1> QED BY <1>2, <1>3

\* Where the first torn row is, 0 without one.
LEMMA TornFromIs ==
    ASSUME NEW rs, NEW n \in Nat, Len(rs) = n, NEW l, l = TornFrom(rs)
    PROVE  /\ l \in 0..n
           /\ l # 0 => rs[l].torn /\ \A i \in 1..(l - 1) : ~rs[i].torn
           /\ l = 0 => \A i \in 1..n : ~rs[i].torn
<1> DEFINE I == {i \in 1..n : rs[i].torn}
<1>1. l = IF I # {} THEN Min(I) ELSE 0 BY DEF TornFrom, SelectInSeq
<1>2. CASE I = {} BY <1>1, <1>2
<1>3. CASE I # {}
  <2>1. Min(I) \in I /\ \A i \in I : Min(I) <= i
    <3>1. I \subseteq Nat OBVIOUS
    <3> HIDE DEF I
    <3> QED BY <3>1, <1>3, MinIs
  <2>2. l \in I /\ \A i \in I : l <= i
    <3> HIDE DEF I
    <3> QED BY <2>1, <1>1, <1>3
  <2> QED BY <2>2
<1> QED BY <1>2, <1>3

----------------------------------------
(* The identities of a sequence of events. *)

\* They are a sequence of the same length.
LEMMA IdsAre ==
    ASSUME NEW S, NEW s \in Seq(S), NEW T, \A x \in S : x.id \in T
    PROVE  /\ Ids(s) \in Seq(T) /\ Len(Ids(s)) = Len(s)
           /\ \A i \in 1..Len(s) : Ids(s)[i] = s[i].id
<1>1. DOMAIN s = 1..Len(s) /\ Len(s) \in Nat /\ \A i \in 1..Len(s) : s[i] \in S
  BY LenProperties, ElementOfSeq
<1>2. Ids(s) \in [1..Len(s) -> T] /\ \A i \in 1..Len(s) : Ids(s)[i] = s[i].id BY <1>1 DEF Ids
<1> QED BY <1>1, <1>2, IsASeq, LenProperties

\* Those of two sequences joined are joined.
LEMMA IdsJoin ==
    ASSUME NEW S, NEW s \in Seq(S), NEW t \in Seq(S), NEW T, \A x \in S : x.id \in T
    PROVE  Ids(s \o t) = Ids(s) \o Ids(t)
<1> DEFINE u == s \o t
           p == Ids(s)
           r == Ids(t)
           n == Len(s) + Len(t)
<1>1. u \in Seq(S) /\ Len(u) = n /\ n \in Nat /\ Len(s) \in Nat /\ Len(t) \in Nat
      /\ \A i \in 1..n : u[i] = IF i <= Len(s) THEN s[i] ELSE t[i - Len(s)]
  BY ConcatProperties, LenProperties
<1>2. Ids(u) \in Seq(T) /\ Len(Ids(u)) = n /\ \A i \in 1..n : Ids(u)[i] = u[i].id
  <2> HIDE DEF u, n
  <2> QED BY <1>1, IdsAre
<1>3. /\ p \in Seq(T) /\ Len(p) = Len(s) /\ \A i \in 1..Len(s) : p[i] = s[i].id
      /\ r \in Seq(T) /\ Len(r) = Len(t) /\ \A i \in 1..Len(t) : r[i] = t[i].id
  BY IdsAre
<1>4. p \o r \in Seq(T) /\ Len(p \o r) = n
      /\ \A i \in 1..n : (p \o r)[i] = IF i <= Len(s) THEN p[i] ELSE r[i - Len(s)]
  <2> HIDE DEF p, r
  <2>1. p \in Seq(T) /\ r \in Seq(T) BY <1>3
  <2>2. /\ p \o r \in Seq(T) /\ Len(p \o r) = Len(p) + Len(r)
        /\ \A i \in 1..Len(p) + Len(r) :
              (p \o r)[i] = IF i <= Len(p) THEN p[i] ELSE r[i - Len(p)]
    BY <2>1, ConcatProperties
  <2> QED BY <2>2, <1>3
<1> HIDE DEF p, r, u
<1>5. ASSUME NEW i \in 1..n PROVE Ids(u)[i] = (p \o r)[i]
  <2>1. CASE i <= Len(s)
    <3>1. i \in 1..Len(s) BY <2>1, <1>1
    <3> QED BY <3>1, <2>1, <1>1, <1>2, <1>3, <1>4
  <2>2. CASE ~(i <= Len(s))
    <3>1. i - Len(s) \in 1..Len(t) BY <2>2, <1>1
    <3> QED BY <3>1, <2>2, <1>1, <1>2, <1>3, <1>4
  <2> QED BY <2>1, <2>2
<1> HIDE DEF n
<1>6. Ids(u) = p \o r BY <1>2, <1>4, <1>5, SeqEqual
<1> QED BY <1>6 DEF u, p, r

----------------------------------------
(* Summaries. *)

\* When a summary says what a log says.
LEMMA ExactIs ==
    ASSUME NEW s \in SummaryRow, NEW rs, NEW rev
    PROVE  s = [recomputeSummary(rs, rev) EXCEPT !.types = s.types]
              <=> /\ s.rev = rev /\ s.last = Len(rs) - 1 /\ s.title = LastOf(rs, "title")
                  /\ s.blank = ("start" \notin KindsIn(rs))
<1> DEFINE r == [recomputeSummary(rs, rev) EXCEPT !.types = s.types]
           t == [rev |-> rev, last |-> Len(rs) - 1, blank |-> "start" \notin KindsIn(rs),
                 title |-> LastOf(rs, "title"), types |-> s.types]
<1>1. r = t BY DEF recomputeSummary
<1>2. s = [rev |-> s.rev, last |-> s.last, blank |-> s.blank, title |-> s.title, types |-> s.types]
  BY DEF SummaryRow
<1> QED BY <1>1, <1>2

\* The rows a batch becomes.
LEMMA BatchRows ==
    ASSUME NEW batch \in Seq(BufferedEvent),
           NEW new, new = [i \in DOMAIN batch |-> [id |-> batch[i].id, kind |-> batch[i].kind, torn |-> FALSE]]
    PROVE  /\ new \in Seq(LogRow) /\ Len(new) = Len(batch) /\ Len(batch) \in Nat
           /\ \A i \in 1..Len(batch) :
                  batch[i] \in BufferedEvent /\ new[i].kind = batch[i].kind /\ ~new[i].torn
           /\ Ids(new) = Ids(batch) /\ Ids(batch) \in Seq(1..MaxEvents) /\ Len(Ids(batch)) = Len(batch)
<1>1. DOMAIN batch = 1..Len(batch) /\ Len(batch) \in Nat /\ \A i \in 1..Len(batch) : batch[i] \in BufferedEvent
  BY LenProperties, ElementOfSeq
<1>2. Kinds \subseteq AllKinds BY DEF AllKinds
<1>3. \A i \in 1..Len(batch) :
          /\ [id |-> batch[i].id, kind |-> batch[i].kind, torn |-> FALSE] \in LogRow
          /\ new[i].kind = batch[i].kind /\ ~new[i].torn /\ new[i].id = batch[i].id
  BY <1>1, <1>2 DEF BufferedEvent, LogRow
<1>4. new \in [1..Len(batch) -> LogRow] BY <1>1, <1>3
<1>5. new \in Seq(LogRow) /\ Len(new) = Len(batch) /\ DOMAIN new = 1..Len(batch)
  BY <1>1, <1>4, IsASeq, LenProperties
<1>6. Ids(new) = Ids(batch) BY <1>1, <1>3, <1>5 DEF Ids
<1>7. \A x \in BufferedEvent : x.id \in 1..MaxEvents BY DEF BufferedEvent
<1>8. Ids(batch) \in Seq(1..MaxEvents) /\ Len(Ids(batch)) = Len(batch) BY <1>7, IdsAre
<1> QED BY <1>1, <1>3, <1>5, <1>6, <1>8

\* Where the last row of a kind is in a log that was continued.
LEMMA JoinedLast ==
    ASSUME NEW rs \in Seq(LogRow), NEW new \in Seq(LogRow), NEW k
    PROVE  /\ LastOf(new, k) = -1 => LastOf(rs \o new, k) = LastOf(rs, k)
           /\ LastOf(new, k) # -1 => LastOf(rs \o new, k) = Len(rs) + LastOf(new, k)
<1>a. PICK all, n, m, z : all = rs \o new /\ n = Len(rs) /\ m = Len(new) /\ z = n + m OBVIOUS
<1>b. PICK a, r, b : a = LastOf(all, k) /\ r = LastOf(rs, k) /\ b = LastOf(new, k) OBVIOUS
<1>c. n \in Nat /\ m \in Nat /\ z \in Nat /\ z = n + m BY <1>a, LenProperties
<1>d. Len(all) = z /\ \A i \in 1..z : all[i] = IF i <= n THEN rs[i] ELSE new[i - n]
  BY <1>a, ConcatProperties
<1>e. \A i \in 1..n : i \in 1..z /\ all[i] = rs[i] BY <1>c, <1>d
<1>f. ASSUME NEW i \in 1..m PROVE n + i \in 1..z /\ all[n + i] = new[i]
  <2>1. n + i \in 1..z /\ ~(n + i <= n) /\ (n + i) - n = i BY <1>c
  <2> QED BY <2>1, <1>d
<1>1. /\ a \in Int /\ a >= -1 /\ a < z
      /\ a = -1 <=> \A i \in 1..z : all[i].kind # k
      /\ a # -1 => a + 1 \in 1..z /\ all[a + 1].kind = k
      /\ \A i \in 1..z : all[i].kind = k => i <= a + 1
  BY ONLY <1>c, <1>d, <1>b, LastOfIs
<1>2. /\ r \in Int /\ r >= -1 /\ r < n
      /\ r = -1 <=> \A i \in 1..n : rs[i].kind # k
      /\ r # -1 => r + 1 \in 1..n /\ rs[r + 1].kind = k
      /\ \A i \in 1..n : rs[i].kind = k => i <= r + 1
  BY ONLY <1>a, <1>c, <1>b, LastOfIs
<1>3. /\ b \in Int /\ b >= -1 /\ b < m
      /\ b = -1 <=> \A i \in 1..m : new[i].kind # k
      /\ b # -1 => b + 1 \in 1..m /\ new[b + 1].kind = k
      /\ \A i \in 1..m : new[i].kind = k => i <= b + 1
  BY ONLY <1>a, <1>c, <1>b, LastOfIs
<1>4. CASE b # -1
  <2>1. a \in Int /\ b \in Int /\ n \in Int /\ m \in Int /\ b >= 0 /\ a < n + m
    BY <1>1, <1>3, <1>4, <1>c
  <2>2. n + b <= a
    <3>1. PICK j \in 1..m : j = b + 1 /\ new[j].kind = k BY <1>3, <1>4
    <3>2. n + j \in 1..z /\ all[n + j].kind = k BY <3>1, <1>f
    <3>3. n + j <= a + 1 BY <3>2, <1>1
    <3> QED BY <3>1, <3>3, <2>1
  <2>3. PICK j \in 1..m : j = a + 1 - n /\ n + j = a + 1
    <3>1. a + 1 - n \in 1..m /\ n + (a + 1 - n) = a + 1 BY <2>1, <2>2
    <3> QED BY <3>1
  <2>4. all[a + 1].kind = k BY <2>1, <2>2, <1>1, <1>c
  <2>5. new[j].kind = k BY <2>3, <2>4, <1>f
  <2>6. j <= b + 1 BY <2>5, <1>3
  <2>7. a = n + b BY <2>1, <2>2, <2>3, <2>6
  <2> QED BY <2>7, <1>4, <1>a, <1>b
<1>5. CASE b = -1
  <2>1. ASSUME NEW i \in 1..z, all[i].kind = k PROVE i \in 1..n
    <3>1. CASE i <= n BY <3>1, <1>c
    <3>2. CASE ~(i <= n)
      <4>1. i - n \in 1..m /\ all[i] = new[i - n] BY <3>2, <1>c, <1>d
      <4> QED BY <4>1, <2>1, <1>3, <1>5
    <3> QED BY <3>1, <3>2
  <2>2. CASE r = -1
    <3>1. ASSUME NEW i \in 1..z PROVE all[i].kind # k BY <2>1, <2>2, <1>2, <1>e
    <3>2. a = -1 BY <3>1, <1>1
    <3> QED BY <3>2, <2>2, <1>5, <1>a, <1>b
  <2>3. CASE r # -1
    <3>1. r + 1 \in 1..z /\ all[r + 1].kind = k BY <2>3, <1>2, <1>e
    <3>2. r <= a /\ a # -1
      <4>1. r + 1 <= a + 1 BY <3>1, <1>1
      <4> QED BY <4>1, <2>3, <1>1, <1>2
    <3>3. a + 1 \in 1..n /\ all[a + 1].kind = k BY <3>2, <2>1, <1>1
    <3>4. rs[a + 1].kind = k BY <3>3, <1>e
    <3>5. a + 1 <= r + 1 BY <3>3, <3>4, <1>2
    <3>6. a = r BY <3>2, <3>5, <1>1, <1>2
    <3> QED BY <3>6, <1>5, <1>a, <1>b
  <2> QED BY <2>2, <2>3
<1> QED BY <1>4, <1>5

\* What the rows of a longer log say, given what its two parts say.
LEMMA JoinedRows ==
    ASSUME NEW rs \in Seq(LogRow), NEW new \in Seq(LogRow)
    PROVE  /\ rs \o new \in Seq(LogRow) /\ Len(rs \o new) = Len(rs) + Len(new)
           /\ \A i \in 1..Len(rs) : (rs \o new)[i] = rs[i]
           /\ KindsIn(rs \o new) = KindsIn(rs) \cup KindsIn(new)
           /\ \A k : /\ LastOf(new, k) = -1 => LastOf(rs \o new, k) = LastOf(rs, k)
                     /\ LastOf(new, k) # -1 => LastOf(rs \o new, k) = Len(rs) + LastOf(new, k)
           /\ LastTurnEnd(rs) <= LastTurnEnd(rs \o new)
<1>a. PICK all, n, m, z : all = rs \o new /\ n = Len(rs) /\ m = Len(new) /\ z = n + m OBVIOUS
<1>0. n \in Nat /\ m \in Nat /\ z \in Nat /\ z = n + m BY <1>a, LenProperties
<1>1. /\ all \in Seq(LogRow) /\ Len(all) = z
      /\ \A i \in 1..z : all[i] = IF i <= n THEN rs[i] ELSE new[i - n]
  BY <1>a, ConcatProperties
<1>2. (\A i \in 1..n : all[i] = rs[i]) /\ \A i \in 1..m : all[n + i] = new[i]
  <2>1. ASSUME NEW i \in 1..m PROVE all[n + i] = new[i]
    <3>1. n + i \in 1..z /\ ~(n + i <= n) /\ (n + i) - n = i BY <1>0
    <3> QED BY <3>1, <1>1
  <2> QED BY <2>1, <1>0, <1>1
<1>3. DOMAIN all = 1..z /\ DOMAIN rs = 1..n /\ DOMAIN new = 1..m BY <1>1, <1>a, LenProperties
<1>4. KindsIn(all) = KindsIn(rs) \cup KindsIn(new)
  <2>1. \A k : /\ k \in KindsIn(all) <=> \E i \in 1..z : all[i].kind = k
               /\ k \in KindsIn(rs) <=> \E i \in 1..n : rs[i].kind = k
               /\ k \in KindsIn(new) <=> \E i \in 1..m : new[i].kind = k
    BY <1>3 DEF KindsIn
  <2>2. ASSUME NEW k, NEW i \in 1..n, rs[i].kind = k PROVE k \in KindsIn(all)
    <3>1. i \in 1..z /\ all[i] = rs[i] BY <1>0, <1>2
    <3> QED BY <3>1, <2>1, <2>2
  <2>3. ASSUME NEW k, NEW i \in 1..m, new[i].kind = k PROVE k \in KindsIn(all)
    <3>1. n + i \in 1..z /\ all[n + i] = new[i] BY <1>0, <1>2
    <3> QED BY <3>1, <2>1, <2>3
  <2>4. ASSUME NEW k, NEW i \in 1..z, all[i].kind = k PROVE k \in KindsIn(rs) \cup KindsIn(new)
    <3>1. CASE i <= n
      <4>1. i \in 1..n /\ all[i] = rs[i] BY <3>1, <1>1
      <4> QED BY <4>1, <2>1, <2>4
    <3>2. CASE ~(i <= n)
      <4>1. i - n \in 1..m /\ all[i] = new[i - n] BY <3>2, <1>0, <1>1
      <4> QED BY <4>1, <2>1, <2>4
    <3> QED BY <3>1, <3>2
  <2> QED BY <2>1, <2>2, <2>3, <2>4
<1>5. ASSUME NEW k
      PROVE  /\ LastOf(new, k) = -1 => LastOf(all, k) = LastOf(rs, k)
             /\ LastOf(new, k) # -1 => LastOf(all, k) = n + LastOf(new, k)
  BY <1>a, JoinedLast
<1>6. LastTurnEnd(rs) <= LastTurnEnd(all)
  <2> DEFINE r == LastTurnEnd(rs)
             a == LastTurnEnd(all)
  <2>1. r \in 0..n /\ (r # 0 => rs[r].kind = "end" /\ ~rs[r].torn) BY ONLY <1>a, <1>0, LastTurnEndIs
  <2> SUFFICES r <= a OBVIOUS
  <2>2. /\ a \in 0..z
        /\ \A i \in 1..z : all[i].kind = "end" /\ ~all[i].torn => i <= a
    BY ONLY <1>0, <1>1, LastTurnEndIs
  <2> HIDE DEF a, r
  <2>3. CASE r = 0 BY <2>2, <2>3
  <2>4. CASE r # 0
    <3>1. r \in 1..n /\ r \in 1..z /\ all[r] = rs[r] BY <2>1, <2>4, <1>0, <1>2
    <3> QED BY <3>1, <2>1, <2>2, <2>4
  <2> QED BY <2>3, <2>4
<1> QED BY <1>a, <1>1, <1>2, <1>4, <1>5, <1>6

\* No events, no identities.
LEMMA IdsOfNone == Ids(<<>>) = <<>>
<1>1. PICK S, none : S = {} /\ none = <<>> OBVIOUS
<1>2. none \in Seq(S) /\ Len(none) = 0 /\ \A x \in S : x.id \in S BY <1>1, EmptySeq
<1>3. Ids(none) \in Seq(S) /\ Len(Ids(none)) = Len(none) BY ONLY <1>2, IdsAre
<1> QED BY <1>1, <1>2, <1>3, EmptySeq

\* The line, its length, and that it starts with what is stored.
LEMMA LineIs ==
    ASSUME NEW rs \in Seq(LogRow), NEW b \in Seq(BufferedEvent), NEW f \in Seq(BufferedEvent)
    PROVE  /\ Ids(rs) \in Seq(1..MaxEvents) /\ Len(Ids(rs)) = Len(rs) /\ Len(rs) \in Nat
           /\ Ids(b) \in Seq(1..MaxEvents) /\ Ids(f) \in Seq(1..MaxEvents)
           /\ LineOf(rs, b, f) \in Seq(1..MaxEvents)
           /\ Len(LineOf(rs, b, f)) = Len(rs) + Len(b) + Len(f)
           /\ \A i \in 1..Len(rs) : LineOf(rs, b, f)[i] = rs[i].id /\ Ids(rs)[i] = rs[i].id
<1> DEFINE E == 1..MaxEvents
           x == Ids(rs)
           y == Ids(b)
           w == Ids(f)
           v == LineOf(rs, b, f)
<1>1. /\ x \in Seq(E) /\ Len(x) = Len(rs) /\ \A i \in 1..Len(rs) : x[i] = rs[i].id
      /\ y \in Seq(E) /\ Len(y) = Len(b) /\ w \in Seq(E) /\ Len(w) = Len(f)
  <2>1. (\A r \in LogRow : r.id \in E) /\ \A r \in BufferedEvent : r.id \in E
    BY DEF LogRow, BufferedEvent
  <2> HIDE DEF E
  <2> QED BY <2>1, IdsAre
<1>2. Len(rs) \in Nat /\ Len(b) \in Nat /\ Len(f) \in Nat BY LenProperties
<1>3. v = (x \o y) \o w BY DEF LineOf
<1> HIDE DEF E, x, y, w, v
<1>5. /\ x \o y \in Seq(E) /\ Len(x \o y) = Len(x) + Len(y)
      /\ \A i \in 1..Len(x) + Len(y) : (x \o y)[i] = IF i <= Len(x) THEN x[i] ELSE y[i - Len(x)]
  <2>1. x \in Seq(E) /\ y \in Seq(E) BY <1>1
  <2> QED BY ONLY <2>1, ConcatProperties
<1>6. PICK u : u = x \o y OBVIOUS
<1>7. u \in Seq(E) /\ Len(u) = Len(rs) + Len(b) /\ \A i \in 1..Len(rs) : u[i] = rs[i].id
  <2>1. \A i \in 1..Len(rs) : i \in 1..(Len(rs) + Len(b)) /\ i <= Len(rs) BY <1>2
  <2> QED BY <2>1, <1>5, <1>6, <1>1
<1>8. /\ v \in Seq(E) /\ Len(v) = Len(u) + Len(w)
      /\ \A i \in 1..Len(u) + Len(w) : v[i] = IF i <= Len(u) THEN u[i] ELSE w[i - Len(u)]
  <2>1. v = u \o w BY <1>3, <1>6
  <2>2. u \in Seq(E) /\ w \in Seq(E) BY <1>1, <1>7
  <2> QED BY ONLY <2>1, <2>2, ConcatProperties
<1>9. \A i \in 1..Len(rs) : v[i] = rs[i].id
  <2>1. \A i \in 1..Len(rs) : i \in 1..(Len(u) + Len(w)) /\ i <= Len(u) BY <1>1, <1>2, <1>7
  <2> QED BY <2>1, <1>7, <1>8
<1>10. Len(v) = Len(rs) + Len(b) + Len(f) BY <1>8, <1>7, <1>1
<1> QED BY <1>1, <1>2, <1>8, <1>9, <1>10 DEF E, x, y, w, v

\* The line without a batch or a buffer, and with the two joined.
LEMMA LineParts ==
    ASSUME NEW rs \in Seq(LogRow), NEW b \in Seq(BufferedEvent), NEW f \in Seq(BufferedEvent)
    PROVE  /\ LineOf(rs, <<>>, <<>>) = Ids(rs)
           /\ LineOf(rs, b, <<>>) = Ids(rs) \o Ids(b)
           /\ LineOf(rs, <<>>, f) = Ids(rs) \o Ids(f)
           /\ LineOf(rs, b, f) = Ids(rs) \o Ids(b \o f)
<1> DEFINE E == 1..MaxEvents
           x == Ids(rs)
           y == Ids(b)
           w == Ids(f)
<1>1. x \in Seq(E) /\ y \in Seq(E) /\ w \in Seq(E) BY LineIs
<1>2. /\ LineOf(rs, <<>>, <<>>) = (x \o <<>>) \o <<>> /\ LineOf(rs, b, <<>>) = (x \o y) \o <<>>
      /\ LineOf(rs, <<>>, f) = (x \o <<>>) \o w /\ LineOf(rs, b, f) = (x \o y) \o w
  BY IdsOfNone DEF LineOf
<1>3. Ids(b \o f) = y \o w
  <2>1. \A r \in BufferedEvent : r.id \in E BY DEF BufferedEvent
  <2> QED BY <2>1, IdsJoin
<1> HIDE DEF E, x, y, w
<1>4. x \o y \in Seq(E) BY ONLY <1>1, ConcatProperties
<1>5. x \o <<>> = x /\ (x \o y) \o <<>> = x \o y BY <1>1, <1>4, ConcatEmptySeq
<1>6. (x \o y) \o w = x \o (y \o w) BY <1>1, ConcatAssociative, SMTT(30)
<1> QED BY <1>2, <1>3, <1>5, <1>6 DEF E, x, y, w

\* A line stays in order when a new event joins it.
LEMMA LineJoined ==
    ASSUME NEW l \in Seq(Nat), NEW n \in Nat, InOrder(l, n)
    PROVE  InOrder(Append(l, n + 1), n + 1)
<1> PICK t : t = Append(l, n + 1) OBVIOUS
<1>1. Len(l) \in Nat /\ n + 1 \in Nat BY LenProperties
<1>2. /\ Len(t) = Len(l) + 1 /\ t[Len(l) + 1] = n + 1
      /\ \A i \in 1..Len(l) : t[i] = l[i]
  BY <1>1, AppendProperties
<1>3. \A i \in 1..(Len(l) + 1) : i \in 1..Len(l) \/ i = Len(l) + 1 BY <1>1
<1>4. \A i \in 1..Len(l) : l[i] \in 1..n /\ t[i] = l[i] /\ l[i] < n + 1 /\ l[i] \in 1..(n + 1)
  BY <1>2 DEF InOrder
<1>5. \A i \in 1..Len(t) : t[i] \in 1..(n + 1) BY <1>1, <1>2, <1>3, <1>4
<1>6. ASSUME NEW i \in 1..Len(t), NEW j \in 1..Len(t), i < j PROVE t[i] < t[j]
  <2>1. i \in 1..Len(l) BY <1>1, <1>2, <1>6
  <2>2. CASE j \in 1..Len(l) BY <2>1, <2>2, <1>4, <1>6 DEF InOrder
  <2>3. CASE j = Len(l) + 1 BY <2>1, <2>3, <1>2, <1>4
  <2> QED BY <2>2, <2>3, <1>2, <1>3
<1> QED BY <1>5, <1>6 DEF InOrder

\* A line cut short stays in order.
LEMMA LineCut ==
    ASSUME NEW l, NEW m, NEW n \in Nat, InOrder(l, n), Len(l) \in Nat, Len(m) \in Nat, Len(m) <= Len(l),
           \A i \in 1..Len(m) : m[i] = l[i] PROVE InOrder(m, n)
<1>1. \A i \in 1..Len(m) : i \in 1..Len(l) OBVIOUS
<1> QED BY <1>1 DEF InOrder

\* Rows of the same kinds say the same.
LEMMA SameKinds ==
    ASSUME NEW rs \in Seq(LogRow), NEW S, NEW ts \in Seq(S), Len(ts) = Len(rs),
           \A i \in 1..Len(rs) : ts[i].kind = rs[i].kind
    PROVE  KindsIn(ts) = KindsIn(rs) /\ \A k : LastOf(ts, k) = LastOf(rs, k)
<1>1. DOMAIN ts = 1..Len(rs) /\ DOMAIN rs = 1..Len(rs) /\ Len(rs) \in Nat BY LenProperties
<1>2. KindsIn(ts) = KindsIn(rs) BY <1>1 DEF KindsIn
<1>3. ASSUME NEW k PROVE LastOf(ts, k) = LastOf(rs, k)
  <2>1. {i \in 1..Len(ts) : ts[i].kind = k} = {i \in 1..Len(rs) : rs[i].kind = k} OBVIOUS
  <2> QED BY <2>1 DEF LastOf, SelectLastInSeq
<1> QED BY <1>2, <1>3

----------------------------------------
(* What the writes do. *)

\* The rows of a log are continued.
Continues(old, new) ==
    /\ Len(old) <= Len(new) /\ \A i \in 1..Len(old) : new[i] = old[i]
    /\ LastTurnEnd(old) <= LastTurnEnd(new)

\* NoRow is no number, no set of kinds and no summary.
LEMMA NoRowIsNone ==
    /\ \A x \in Int : x # NoRow
    /\ \A K \in SUBSET AllKinds : K # NoRow
    /\ \A s \in SummaryRow : s # NoRow
    /\ \A f \in FlushCall : f # NoRow
BY LogAssumption

\* The summary an append starts from is that of the log.
LEMMA SummaryBefore ==
    ASSUME LogTypeOK, SummaryFollows, up,
           NEW o, o = IF summary = NoRow THEN [EmptyLogSummary EXCEPT !.types = NoRow] ELSE summary
    PROVE  /\ o \in SummaryRow
           /\ o.blank = ("start" \notin KindsIn(rows)) /\ o.title = LastOf(rows, "title")
           /\ o.types \in {NoRow, KindsIn(rows)}
           /\ (IF summary = NoRow THEN -1 ELSE summary.last) + 1 = Len(rows)
<1>1. CASE summary = NoRow
  <2>1. rows = <<>> BY <1>1 DEF SummaryFollows, StorageFits, SummaryFits
  <2>2. KindsIn(rows) = {} /\ Len(rows) = 0 BY <2>1 DEF KindsIn
  <2>3. LastOf(rows, "title") = -1
    <3>1. PICK l, n : l = LastOf(rows, "title") /\ n = 0 OBVIOUS
    <3>2. n \in Nat /\ Len(rows) = n BY <3>1, <2>2
    <3>3. l \in Int /\ l >= -1 /\ l < n BY ONLY <3>1, <3>2, LastOfIs
    <3> QED BY <3>1, <3>3
  <2>4. o = [rev |-> 0, last |-> -1, blank |-> TRUE, title |-> -1, types |-> NoRow]
    BY <1>1 DEF EmptyLogSummary
  <2>5. o \in SummaryRow
    <3>1. PICK last, rev, types : last = -1 /\ rev = 0 /\ types = NoRow OBVIOUS
    <3>2. last \in Int /\ rev \in Int /\ types \in (SUBSET AllKinds) \cup {NoRow} /\ TRUE \in BOOLEAN
      BY <3>1
    <3>3. o = [rev |-> rev, last |-> last, blank |-> TRUE, title |-> last, types |-> types]
      BY <2>4, <3>1
    <3> QED BY ONLY <3>2, <3>3 DEF SummaryRow
  <2>6. o.blank = TRUE /\ ("start" \notin KindsIn(rows)) = TRUE BY <2>2, <2>4
  <2>7. o.title = LastOf(rows, "title") /\ o.types = NoRow /\ (-1) + 1 = Len(rows)
    BY <2>2, <2>3, <2>4
  <2> QED BY <1>1, <2>5, <2>6, <2>7
<1>2. CASE summary # NoRow
  <2>1. o = summary /\ o \in SummaryRow BY <1>2 DEF LogTypeOK
  <2>2. /\ header # NoRow /\ summary.rev = header
        /\ summary = [recomputeSummary(rows, header) EXCEPT !.types = summary.types]
        /\ summary.types \in {NoRow, KindsIn(rows)}
    BY <1>2 DEF SummaryFollows, StorageFits, SummaryFits
  <2>3. o.last = Len(rows) - 1 /\ o.title = LastOf(rows, "title") /\ o.blank = ("start" \notin KindsIn(rows))
    <3>1. o = [recomputeSummary(rows, header) EXCEPT !.types = o.types] BY <2>1, <2>2
    <3> QED BY ONLY <2>1, <3>1, ExactIs
  <2>4. Len(rows) \in Nat BY LenProperties DEF LogTypeOK
  <2> QED BY <1>2, <2>1, <2>2, <2>3, <2>4
<1> QED BY <1>1, <1>2

\* An append continues the log, and its summary stays exact.
LEMMA Appended ==
    ASSUME LogTypeOK, SummaryFollows, up, NEW batch \in Seq(BufferedEvent), batch # <<>>,
           \A i \in 1..Len(batch) : batch[i].seq = Len(rows) + i - 1, appendBatch(batch)
    PROVE  /\ header' \in Nat /\ rows' \in Seq(LogRow) /\ blankRow' \in BOOLEAN
           /\ summary' \in SummaryRow /\ summary'.rev = header'
           /\ summary' = [recomputeSummary(rows', header') EXCEPT !.types = summary'.types]
           /\ summary'.types \in {NoRow, KindsIn(rows')}
           /\ Len(rows') = Len(rows) + Len(batch)
           /\ Ids(rows') = Ids(rows) \o Ids(batch)
           /\ Continues(rows, rows')
           /\ version' = version
<1> PICK new : new = [i \in DOMAIN batch |-> [id |-> batch[i].id, kind |-> batch[i].kind, torn |-> FALSE]]
  OBVIOUS
<1> PICK o : o = IF summary = NoRow THEN [EmptyLogSummary EXCEPT !.types = NoRow] ELSE summary
  OBVIOUS
<1> PICK n, m : n = Len(rows) /\ m = Len(batch) OBVIOUS
<1>1. n \in Nat /\ m \in Nat /\ m # 0 /\ rows \in Seq(LogRow) /\ \A i \in 1..m : batch[i] \in BufferedEvent
  BY LenProperties, EmptySeq, ElementOfSeq DEF LogTypeOK
<1>2. /\ new \in Seq(LogRow) /\ Len(new) = m
      /\ \A i \in 1..m : new[i].kind = batch[i].kind /\ ~new[i].torn
      /\ Ids(new) = Ids(batch)
  BY BatchRows
<1>3. header' \in Nat /\ header' = (IF header = NoRow THEN 0 ELSE header) + 1 /\ blankRow' = FALSE /\ version' = version
  BY DEF appendBatch, LogTypeOK
<1>4. rows' = rows \o new BY DEF appendBatch
<1>5. /\ rows' \in Seq(LogRow) /\ Len(rows') = n + m
      /\ \A i \in 1..n : rows'[i] = rows[i]
      /\ KindsIn(rows') = KindsIn(rows) \cup KindsIn(new)
      /\ LastOf(new, "title") = -1 => LastOf(rows', "title") = LastOf(rows, "title")
      /\ LastOf(new, "title") # -1 => LastOf(rows', "title") = n + LastOf(new, "title")
      /\ LastTurnEnd(rows) <= LastTurnEnd(rows')
  <2>1. rows \in Seq(LogRow) /\ new \in Seq(LogRow) BY <1>1, <1>2
  <2>2. /\ rows \o new \in Seq(LogRow) /\ Len(rows \o new) = Len(rows) + Len(new)
        /\ \A i \in 1..Len(rows) : (rows \o new)[i] = rows[i]
        /\ KindsIn(rows \o new) = KindsIn(rows) \cup KindsIn(new)
        /\ \A k : /\ LastOf(new, k) = -1 => LastOf(rows \o new, k) = LastOf(rows, k)
                  /\ LastOf(new, k) # -1 => LastOf(rows \o new, k) = Len(rows) + LastOf(new, k)
        /\ LastTurnEnd(rows) <= LastTurnEnd(rows \o new)
    BY ONLY <2>1, JoinedRows, Zenon
  <2>3. PICK r : r = rows \o new OBVIOUS
  <2>4. /\ r \in Seq(LogRow) /\ Len(r) = n + m
        /\ \A i \in 1..n : r[i] = rows[i]
        /\ KindsIn(r) = KindsIn(rows) \cup KindsIn(new)
        /\ LastOf(new, "title") = -1 => LastOf(r, "title") = LastOf(rows, "title")
        /\ LastOf(new, "title") # -1 => LastOf(r, "title") = n + LastOf(new, "title")
        /\ LastTurnEnd(rows) <= LastTurnEnd(r)
    <3>1. n = Len(rows) /\ m = Len(new) BY <1>2
    <3>2. r \in Seq(LogRow) /\ Len(r) = n + m /\ \A i \in 1..n : r[i] = rows[i]
      BY ONLY <2>2, <2>3, <3>1
    <3>3. KindsIn(r) = KindsIn(rows) \cup KindsIn(new) /\ LastTurnEnd(rows) <= LastTurnEnd(r)
      BY ONLY <2>2, <2>3
    <3>4. /\ LastOf(new, "title") = -1 => LastOf(r, "title") = LastOf(rows, "title")
          /\ LastOf(new, "title") # -1 => LastOf(r, "title") = n + LastOf(new, "title")
      BY ONLY <2>2, <2>3, <3>1
    <3> QED BY ONLY <3>2, <3>3, <3>4
  <2> QED BY ONLY <2>3, <2>4, <1>4
<1>6. Ids(rows') = Ids(rows) \o Ids(batch)
  <2>1. \A r \in LogRow : r.id \in 1..MaxEvents BY DEF LogRow
  <2>2. Ids(rows \o new) = Ids(rows) \o Ids(new) BY <2>1, <1>1, <1>2, IdsJoin
  <2> QED BY <2>2, <1>2, <1>4
<1>7. KindsIn(new) = KindsIn(batch) /\ LastOf(new, "title") = LastOf(batch, "title")
  <2>1. new \in Seq(LogRow) /\ batch \in Seq(BufferedEvent) /\ Len(batch) = Len(new)
        /\ \A i \in 1..Len(new) : batch[i].kind = new[i].kind
    BY <1>2
  <2>2. KindsIn(batch) = KindsIn(new) /\ \A k : LastOf(batch, k) = LastOf(new, k)
    BY ONLY <2>1, SameKinds
  <2> QED BY <2>2
<1>8. /\ o \in SummaryRow
      /\ o.blank = ("start" \notin KindsIn(rows)) /\ o.title = LastOf(rows, "title")
      /\ o.types \in {NoRow, KindsIn(rows)}
  BY SummaryBefore
<1> PICK t : t = LastOf(batch, "title") OBVIOUS
<1>9. t \in Int /\ t >= -1 /\ (t # -1 => t + 1 \in 1..m)
  <2>1. m \in Nat /\ Len(batch) = m /\ t = LastOf(batch, "title") BY <1>1
  <2> QED BY ONLY <2>1, LastOfIs
<1> PICK title : title = IF t = -1 THEN o.title ELSE batch[t + 1].seq OBVIOUS
<1>10. title \in Int /\ title = LastOf(rows', "title")
  <2>1. CASE t = -1 BY <2>1, <1>5, <1>7, <1>8 DEF SummaryRow
  <2>2. CASE t # -1
    <3>1. batch[t + 1].seq = n + (t + 1) - 1 /\ LastOf(rows', "title") = n + t
      BY <2>2, <1>5, <1>7, <1>9
    <3> QED BY <3>1, <2>2, <1>1, <1>9
  <2> QED BY <2>1, <2>2
<1>11. Last(batch).seq = Len(rows') - 1 /\ Len(rows') - 1 \in Int
  <2>1. m \in 1..m /\ Last(batch) = batch[m] BY <1>1 DEF Last
  <2>2. batch[m].seq = n + m - 1 BY <2>1
  <2> QED BY <2>1, <2>2, <1>1, <1>5
<1> PICK types : types = IF o.types = NoRow THEN NoRow ELSE o.types \cup KindsIn(batch) OBVIOUS
<1>12. types \in {NoRow, KindsIn(rows')} BY <1>5, <1>7, <1>8
<1>13. KindsIn(rows') \in SUBSET AllKinds
  <2>1. DOMAIN rows' = 1..Len(rows') /\ \A i \in 1..Len(rows') : rows'[i] \in LogRow
    BY <1>5, LenProperties, ElementOfSeq
  <2> QED BY <2>1 DEF KindsIn, LogRow
<1> PICK blank : blank = (o.blank /\ "start" \notin KindsIn(batch)) OBVIOUS
<1>14. blank \in BOOLEAN /\ blank = ("start" \notin KindsIn(rows')) BY <1>5, <1>7, <1>8
<1>15. summary' = [rev |-> header', last |-> Last(batch).seq, blank |-> blank, title |-> title, types |-> types]
  BY DEF appendBatch, BatchSummary
<1>16. summary' \in SummaryRow BY <1>3, <1>10, <1>11, <1>12, <1>13, <1>14, <1>15 DEF SummaryRow
<1>17. summary'.rev = header' /\ summary'.last = Len(rows') - 1 /\ summary'.title = LastOf(rows', "title")
       /\ summary'.blank = ("start" \notin KindsIn(rows')) /\ summary'.types = types
  BY <1>10, <1>11, <1>14, <1>15
<1>18. summary' = [recomputeSummary(rows', header') EXCEPT !.types = summary'.types]
  BY <1>16, <1>17, ExactIs
<1>19. n <= Len(rows') BY <1>1, <1>5
<1>20. Continues(rows, rows') BY <1>5, <1>19 DEF Continues
<1> QED BY <1>3, <1>5, <1>6, <1>12, <1>16, <1>17, <1>18, <1>20

\* What a step that may write, and neither emits nor loses an event, keeps.
StorageTyped ==
    /\ header \in Nat \cup {NoRow} /\ version \in {"current", "old"} /\ blankRow \in BOOLEAN
    /\ rows \in Seq(LogRow) /\ summary \in SummaryRow \cup {NoRow}
Phases == {"none", "appended", "rejected", "exited", "threw"}
DrainTyped ==
    /\ buffer \in Seq(BufferedEvent)
    /\ drain.phase \in Phases /\ drain.batch \in Seq(BufferedEvent)
    /\ drain = [phase |-> drain.phase, batch |-> drain.batch]
WriteKeeps ==
    /\ StorageTyped' /\ DrainTyped'
    /\ Line' = Line /\ SummaryFollows' /\ SeqsFollow' /\ Continues(rows, rows')
    /\ (drain.phase # "rejected" => drain.batch = <<>>)'

\* A log continues itself.
LEMMA ContinuesItself ==
    ASSUME NEW rs \in Seq(LogRow) PROVE Continues(rs, rs)
<1> PICK n, l : n = Len(rs) /\ l = LastTurnEnd(rs) OBVIOUS
<1>1. n \in Nat /\ Len(rs) = n /\ l = LastTurnEnd(rs) BY LenProperties
<1>2. l \in 0..n BY ONLY <1>1, LastTurnEndIs
<1>3. n <= n /\ l <= l BY ONLY <1>1, <1>2
<1> QED BY <1>1, <1>3 DEF Continues

\* A step that leaves the tables and the drain alone.
LEMMA NothingWritten ==
    ASSUME LogTypeOK, SummaryFollows, SeqsFollow, drain.phase # "rejected" => drain.batch = <<>>,
           UNCHANGED <<tables, draining>>, up' = up PROVE WriteKeeps
<1>1. UNCHANGED <<header, version, blankRow, rows, summary, buffer, drain, faults, up>>
  BY DEF tables, draining
<1>2. StorageTyped' /\ DrainTyped' BY <1>1 DEF StorageTyped, DrainTyped, LogTypeOK, Phases
<1>3. Line' = Line BY <1>1 DEF Line, LineOf, Ids
<1>4. SummaryFollows' /\ SeqsFollow' BY <1>1 DEF SummaryFollows, SeqsFollow
<1>5. Continues(rows, rows') BY <1>1, ContinuesItself DEF LogTypeOK
<1> QED BY <1>1, <1>2, <1>3, <1>4, <1>5 DEF WriteKeeps

\* The drain takes the buffer: it is on its way to the log, or in it.
LEMMA BatchTaken ==
    ASSUME LogTypeOK, SummaryFollows, SeqsFollow, drain.batch = <<>>,
           up, up' = up, buffer # <<>>, TakeBatch
    PROVE  /\ WriteKeeps /\ buffer' = <<>>
           /\ drain'.phase \in {"appended", "rejected"}
<1>1. buffer \in Seq(BufferedEvent) /\ rows \in Seq(LogRow) /\ buffer' = <<>> /\ <<>> \in Seq(BufferedEvent)
  BY EmptySeq DEF LogTypeOK, TakeBatch
<1>2. Len(rows) \in Nat /\ Len(buffer) \in Nat /\ Len(<<>>) = 0 BY <1>1, LenProperties
<1>3. \A i \in 1..Len(buffer) : buffer[i].seq = Len(rows) + i - 1
  BY <1>1, <1>2, LenProperties DEF SeqsFollow
<1>4. Line = Ids(rows) \o Ids(buffer) BY <1>1, LineParts DEF Line
<1>5. DOMAIN <<>> = {} OBVIOUS
<1>6. CASE appendBatch(buffer) /\ drain' = [phase |-> "appended", batch |-> <<>>]
  <2>1. /\ header' \in Nat /\ rows' \in Seq(LogRow) /\ blankRow' \in BOOLEAN
        /\ summary' \in SummaryRow /\ summary'.rev = header'
        /\ summary' = [recomputeSummary(rows', header') EXCEPT !.types = summary'.types]
        /\ summary'.types \in {NoRow, KindsIn(rows')}
        /\ Len(rows') = Len(rows) + Len(buffer)
        /\ Ids(rows') = Ids(rows) \o Ids(buffer)
        /\ Continues(rows, rows')
        /\ version' = version
    BY <1>1, <1>3, <1>6, Appended
  <2>2. StorageTyped' /\ DrainTyped'
    BY <2>1, <1>1, <1>6 DEF StorageTyped, DrainTyped, Phases, LogTypeOK
  <2>3. Line' = Line
    <3>1. LineOf(rows', <<>>, <<>>) = Ids(rows') BY <2>1, <1>1, LineParts
    <3> QED BY <3>1, <2>1, <1>1, <1>4, <1>6 DEF Line
  <2>4. SummaryFollows'
    <3>1. header' # NoRow /\ summary' # NoRow /\ version' = "current"
      BY <2>1, NoRowIsNone DEF SummaryFollows, StorageFits
    <3> QED BY <3>1, <2>1 DEF SummaryFollows, StorageFits, SummaryFits
  <2>5. SeqsFollow' BY <1>1, <1>5, <1>6 DEF SeqsFollow
  <2> QED BY <2>1, <2>2, <2>3, <2>4, <2>5, <1>1, <1>6 DEF WriteKeeps
<1>7. CASE AppendFails(buffer) /\ drain' = [phase |-> "rejected", batch |-> buffer]
  <2>1. UNCHANGED <<header, version, blankRow, rows, summary>> BY <1>7 DEF AppendFails, tables
  <2>2. StorageTyped' /\ DrainTyped'
    BY <2>1, <1>1, <1>7 DEF StorageTyped, DrainTyped, Phases, LogTypeOK
  <2>3. Line' = Line
    <3>1. LineOf(rows', buffer, <<>>) = Ids(rows) \o Ids(buffer) BY <2>1, <1>1, LineParts
    <3> QED BY <3>1, <1>1, <1>4, <1>7 DEF Line
  <2>4. SummaryFollows' BY <2>1 DEF SummaryFollows
  <2>5. SeqsFollow'
    <3>1. DOMAIN buffer = 1..Len(buffer) BY <1>1, LenProperties
    <3> QED BY <3>1, <2>1, <1>1, <1>3, <1>5, <1>7 DEF SeqsFollow
  <2>6. Continues(rows, rows') BY <2>1, <1>1, ContinuesItself
  <2> QED BY <2>2, <2>3, <2>4, <2>5, <2>6, <1>1, <1>7 DEF WriteKeeps
<1> QED BY <1>6, <1>7 DEF TakeBatch

\* drainLiveBuffer, whichever way it goes.
LEMMA Drained ==
    ASSUME LogTypeOK, SummaryFollows, SeqsFollow, drain.phase # "rejected" => drain.batch = <<>>,
           up, up' = up, NEW st, drainLiveBuffer(st)
    PROVE  /\ WriteKeeps /\ st \in {"waiting", "ok"}
           /\ st = "waiting" <=> drain'.phase # "none"
           /\ st = "ok" => drain.phase = "none" /\ buffer = <<>> /\ UNCHANGED <<rows, buffer, drain>>
           /\ drain.phase # "none" => UNCHANGED <<rows, buffer, drain>>
           /\ drain'.phase = "exited" => drain.phase # "none"
<1>1. CASE JoinDrain /\ st = "waiting" BY <1>1, NothingWritten DEF JoinDrain, tables, draining
<1>2. CASE StartDrain /\ st = "waiting"
  <2>1. /\ WriteKeeps /\ drain'.phase \in {"appended", "rejected"} /\ drain.phase = "none"
    BY <1>2, BatchTaken DEF StartDrain
  <2> QED BY <2>1, <1>2
<1>3. CASE NothingToDrain /\ st = "ok" BY <1>3, NothingWritten DEF NothingToDrain, tables, draining
<1> QED BY <1>1, <1>2, <1>3 DEF drainLiveBuffer

----------------------------------------
(* What keeps the flushes and the export as they stand. *)

\* A summary computed from the rows is one of theirs.
LEMMA Recomputed ==
    ASSUME NEW rs \in Seq(LogRow), NEW h \in Int
    PROVE  recomputeSummary(rs, h) \in SummaryRow /\ recomputeSummary(rs, h).rev = h
           /\ SummaryFits(h, rs, recomputeSummary(rs, h))
<1> PICK r, n, l : r = recomputeSummary(rs, h) /\ n = Len(rs) /\ l = LastOf(rs, "title") OBVIOUS
<1>1. n \in Nat /\ Len(rs) = n /\ l = LastOf(rs, "title") BY LenProperties
<1>2. l \in Int BY ONLY <1>1, LastOfIs
<1>3. r = [rev |-> h, last |-> n - 1, blank |-> "start" \notin KindsIn(rs), title |-> l, types |-> NoRow]
  BY DEF recomputeSummary
<1>4. r \in SummaryRow /\ r.rev = h /\ r.types = NoRow
  <2>1. n - 1 \in Int /\ ("start" \notin KindsIn(rs)) \in BOOLEAN /\ NoRow \in (SUBSET AllKinds) \cup {NoRow}
    BY <1>1
  <2> PICK last, blank, types : last = n - 1 /\ blank = ("start" \notin KindsIn(rs)) /\ types = NoRow
    OBVIOUS
  <2>2. last \in Int /\ blank \in BOOLEAN /\ types \in (SUBSET AllKinds) \cup {NoRow} BY <2>1
  <2>3. r = [rev |-> h, last |-> last, blank |-> blank, title |-> l, types |-> types] BY <1>3
  <2>4. types = NoRow OBVIOUS
  <2> QED BY ONLY <2>2, <2>3, <2>4, <1>2, h \in Int DEF SummaryRow
<1>5. r = [r EXCEPT !.types = r.types] BY <1>3
<1>6. SummaryFits(h, rs, r) BY <1>4, <1>5 DEF SummaryFits
<1> QED BY <1>4, <1>6

\* Flushes stand as they did while the events they wait for move on.
LEMMA CallsMoveOn ==
    ASSUME FlushesStand, call' = call, stage' = stage,
           ToSet(Line) \subseteq ToSet(Line)', ToSet(Ids(rows)) \subseteq ToSet(Ids(rows))',
           drain.phase # "none" => drain'.phase # "none",
           drain'.phase = "exited" => drain.phase = "exited"
    PROVE  FlushesStand'
<1> SUFFICES ASSUME NEW c \in Callers, call[c] # NoRow PROVE FlushStands(call[c])'
  BY DEF FlushesStand
<1>1. FlushStands(call[c]) BY DEF FlushesStand
<1> QED BY <1>1 DEF FlushStands

\* Without a live session or a drain, no flush waits for anything.
LEMMA CallsAreOver ==
    ASSUME FlushesStand, call' = call, stage # "live", drain.phase = "none" PROVE FlushesStand'
<1> SUFFICES ASSUME NEW c \in Callers, call[c] # NoRow PROVE FlushStands(call[c])'
  BY DEF FlushesStand
<1>1. call[c].at # "drain" /\ call[c].st # "waiting" BY DEF FlushesStand, FlushStands
<1> QED BY <1>1 DEF FlushStands

\* An export goes on while its log is only continued.
LEMMA ExportKept ==
    ASSUME LogTypeOK, ExportFollows, ExportIsASnapshot, Continues(rows, rows'), rows' \in Seq(LogRow),
           exporting' = exporting, up' = up PROVE ExportFollows' /\ ExportIsASnapshot'
<1>1. export' = export /\ pin' = pin BY DEF exporting
<1>2. ExportIsASnapshot' BY <1>1 DEF ExportIsASnapshot
<1>3. ASSUME export.state = "open"
      PROVE  /\ Len(pin) <= Len(rows')
             /\ \A i \in 1..Len(pin) : pin[i] = rows'[i].id /\ (rows'[i].torn => i <= LastTurnEnd(rows'))
  <2> PICK n, m, p, l, k : n = Len(rows) /\ m = Len(rows') /\ p = Len(pin) /\ l = LastTurnEnd(rows) /\ k = LastTurnEnd(rows')
    OBVIOUS
  <2>1. n \in Nat /\ m \in Nat /\ p \in Nat /\ Len(rows) = n /\ Len(rows') = m
    BY LenProperties DEF LogTypeOK
  <2>2. l \in Int /\ k \in Int
    <3>1. l = LastTurnEnd(rows) /\ k = LastTurnEnd(rows') OBVIOUS
    <3> QED BY ONLY <2>1, <3>1, LastTurnEndIs
  <2>3. n <= m /\ l <= k /\ p <= n BY <1>3 DEF Continues, ExportFollows
  <2>4. ASSUME NEW i \in 1..p PROVE pin[i] = rows'[i].id /\ (rows'[i].torn => i <= k)
    <3>1. i \in 1..n /\ rows'[i] = rows[i] BY <2>1, <2>3 DEF Continues
    <3>2. pin[i] = rows[i].id /\ (rows[i].torn => i <= l) BY <1>3 DEF ExportFollows
    <3> QED BY <3>1, <3>2, <2>2, <2>3
  <2> QED BY <2>1, <2>3, <2>4
<1>4. ExportFollows' BY <1>1, <1>3 DEF ExportFollows
<1> QED BY <1>2, <1>4

\* The same when the log is left alone.
LEMMA ExportStays ==
    ASSUME LogTypeOK, ExportFollows, ExportIsASnapshot, rows' = rows, exporting' = exporting, up' = up
    PROVE  ExportFollows' /\ ExportIsASnapshot'
<1>1. Continues(rows, rows') /\ rows' \in Seq(LogRow) BY ContinuesItself DEF LogTypeOK
<1> QED BY <1>1, ExportKept

\* What is stored is on the line.
LEMMA StoredAreOnLine ==
    ASSUME NEW rs \in Seq(LogRow), NEW b \in Seq(BufferedEvent), NEW f \in Seq(BufferedEvent)
    PROVE  ToSet(Ids(rs)) \subseteq ToSet(LineOf(rs, b, f))
<1> PICK v, x, n, z : v = LineOf(rs, b, f) /\ x = Ids(rs) /\ n = Len(rs) /\ z = Len(v) OBVIOUS
<1>1. /\ x \in Seq(1..MaxEvents) /\ Len(x) = n /\ n \in Nat /\ v \in Seq(1..MaxEvents)
      /\ Len(b) \in Nat /\ Len(f) \in Nat /\ z = n + Len(b) + Len(f)
      /\ \A i \in 1..n : v[i] = x[i]
  <2>1. Len(b) \in Nat /\ Len(f) \in Nat BY LenProperties
  <2>2. /\ Ids(rs) \in Seq(1..MaxEvents) /\ Len(Ids(rs)) = Len(rs) /\ Len(rs) \in Nat
        /\ LineOf(rs, b, f) \in Seq(1..MaxEvents)
        /\ Len(LineOf(rs, b, f)) = Len(rs) + Len(b) + Len(f)
        /\ \A i \in 1..Len(rs) : LineOf(rs, b, f)[i] = rs[i].id /\ Ids(rs)[i] = rs[i].id
    BY LineIs
  <2> QED BY <2>1, <2>2
<1>2. DOMAIN x = 1..n /\ DOMAIN v = 1..z BY <1>1, LenProperties
<1>3. \A i \in 1..n : i \in 1..z BY <1>1
<1> QED BY <1>1, <1>2, <1>3 DEF ToSet

----------------------------------------
(* Start and end of the process, blank sessions and handles. *)

\* The line is left alone with the rows, the batch and the buffer.
LEMMA LineUntouched ==
    ASSUME rows' = rows, buffer' = buffer, drain'.batch = drain.batch
    PROVE  Line' = Line /\ Ids(rows)' = Ids(rows)
BY DEF Line, LineOf, Ids

Untouched == UNCHANGED <<rows, buffer, drain, mem, call, exporting, born, closeWaits>>
\* A step that leaves the line and the log's rows alone.
LEMMA LineAndExportStay ==
    ASSUME LogInv, Untouched, up' = up \/ (~up /\ stage = "none")
    PROVE  LineInOrder' /\ SeqsFollow' /\ ExportFollows' /\ ExportIsASnapshot'
<1>1. UNCHANGED <<rows, buffer, drain, export, pin, born>> BY DEF Untouched, exporting
<1>2. LineInOrder' BY <1>1, LineUntouched DEF LineInOrder, LogInv
<1>3. SeqsFollow' BY <1>1 DEF SeqsFollow, LogInv
<1>4. ExportIsASnapshot' BY <1>1 DEF ExportIsASnapshot, LogInv
<1>5. ExportFollows' BY <1>1 DEF ExportFollows, LogInv
<1> QED BY <1>2, <1>3, <1>4, <1>5

\* The object starts: migrations, and summaries that are missing or stale.
LEMMA StartKeeps ==
    ASSUME LogInv, postInitialize PROVE LogInv'
<1>1. /\ LogTypeOK /\ HandleStands /\ FlushesStand /\ SummaryFollows
      /\ ~up /\ up' = TRUE /\ stage = "none" /\ drain.phase = "none"
      /\ UNCHANGED <<blankRow, rows, stage, materialized, through, mem, buffer, drain, faults,
                     closeWaits, call, export, pin, born, damage>>
  BY DEF LogInv, HandleStands, postInitialize, draining, exporting
<1>2. Untouched BY <1>1 DEF Untouched, exporting
<1>3. rows \in Seq(LogRow) /\ header \in Nat \cup {NoRow} /\ summary \in SummaryRow \cup {NoRow}
  BY <1>1 DEF LogTypeOK
<1>4. /\ header' \in Nat \cup {NoRow} /\ version' \in {"current", "old"} /\ summary' \in SummaryRow \cup {NoRow}
      /\ SummaryFollows'
  <2>1. CASE version = "old"
    <3>1. header # NoRow /\ header \in Nat /\ version' = "current" /\ header' = header + 1
          /\ summary' = recomputeSummary(rows, header')
      BY <2>1, <1>1, <1>3 DEF SummaryFollows, StorageFits, postInitialize
    <3>2. header' \in Nat /\ header' # NoRow BY <3>1, NoRowIsNone
    <3>3. summary' \in SummaryRow /\ summary'.rev = header' /\ SummaryFits(header', rows, summary')
      BY <3>1, <3>2, <1>3, Recomputed
    <3>4. summary' # NoRow BY <3>3, NoRowIsNone
    <3> QED BY <3>1, <3>2, <3>3, <3>4, <1>1 DEF SummaryFollows, StorageFits
  <2>2. CASE version # "old" /\ header # NoRow /\ (summary = NoRow \/ summary.rev # header)
    <3>1. header \in Nat /\ version' = version /\ version = "current" /\ header' = header
          /\ summary' = recomputeSummary(rows, header)
      BY <2>2, <1>1, <1>3 DEF postInitialize, LogTypeOK
    <3>2. summary' \in SummaryRow /\ summary'.rev = header' /\ SummaryFits(header', rows, summary')
      BY <3>1, <1>3, Recomputed
    <3>3. summary' # NoRow BY <3>2, NoRowIsNone
    <3> QED BY <3>1, <3>2, <3>3, <2>2, <1>1 DEF SummaryFollows, StorageFits
  <2>3. CASE version # "old" /\ ~(header # NoRow /\ (summary = NoRow \/ summary.rev # header))
    <3>1. version' = version /\ version = "current" /\ header' = header /\ summary' = summary
      BY <2>3, <1>1 DEF postInitialize, LogTypeOK
    <3>2. StorageFits(up, version, header, rows, summary) BY <1>1 DEF SummaryFollows
    <3>3. StorageFits(up', version, header, rows, summary) BY <3>1, <3>2, <2>3 DEF StorageFits
    <3> QED BY <3>1, <3>3, <1>1, <1>3 DEF SummaryFollows
  <2> QED BY <2>1, <2>2, <2>3
<1>5. LogTypeOK' BY <1>1, <1>4 DEF LogTypeOK
<1>6. HandleStands' BY <1>1, <1>2, LineUntouched DEF HandleStands
<1>7. FlushesStand' BY <1>1, CallsAreOver
<1>8. LineInOrder' /\ SeqsFollow' /\ ExportFollows' /\ ExportIsASnapshot'
  BY <1>1, <1>2, LineAndExportStay
<1> QED BY <1>4, <1>5, <1>6, <1>7, <1>8 DEF LogInv

\* What is left of the line is what is stored.
LEMMA LineFalls ==
    ASSUME LogInv, rows' = rows, buffer' = <<>>, drain'.batch = <<>>, born' = born
    PROVE  LineInOrder' /\ SeqsFollow' /\ Line' = Ids(rows)
<1>1. rows \in Seq(LogRow) /\ buffer \in Seq(BufferedEvent) /\ drain.batch \in Seq(BufferedEvent)
      /\ <<>> \in Seq(BufferedEvent) /\ born \in Nat /\ InOrder(Line, born)
  BY EmptySeq DEF LogInv, LogTypeOK, LineInOrder
<1>2. LineOf(rows, <<>>, <<>>) = Ids(rows) BY <1>1, LineParts
<1>3. Line' = Ids(rows) BY <1>2 DEF Line
<1>4. Len(rows) \in Nat /\ Len(buffer) \in Nat /\ Len(drain.batch) \in Nat BY <1>1, LenProperties
<1>5. /\ Len(Ids(rows)) = Len(rows)
      /\ Len(Line) = Len(rows) + Len(drain.batch) + Len(buffer)
      /\ \A i \in 1..Len(rows) : Line[i] = Ids(rows)[i]
  BY <1>1, LineIs, ZenonT(60) DEF Line
<1>6. InOrder(Ids(rows), born)
  <2>1. Len(Line) \in Nat /\ Len(Ids(rows)) \in Nat /\ Len(Ids(rows)) <= Len(Line)
        /\ \A i \in 1..Len(Ids(rows)) : Ids(rows)[i] = Line[i]
    BY <1>4, <1>5
  <2> QED BY <2>1, <1>1, LineCut
<1>7. SeqsFollow'
  <2>1. DOMAIN <<>> = {} OBVIOUS
  <2> QED BY <2>1 DEF SeqsFollow
<1> QED BY <1>3, <1>6, <1>7 DEF LineInOrder

\* The object is lost, with what it had in memory.
LEMMA CrashKeeps ==
    ASSUME LogInv, Crash PROVE LogInv'
<1>1. /\ LogTypeOK /\ up /\ up' = FALSE /\ stage' = "none" /\ materialized' = FALSE /\ through' = -1
      /\ mem' = <<>> /\ buffer' = <<>> /\ drain' = [phase |-> "none", batch |-> <<>>]
      /\ closeWaits' = FALSE /\ call' = [c \in Callers |-> NoRow]
      /\ export' = [state |-> IF export.state = "open" THEN "failed" ELSE export.state, got |-> <<>>]
      /\ pin' = <<>>
      /\ UNCHANGED <<header, version, blankRow, rows, summary, born, faults, damage>>
  BY DEF LogInv, Crash, tables
<1>2. <<>> \in Seq(1..MaxEvents) /\ <<>> \in Seq(BufferedEvent) /\ Len(<<>>) = 0 BY EmptySeq
<1>3. export' = [state |-> export'.state, got |-> <<>>] /\ export'.state \in {"no", "open", "done", "failed"}
      /\ export'.state # "open"
  BY <1>1 DEF LogTypeOK
<1>4. LogTypeOK'
  <2>1. -1 \in Int OBVIOUS
  <2>2. drain' \in [phase : {"none", "appended", "rejected", "exited", "threw"}, batch : Seq(BufferedEvent)]
    BY <1>1, <1>2
  <2>3. export' \in [state : {"no", "open", "done", "failed"}, got : Seq(1..MaxEvents)]
    <3>1. PICK st, got : st = export'.state /\ got = <<>> OBVIOUS
    <3>2. export' = [state |-> st, got |-> got] /\ st \in {"no", "open", "done", "failed"} /\ got \in Seq(1..MaxEvents)
      BY <3>1, <1>2, <1>3
    <3> QED BY ONLY <3>2
  <2>4. call' \in [Callers -> FlushCall \cup {NoRow}] BY <1>1
  <2> QED BY <1>1, <1>2, <2>1, <2>2, <2>3, <2>4 DEF LogTypeOK
<1>5. LineInOrder' /\ SeqsFollow' BY <1>1, LineFalls
<1>6. HandleStands' BY <1>1 DEF HandleStands
<1>7. FlushesStand' BY <1>1 DEF FlushesStand
<1>8. SummaryFollows' BY <1>1 DEF SummaryFollows, StorageFits, LogInv
<1>9. ExportIsASnapshot' /\ ExportFollows'
  <2>1. pin' = <<>> /\ export'.got = <<>> /\ SubSeq(<<>>, 1, 0) = <<>> /\ 0 <= 0 BY <1>1, <1>3
  <2> QED BY <2>1, <1>2, <1>3 DEF ExportIsASnapshot, ExportFollows
<1> QED BY <1>4, <1>5, <1>6, <1>7, <1>8, <1>9 DEF LogInv

\* A row turns out unparsable: what is said of kinds and places still holds.
LEMMA DamageKeeps ==
    ASSUME LogInv, RowIsDamaged PROVE LogInv'
<1>1. /\ LogTypeOK /\ HandleStands /\ FlushesStand /\ SummaryFollows /\ SeqsFollow
      /\ ~up /\ stage = "none" /\ drain.phase = "none"
      /\ UNCHANGED <<header, version, blankRow, summary, up, stage, materialized, through,
                     mem, buffer, drain, faults, closeWaits, call, export, pin, born>>
  BY DEF LogInv, HandleStands, RowIsDamaged, draining, exporting
<1>2. PICK i \in DOMAIN rows : rows' = [rows EXCEPT ![i].torn = TRUE] BY DEF RowIsDamaged
<1>3. rows \in Seq(LogRow) /\ DOMAIN rows = 1..Len(rows) /\ Len(rows) \in Nat
      /\ \A j \in 1..Len(rows) : rows[j] \in LogRow
  BY <1>1, LenProperties, ElementOfSeq DEF LogTypeOK
<1>4. [rows[i] EXCEPT !.torn = TRUE] \in LogRow BY <1>2, <1>3 DEF LogRow
<1>5. /\ rows' \in Seq(LogRow) /\ Len(rows') = Len(rows) /\ DOMAIN rows' = DOMAIN rows
      /\ \A j \in 1..Len(rows) : rows'[j].id = rows[j].id /\ rows'[j].kind = rows[j].kind
  <2>1. rows' \in [1..Len(rows) -> LogRow] BY <1>2, <1>3, <1>4
  <2>2. \A j \in 1..Len(rows) : rows'[j] = IF j = i THEN [rows[i] EXCEPT !.torn = TRUE] ELSE rows[j]
    BY <1>2, <1>3
  <2>3. [rows[i] EXCEPT !.torn = TRUE].id = rows[i].id /\ [rows[i] EXCEPT !.torn = TRUE].kind = rows[i].kind
    BY <1>2, <1>3 DEF LogRow
  <2>4. rows' \in Seq(LogRow) /\ Len(rows') = Len(rows) /\ DOMAIN rows' = DOMAIN rows
    BY <2>1, <1>3, IsASeq, LenProperties
  <2> QED BY <2>2, <2>3, <2>4
<1>6. Ids(rows') = Ids(rows) /\ Line' = Line
  <2>1. Ids(rows') = Ids(rows) BY <1>3, <1>5 DEF Ids
  <2> QED BY <2>1, <1>1 DEF Line, LineOf, Ids
<1>7. KindsIn(rows') = KindsIn(rows) /\ LastOf(rows', "title") = LastOf(rows, "title")
  <2>1. KindsIn(rows') = KindsIn(rows) /\ \A k : LastOf(rows', k) = LastOf(rows, k)
    BY <1>3, <1>5, SameKinds
  <2> QED BY <2>1
<1>8. LogTypeOK' BY <1>1, <1>5 DEF LogTypeOK
<1>9. LineInOrder' BY <1>1, <1>6 DEF LineInOrder, LogInv
<1>10. HandleStands' BY <1>1, <1>6 DEF HandleStands
<1>11. FlushesStand' BY <1>1, CallsAreOver
<1>12. SummaryFollows'
  <2>1. recomputeSummary(rows', header) = recomputeSummary(rows, header)
    BY <1>5, <1>7 DEF recomputeSummary
  <2>2. SummaryFits(header, rows, summary) => SummaryFits(header, rows', summary)
    BY <2>1, <1>7 DEF SummaryFits
  <2>3. rows = <<>> => rows' = <<>> BY <1>3, <1>5, EmptySeq
  <2>4. StorageFits(up, version, header, rows, summary) BY <1>1 DEF SummaryFollows
  <2>5. StorageFits(up, version, header, rows', summary) BY <2>2, <2>3, <2>4 DEF StorageFits
  <2> QED BY <1>1, <2>5 DEF SummaryFollows
<1>13. SeqsFollow' BY <1>1, <1>5 DEF SeqsFollow
<1>14. ExportIsASnapshot' /\ ExportFollows' BY <1>1 DEF ExportIsASnapshot, ExportFollows, LogInv
<1> QED BY <1>8, <1>9, <1>10, <1>11, <1>12, <1>13, <1>14 DEF LogInv

\* Materializing a blank session, or finding it materialized.
LEMMA MaterializedFits ==
    ASSUME LogTypeOK, SummaryFollows, up, Materialized, UNCHANGED <<version, rows, up>>
    PROVE  StorageTyped' /\ SummaryFollows' /\ header' # NoRow
<1>1. rows \in Seq(LogRow) /\ header \in Nat \cup {NoRow} /\ summary \in SummaryRow \cup {NoRow} /\ version = "current"
  BY DEF LogTypeOK, SummaryFollows, StorageFits
<1>2. /\ header' = (IF header = NoRow THEN 0 ELSE header) /\ blankRow' = FALSE
      /\ summary' = (IF summary = NoRow THEN EmptyLogSummary ELSE summary)
      /\ rows' = rows /\ version' = version /\ up' = up
  BY DEF Materialized
<1>3. header' \in Nat /\ header' # NoRow
  <2>1. \A x \in Nat : x # NoRow BY NoRowIsNone
  <2> QED BY <2>1, <1>1, <1>2
<1>4. CASE header # NoRow
  <2>1. summary # NoRow /\ header' = header /\ summary' = summary
    BY <1>2, <1>4 DEF SummaryFollows, StorageFits
  <2> QED BY <2>1, <1>1, <1>2, <1>3 DEF SummaryFollows, StorageTyped
<1>5. CASE header = NoRow
  <2>1. rows = <<>> /\ summary = NoRow /\ header' = 0 /\ summary' = EmptyLogSummary
    BY <1>2, <1>5 DEF SummaryFollows, StorageFits
  <2> PICK sm, last, none : sm = EmptyLogSummary /\ last = -1 /\ none = {} OBVIOUS
  <2>2. last \in Int /\ 0 \in Int /\ none \in (SUBSET AllKinds) \cup {NoRow} /\ TRUE \in BOOLEAN
    OBVIOUS
  <2>3. sm = [rev |-> 0, last |-> last, blank |-> TRUE, title |-> last, types |-> none]
    BY DEF EmptyLogSummary
  <2>4. sm \in SummaryRow /\ sm.rev = 0 BY ONLY <2>2, <2>3 DEF SummaryRow
  <2>5. KindsIn(rows) = {} /\ Len(rows) = 0 BY <2>1 DEF KindsIn
  <2>6. LastOf(rows, "title") = -1
    <3>1. PICK l, n : l = LastOf(rows, "title") /\ n = 0 OBVIOUS
    <3>2. n \in Nat /\ Len(rows) = n BY <3>1, <2>5
    <3>3. l \in Int /\ l >= -1 /\ l < n BY ONLY <3>1, <3>2, LastOfIs
    <3> QED BY <3>1, <3>3
  <2>7. sm.rev = 0 /\ sm.last = -1 /\ sm.blank = TRUE /\ sm.title = -1 /\ sm.types = {} BY <2>3
  <2>8. sm.last = Len(rows) - 1 /\ sm.title = LastOf(rows, "title") /\ sm.blank = ("start" \notin KindsIn(rows))
    <3>1. sm.blank = TRUE /\ ("start" \notin KindsIn(rows)) = TRUE BY <2>5, <2>7
    <3>2. sm.last = Len(rows) - 1 /\ sm.title = LastOf(rows, "title") BY <2>5, <2>6, <2>7
    <3> QED BY <3>1, <3>2
  <2>9. sm = [recomputeSummary(rows, 0) EXCEPT !.types = sm.types] BY ONLY <2>4, <2>8, ExactIs
  <2>10. SummaryFits(0, rows, sm) BY <2>9, <2>7, <2>5 DEF SummaryFits
  <2>11. sm # NoRow BY <2>4, NoRowIsNone
  <2> QED BY <2>1, <2>4, <2>10, <2>11, <1>1, <1>2, <1>3 DEF SummaryFollows, StorageFits, StorageTyped
<1> QED BY <1>3, <1>4, <1>5

\* Recording the types of a log whose summary is exact keeps it so.
LEMMA TypesRecorded ==
    ASSUME LogTypeOK, SummaryFollows, up, header # NoRow,
           summary' = [summary EXCEPT !.types = StoredTypes],
           UNCHANGED <<header, version, blankRow, rows, up>>
    PROVE  StorageTyped' /\ SummaryFollows'
<1>1. /\ version = "current" /\ summary # NoRow /\ summary.rev = header /\ SummaryFits(header, rows, summary)
      /\ rows \in Seq(LogRow) /\ summary \in SummaryRow
  BY DEF SummaryFollows, StorageFits, LogTypeOK
<1>2. StoredTypes = KindsIn(rows) BY <1>1 DEF StoredTypes, SummaryFits
<1>3. KindsIn(rows) \in SUBSET AllKinds
  <2>1. DOMAIN rows = 1..Len(rows) /\ \A i \in 1..Len(rows) : rows[i] \in LogRow
    BY <1>1, LenProperties, ElementOfSeq
  <2> QED BY <2>1 DEF KindsIn, LogRow
<1>4. /\ summary' \in SummaryRow /\ summary'.rev = header /\ summary'.types = KindsIn(rows)
      /\ summary'.last = summary.last /\ summary'.title = summary.title /\ summary'.blank = summary.blank
  <2> PICK K : K = KindsIn(rows) OBVIOUS
  <2>1. K \in (SUBSET AllKinds) \cup {NoRow} /\ summary' = [summary EXCEPT !.types = K]
    BY <1>2, <1>3
  <2>2. summary' \in SummaryRow BY ONLY <2>1, <1>1 DEF SummaryRow
  <2>3. summary'.rev = summary.rev /\ summary'.last = summary.last /\ summary'.title = summary.title
        /\ summary'.types = K
    BY ONLY <2>1, <1>1 DEF SummaryRow
  <2>4. summary'.blank = summary.blank BY ONLY <2>1, <1>1 DEF SummaryRow
  <2> QED BY <2>2, <2>3, <2>4, <1>1
<1>5. summary = [recomputeSummary(rows, header) EXCEPT !.types = summary.types]
  BY <1>1 DEF SummaryFits
<1>6. summary.rev = header /\ summary.last = Len(rows) - 1 /\ summary.title = LastOf(rows, "title")
      /\ summary.blank = ("start" \notin KindsIn(rows))
  BY ONLY <1>1, <1>5, ExactIs
<1>7. PICK sm : sm = summary' OBVIOUS
<1>8. sm \in SummaryRow /\ sm.rev = header /\ sm.last = Len(rows) - 1 /\ sm.title = LastOf(rows, "title")
      /\ sm.blank = ("start" \notin KindsIn(rows))
  BY <1>4, <1>6, <1>7
<1>9. sm = [recomputeSummary(rows, header) EXCEPT !.types = sm.types] BY ONLY <1>8, ExactIs
<1>10. SummaryFits(header, rows, summary') /\ summary' # NoRow
  <2>1. sm # NoRow BY <1>8, NoRowIsNone
  <2> QED BY <2>1, <1>4, <1>7, <1>9 DEF SummaryFits
<1> QED BY <1>1, <1>4, <1>10 DEF SummaryFollows, StorageFits, StorageTyped, LogTypeOK

\* What is in memory, and the memory of a handle that is opened.
HandleOpened ==
    /\ UNCHANGED <<up, mem, draining, closeWaits, call, exporting, born, damage>>
    /\ stage = "none" /\ stage' \in {"opened", "ready"} /\ materialized' \in BOOLEAN /\ through' = -1

\* A step on blank sessions or handles touches no row and no event.
LEMMA HandleKeeps ==
    ASSUME LogInv, up, StorageTyped', SummaryFollows', rows' = rows,
           memory' = memory \/ HandleOpened
    PROVE  LogInv'
<1>1. LogTypeOK /\ HandleStands /\ FlushesStand BY DEF LogInv
<1>2. UNCHANGED <<up, mem, buffer, drain, faults, closeWaits, call, export, pin, born, damage>>
  BY DEF memory, HandleOpened, draining, exporting
<1>3. Untouched BY <1>2 DEF Untouched, exporting
<1>4. LogTypeOK'
  <2>1. -1 \in Int OBVIOUS
  <2>2. stage' \in {"none", "opened", "ready", "live", "closing"} /\ materialized' \in BOOLEAN /\ through' \in Int
    BY <2>1, <1>1 DEF LogTypeOK, memory, HandleOpened
  <2> QED BY <2>2, <1>1, <1>2 DEF LogTypeOK, StorageTyped
<1>5. Line' = Line BY <1>2, LineUntouched
<1>6. HandleStands'
  <2>1. CASE memory' = memory BY <2>1, <1>1, <1>2, <1>5 DEF HandleStands, memory
  <2>2. CASE HandleOpened
    <3>1. Len(rows) \in Nat BY <1>1, LenProperties DEF LogTypeOK
    <3>2. through' < Len(rows') BY <3>1, <2>2 DEF HandleOpened
    <3> QED BY <3>2, <2>2, <1>1, <1>2 DEF HandleStands, HandleOpened
  <2> QED BY <2>1, <2>2
<1>7. FlushesStand'
  <2>1. CASE memory' = memory BY <2>1, <1>1, <1>2, <1>5, CallsMoveOn DEF memory, Ids
  <2>2. CASE HandleOpened BY <2>2, <1>1, <1>2, CallsAreOver DEF HandleStands, HandleOpened
  <2> QED BY <2>1, <2>2
<1>8. LineInOrder' /\ SeqsFollow' /\ ExportFollows' /\ ExportIsASnapshot'
  BY <1>2, <1>3, LineAndExportStay
<1> QED BY <1>4, <1>6, <1>7, <1>8 DEF LogInv

\* createBlankSession, materializeBlankSession, create, open, and a refusal.
LEMMA HandlesKeep ==
    ASSUME LogInv, \/ retainBlankSession \/ materializeBlankSession \/ create \/ open \/ openRefused
    PROVE  LogInv'
<1>1. LogTypeOK /\ SummaryFollows BY DEF LogInv
<1>2. CASE retainBlankSession
  <2>1. up /\ memory' = memory /\ UNCHANGED <<header, version, rows, summary, up>> /\ blankRow' = TRUE
    BY <1>2 DEF retainBlankSession, memory
  <2>2. StorageTyped' /\ SummaryFollows' BY <2>1, <1>1 DEF StorageTyped, LogTypeOK, SummaryFollows
  <2> QED BY <2>1, <2>2, HandleKeeps
<1>3. CASE materializeBlankSession
  <2>1. up /\ memory' = memory /\ UNCHANGED <<version, rows, up>> /\ Materialized
    BY <1>3 DEF materializeBlankSession, memory
  <2>2. StorageTyped' /\ SummaryFollows' BY <2>1, <1>1, MaterializedFits
  <2> QED BY <2>1, <2>2, HandleKeeps
<1>4. CASE create
  <2>1. up /\ HandleOpened /\ UNCHANGED <<version, rows, up>> /\ Materialized
    BY <1>4 DEF create, HandleOpened, NewHandle
  <2>2. StorageTyped' /\ SummaryFollows' BY <2>1, <1>1, MaterializedFits
  <2> QED BY <2>1, <2>2, HandleKeeps
<1>5. CASE open
  <2>1. up /\ HandleOpened /\ UNCHANGED <<version, rows, up>>
    <3>1. (header # NoRow) \in BOOLEAN OBVIOUS
    <3> QED BY <3>1, <1>5 DEF open, HandleOpened, NewHandle
  <2>2. StorageTyped' /\ SummaryFollows'
    <3>1. CASE header = NoRow
      <4>1. Materialized BY <3>1, <1>5 DEF open
      <4> QED BY <4>1, <2>1, <1>1, MaterializedFits
    <3>2. CASE header # NoRow
      <4>1. summary' = [summary EXCEPT !.types = StoredTypes] /\ UNCHANGED <<header, blankRow>>
        BY <3>2, <1>5 DEF open
      <4> QED BY <4>1, <3>2, <2>1, <1>1, TypesRecorded
    <3> QED BY <3>1, <3>2
  <2> QED BY <2>1, <2>2, HandleKeeps
<1>6. CASE openRefused
  <2>1. /\ up /\ memory' = memory /\ header # NoRow /\ UNCHANGED <<header, version, blankRow, rows, up>>
        /\ summary' = [summary EXCEPT !.types = StoredTypes]
    BY <1>6 DEF openRefused, memory
  <2>2. StorageTyped' /\ SummaryFollows' BY <2>1, <1>1, TypesRecorded
  <2> QED BY <2>1, <2>2, HandleKeeps
<1> QED BY <1>2, <1>3, <1>4, <1>5, <1>6

----------------------------------------
(* Repair, the opener's append, and the live session. *)

\* Whoever opened the log holds no events yet: its line is its rows.
LEMMA LineOfRows ==
    ASSUME LogInv, stage \in {"none", "opened", "ready"}
    PROVE  /\ mem = <<>> /\ buffer = <<>> /\ drain.phase = "none" /\ drain.batch = <<>>
           /\ Line = Ids(rows) /\ rows \in Seq(LogRow) /\ Len(rows) \in Nat
           /\ Ids(rows) \in Seq(1..MaxEvents) /\ Len(Ids(rows)) = Len(rows)
           /\ \A i \in 1..Len(rows) : Ids(rows)[i] = rows[i].id
<1>1. /\ mem = <<>> /\ buffer = <<>> /\ drain.phase = "none" /\ drain.batch = <<>>
      /\ rows \in Seq(LogRow) /\ <<>> \in Seq(BufferedEvent)
  BY EmptySeq DEF LogInv, HandleStands, LogTypeOK
<1>2. Line = Ids(rows) BY <1>1, LineParts DEF Line
<1>3. Len(rows) \in Nat BY <1>1, LenProperties
<1>4. Ids(rows) \in Seq(1..MaxEvents) /\ Len(Ids(rows)) = Len(rows) /\ \A i \in 1..Len(rows) : Ids(rows)[i] = rows[i].id
  BY <1>1, LineIs
<1> QED BY <1>1, <1>2, <1>3, <1>4

\* A torn tail is cut off, before every row an export may still need.
LEMMA ReadKeeps ==
    ASSUME LogInv, read PROVE LogInv'
<1> PICK n, l, t : n = Len(rows) /\ l = TornFrom(rows) /\ t = LastTurnEnd(rows) OBVIOUS
<1>1. /\ LogTypeOK /\ HandleStands /\ FlushesStand /\ SummaryFollows
      /\ stage = "opened" /\ stage' = "ready" /\ ~HasCorruption(rows) /\ up /\ through = -1
      /\ UNCHANGED <<up, materialized, through, mem, buffer, drain, faults, closeWaits,
                     call, export, pin, born, damage>>
  BY DEF LogInv, HandleStands, read, draining, exporting
<1>2. /\ mem = <<>> /\ buffer = <<>> /\ drain.phase = "none" /\ drain.batch = <<>>
      /\ Line = Ids(rows) /\ rows \in Seq(LogRow) /\ n \in Nat
      /\ Len(Ids(rows)) = n /\ \A i \in 1..n : Ids(rows)[i] = rows[i].id
  BY <1>1, LineOfRows
<1>3. l \in 0..n /\ (l # 0 => rows[l].torn)
  <2>1. n \in Nat /\ Len(rows) = n /\ l = TornFrom(rows) BY <1>2
  <2> QED BY ONLY <2>1, TornFromIs
<1>4. StorageTyped' /\ SummaryFollows' /\ rows' \in Seq(LogRow) /\ Len(rows') <= n /\ Len(rows') \in Nat
      /\ (\A i \in 1..Len(rows') : rows'[i] = rows[i])
      /\ (rows' = rows \/ (l # 0 /\ Len(rows') = l - 1))
  <2>1. CASE l = 0
    <3>1. UNCHANGED <<header, version, blankRow, rows, summary>> BY <2>1 DEF read, tables
    <3>2. n <= n BY <1>2
    <3> QED BY <3>1, <3>2, <1>1, <1>2 DEF StorageTyped, LogTypeOK, SummaryFollows
  <2>2. CASE l # 0
    <3>1. /\ rows' = SubSeq(rows, 1, l - 1) /\ header' = header + 1 /\ UNCHANGED <<version, blankRow>>
          /\ summary' = recomputeSummary(rows', header')
      BY <2>2 DEF read, RepairedSummary
    <3>2. /\ rows' \in Seq(LogRow) /\ Len(rows') = l - 1
          /\ \A i \in 1..(l - 1) : rows'[i] = rows[i]
      <4>1. l - 1 \in 0..n /\ 1 \in 1..(n + 1) BY <1>2, <1>3, <2>2
      <4> QED BY <4>1, <3>1, <1>2, SubSeqProperties
    <3>3. header \in Nat
      <4>1. header = NoRow => n = 0 BY <1>1, <1>2 DEF SummaryFollows, StorageFits
      <4> QED BY <4>1, <1>1, <1>2, <1>3, <2>2 DEF LogTypeOK
    <3>4. header' \in Nat /\ header' # NoRow BY <3>1, <3>3, NoRowIsNone
    <3>5. summary' \in SummaryRow /\ summary'.rev = header' /\ SummaryFits(header', rows', summary')
      <4>1. PICK h, rs : h = header' /\ rs = rows' OBVIOUS
      <4>2. h \in Int /\ rs \in Seq(LogRow) BY <4>1, <3>2, <3>4
      <4>3. recomputeSummary(rs, h) \in SummaryRow /\ recomputeSummary(rs, h).rev = h
            /\ SummaryFits(h, rs, recomputeSummary(rs, h))
        BY ONLY <4>2, Recomputed
      <4> QED BY <4>1, <4>3, <3>1
    <3>6. summary' # NoRow /\ version' = "current" /\ blankRow' \in BOOLEAN
      BY <3>1, <3>5, <1>1, NoRowIsNone DEF SummaryFollows, StorageFits, LogTypeOK
    <3>7. StorageTyped' /\ SummaryFollows'
      BY <3>2, <3>4, <3>5, <3>6 DEF StorageTyped, SummaryFollows, StorageFits
    <3>8. l - 1 <= n /\ l - 1 \in Nat BY <1>2, <1>3, <2>2
    <3> QED BY <3>2, <3>7, <3>8, <2>2
  <2> QED BY <2>1, <2>2
<1>5. LogTypeOK' BY <1>1, <1>4 DEF LogTypeOK, StorageTyped
<1>6. Line' = Ids(rows') /\ Len(Ids(rows')) = Len(rows') /\ \A i \in 1..Len(rows') : Ids(rows')[i] = rows'[i].id
  <2>1. <<>> \in Seq(BufferedEvent) BY EmptySeq
  <2>2. LineOf(rows', <<>>, <<>>) = Ids(rows') BY <2>1, <1>4, LineParts
  <2>3. Len(Ids(rows')) = Len(rows') /\ \A i \in 1..Len(rows') : Ids(rows')[i] = rows'[i].id
    BY <2>1, <1>4, LineIs
  <2> QED BY <2>2, <2>3, <1>1, <1>2 DEF Line
<1>7. LineInOrder'
  <2>1. born \in Nat /\ InOrder(Ids(rows), born) BY <1>1, <1>2 DEF LogInv, LineInOrder, LogTypeOK
  <2>2. /\ Len(Ids(rows)) \in Nat /\ Len(Ids(rows')) \in Nat /\ Len(Ids(rows')) <= Len(Ids(rows))
    BY <1>2, <1>4, <1>6
  <2>3. ASSUME NEW i \in 1..Len(Ids(rows')) PROVE Ids(rows')[i] = Ids(rows)[i]
    <3>1. i \in 1..Len(rows') /\ i \in 1..n BY <1>2, <1>4, <1>6
    <3> QED BY <3>1, <1>2, <1>4, <1>6
  <2>4. InOrder(Ids(rows'), born) BY <2>1, <2>2, <2>3, LineCut
  <2> QED BY <2>4, <1>1, <1>6 DEF LineInOrder
<1>8. HandleStands'
  <2>1. -1 < Len(rows') BY <1>4
  <2> QED BY <2>1, <1>1, <1>2 DEF HandleStands
<1>9. FlushesStand' BY <1>1, <1>2, CallsAreOver
<1>10. SeqsFollow'
  <2>1. DOMAIN <<>> = {} OBVIOUS
  <2> QED BY <2>1, <1>1, <1>2 DEF SeqsFollow
<1>11. ExportIsASnapshot' BY <1>1 DEF ExportIsASnapshot, LogInv
<1>12. ASSUME export.state = "open"
       PROVE  /\ Len(pin) <= Len(rows')
              /\ \A i \in 1..Len(pin) : pin[i] = rows'[i].id /\ (rows'[i].torn => i <= LastTurnEnd(rows'))
  <2> PICK p : p = Len(pin) OBVIOUS
  <2>1. p \in Nat /\ p <= n BY <1>1, <1>12, LenProperties DEF LogInv, ExportFollows, LogTypeOK
  <2>2. \A i \in 1..t : ~rows[i].torn BY <1>1 DEF HasCorruption
  <2>3. t \in 0..n
    <3>1. n \in Nat /\ Len(rows) = n /\ t = LastTurnEnd(rows) BY <1>2
    <3> QED BY ONLY <3>1, LastTurnEndIs
  <2>4. ASSUME NEW i \in 1..p PROVE pin[i] = rows[i].id /\ ~rows[i].torn
    <3>1. pin[i] = rows[i].id /\ (rows[i].torn => i <= t) BY <1>12 DEF LogInv, ExportFollows
    <3>2. i <= t => i \in 1..t BY <2>3
    <3> QED BY <3>1, <3>2, <2>2
  <2>5. p <= Len(rows')
    <3>1. CASE rows' = rows BY <3>1, <2>1
    <3>2. CASE l # 0 /\ Len(rows') = l - 1
      <4>1. rows[l].torn /\ l \in 1..n BY <3>2, <1>2, <1>3
      <4>2. l \notin 1..p BY <4>1, <2>4
      <4> QED BY <4>1, <4>2, <3>2, <2>1, <1>2
    <3> QED BY <3>1, <3>2, <1>4
  <2>6. ASSUME NEW i \in 1..p PROVE pin[i] = rows'[i].id /\ ~rows'[i].torn
    <3>1. i \in 1..Len(rows') BY <2>1, <2>5, <1>4
    <3> QED BY <3>1, <2>4, <1>4
  <2> QED BY <2>5, <2>6
<1>13. ExportFollows' BY <1>1, <1>12 DEF ExportFollows, LogInv
<1> QED BY <1>4, <1>5, <1>7, <1>8, <1>9, <1>10, <1>11, <1>13 DEF LogInv

\* A sequence of one event, and a sequence that one event joins.
LEMMA OneEvent ==
    ASSUME NEW x \in BufferedEvent, NEW b \in Seq(BufferedEvent)
    PROVE  /\ <<x>> \in Seq(BufferedEvent) /\ Len(<<x>>) = 1 /\ <<x>> # <<>>
           /\ Ids(<<x>>) = <<x.id>>
           /\ Append(b, x) \in Seq(BufferedEvent) /\ Ids(Append(b, x)) = Append(Ids(b), x.id)
           /\ Len(Append(b, x)) = Len(b) + 1
           /\ \A i \in 1..Len(b) : Append(b, x)[i] = b[i]
           /\ Append(b, x)[Len(b) + 1] = x
<1>1. <<x>> \in Seq(BufferedEvent) /\ Len(<<x>>) = 1 /\ <<x>>[1] = x /\ DOMAIN <<x>> = 1..1 /\ <<x>> # <<>>
  OBVIOUS
<1>2. Ids(<<x>>) = <<x.id>>
  <2>1. Ids(<<x>>) = [i \in 1..1 |-> x.id] BY <1>1 DEF Ids
  <2> QED BY <2>1
<1>3. /\ Append(b, x) \in Seq(BufferedEvent) /\ Len(Append(b, x)) = Len(b) + 1
      /\ \A i \in 1..Len(b) : Append(b, x)[i] = b[i]
      /\ Append(b, x)[Len(b) + 1] = x /\ Append(b, x) = b \o <<x>>
  BY AppendProperties, AppendIsConcat
<1>4. /\ Ids(b) \in Seq(1..MaxEvents) /\ x.id \in 1..MaxEvents
      /\ Ids(b \o <<x>>) = Ids(b) \o Ids(<<x>>)
  <2>1. \A r \in BufferedEvent : r.id \in 1..MaxEvents BY DEF BufferedEvent
  <2> QED BY <2>1, <1>1, IdsAre, IdsJoin
<1>5. Ids(b) \o <<x.id>> = Append(Ids(b), x.id) BY <1>4, AppendIsConcat
<1> QED BY <1>1, <1>2, <1>3, <1>4, <1>5

\* An event joins the line at its end.
LEMMA LineGrows ==
    ASSUME NEW rs \in Seq(LogRow), NEW b \in Seq(BufferedEvent), NEW f \in Seq(BufferedEvent),
           NEW x \in BufferedEvent
    PROVE  LineOf(rs, b, Append(f, x)) = Append(LineOf(rs, b, f), x.id)
<1> PICK u, w, y : u = Ids(rs) \o Ids(b) /\ w = Ids(f) /\ y = x.id OBVIOUS
<1>1. /\ u \in Seq(1..MaxEvents) /\ w \in Seq(1..MaxEvents) /\ y \in 1..MaxEvents
      /\ Ids(Append(f, x)) = Append(w, y)
  <2>1. Ids(rs) \in Seq(1..MaxEvents) /\ Ids(b) \in Seq(1..MaxEvents) /\ Ids(f) \in Seq(1..MaxEvents)
    BY LineIs
  <2>2. Ids(rs) \o Ids(b) \in Seq(1..MaxEvents) BY ONLY <2>1, ConcatProperties
  <2>3. x.id \in 1..MaxEvents BY DEF BufferedEvent
  <2>4. Ids(Append(f, x)) = Append(Ids(f), x.id) BY OneEvent
  <2> QED BY <2>1, <2>2, <2>3, <2>4
<1>2. u \o Append(w, y) = Append(u \o w, y)
  <2>1. Append(w, y) = w \o <<y>> /\ <<y>> \in Seq(1..MaxEvents) BY ONLY <1>1, AppendIsConcat
  <2>2. u \o w \in Seq(1..MaxEvents) BY ONLY <1>1, ConcatProperties
  <2>3. Append(u \o w, y) = (u \o w) \o <<y>> BY ONLY <1>1, <2>2, AppendIsConcat
  <2>4. u \o (w \o <<y>>) = (u \o w) \o <<y>> BY ONLY <1>1, <2>1, ConcatAssociative
  <2> QED BY <2>1, <2>3, <2>4
<1> QED BY <1>1, <1>2 DEF LineOf

\* The line in order after an event joined it, and nobody lost.
LEMMA LineJoins ==
    ASSUME LogTypeOK, LineInOrder, Line' = Append(Line, born + 1), born' = born + 1
    PROVE  LineInOrder' /\ ToSet(Line) \subseteq ToSet(Line)'
<1>1. Line \in Seq(1..MaxEvents) /\ born \in Nat /\ InOrder(Line, born) /\ MaxEvents \in Nat
  <2>1. rows \in Seq(LogRow) /\ drain.batch \in Seq(BufferedEvent) /\ buffer \in Seq(BufferedEvent)
    BY DEF LogTypeOK
  <2> QED BY <2>1, LineIs, LogAssumption DEF Line, LineInOrder, LogTypeOK
<1> PICK l : l = Line OBVIOUS
<1>2. l \in Seq(Nat)
  <2>1. \A i \in 1..MaxEvents : i \in Nat BY <1>1
  <2>2. l \in [1..Len(l) -> 1..MaxEvents] /\ Len(l) \in Nat BY <1>1, LenProperties
  <2>3. l \in [1..Len(l) -> Nat] BY <2>1, <2>2
  <2> QED BY <2>2, <2>3, IsASeq
<1>3. InOrder(Append(l, born + 1), born + 1) BY <1>1, <1>2, LineJoined
<1>4. ToSet(l) \subseteq ToSet(Append(l, born + 1))
  <2> PICK t, n : t = Append(l, born + 1) /\ n = Len(l) OBVIOUS
  <2>1. /\ n \in Nat /\ DOMAIN l = 1..n /\ t \in Seq(Nat) /\ Len(t) = n + 1 /\ \A i \in 1..n : t[i] = l[i]
    <3>1. born + 1 \in Nat BY <1>1
    <3> QED BY <3>1, <1>2, AppendProperties, LenProperties
  <2>2. DOMAIN t = 1..(n + 1) BY <2>1, LenProperties
  <2>3. \A i \in 1..n : i \in 1..(n + 1) BY <2>1
  <2> QED BY <2>1, <2>2, <2>3 DEF ToSet
<1> QED BY <1>3, <1>4 DEF LineInOrder

\* The opener's append: the closers of an interrupted turn, a seed's end.
LEMMA AppendKeeps ==
    ASSUME LogInv, append PROVE LogInv'
<1> PICK k, x, batch :
        /\ k \in Kinds /\ x = [seq |-> Len(rows), id |-> born + 1, kind |-> k] /\ batch = <<x>>
        /\ appendBatch(batch) /\ through' = Len(rows)
  BY DEF append
<1>1. /\ LogTypeOK /\ HandleStands /\ FlushesStand /\ SummaryFollows /\ LineInOrder
      /\ stage = "ready" /\ up /\ born < MaxEvents /\ born' = born + 1 /\ materialized' = TRUE
      /\ UNCHANGED <<up, stage, mem, buffer, drain, closeWaits, call, export, pin, damage>>
      /\ faults' = faults
  BY DEF LogInv, HandleStands, append, exporting, appendBatch
<1>2. /\ mem = <<>> /\ buffer = <<>> /\ drain.phase = "none" /\ drain.batch = <<>>
      /\ Line = Ids(rows) /\ rows \in Seq(LogRow) /\ Len(rows) \in Nat
      /\ Ids(rows) \in Seq(1..MaxEvents)
  BY <1>1, LineOfRows
<1>3. x \in BufferedEvent /\ x.id = born + 1 /\ x.seq = Len(rows) /\ born + 1 \in 1..MaxEvents
  <2>1. born + 1 \in 1..MaxEvents BY <1>1, LogAssumption DEF LogTypeOK
  <2> QED BY <2>1, <1>2 DEF BufferedEvent
<1>4. batch \in Seq(BufferedEvent) /\ Len(batch) = 1 /\ batch # <<>> /\ Ids(batch) = <<born + 1>> /\ batch[1] = x
  BY <1>3, OneEvent, EmptySeq
<1>5. \A i \in 1..Len(batch) : batch[i].seq = Len(rows) + i - 1 BY <1>2, <1>3, <1>4
<1>6. /\ header' \in Nat /\ rows' \in Seq(LogRow) /\ blankRow' \in BOOLEAN
      /\ summary' \in SummaryRow /\ summary'.rev = header'
      /\ summary' = [recomputeSummary(rows', header') EXCEPT !.types = summary'.types]
      /\ summary'.types \in {NoRow, KindsIn(rows')}
      /\ Len(rows') = Len(rows) + Len(batch)
      /\ Ids(rows') = Ids(rows) \o Ids(batch)
      /\ Continues(rows, rows')
      /\ version' = version
  BY <1>1, <1>4, <1>5, Appended
<1>7. SummaryFollows'
  <2>1. header' # NoRow /\ summary' # NoRow /\ version' = "current"
    BY <1>6, <1>1, NoRowIsNone DEF SummaryFollows, StorageFits
  <2> QED BY <2>1, <1>6 DEF SummaryFollows, StorageFits, SummaryFits
<1>8. LogTypeOK'
  <2>1. through' \in Int /\ born' \in 0..MaxEvents BY <1>1, <1>2, <1>3, LogAssumption DEF LogTypeOK
  <2>2. StorageTyped' BY <1>1, <1>6 DEF StorageTyped, LogTypeOK
  <2> QED BY <2>1, <2>2, <1>1 DEF LogTypeOK, StorageTyped
<1>9. Line' = Append(Line, born + 1)
  <2>1. <<>> \in Seq(BufferedEvent) BY EmptySeq
  <2>2. LineOf(rows', <<>>, <<>>) = Ids(rows') BY <2>1, <1>6, LineParts
  <2>3. Ids(rows) \o <<born + 1>> = Append(Ids(rows), born + 1) BY <1>2, <1>3, AppendIsConcat
  <2> QED BY <2>2, <2>3, <1>1, <1>2, <1>4, <1>6 DEF Line
<1>10. LineInOrder' BY <1>1, <1>9, LineJoins
<1>11. HandleStands'
  <2>1. Len(rows) < Len(rows') BY <1>2, <1>4, <1>6
  <2> QED BY <2>1, <1>1, <1>2 DEF HandleStands
<1>12. FlushesStand' BY <1>1, <1>2, CallsAreOver
<1>13. SeqsFollow'
  <2>1. DOMAIN <<>> = {} OBVIOUS
  <2> QED BY <2>1, <1>1, <1>2 DEF SeqsFollow
<1>14. ExportFollows' /\ ExportIsASnapshot'
  <2>1. exporting' = exporting BY <1>1 DEF exporting
  <2> QED BY <2>1, <1>1, <1>6, ExportKept DEF LogInv
<1> QED BY <1>7, <1>8, <1>10, <1>11, <1>12, <1>13, <1>14 DEF LogInv

\* A session goes live with the events of its log.
LEMMA AttachKeeps ==
    ASSUME LogInv, Attach PROVE LogInv'
<1>1. /\ LogTypeOK /\ HandleStands /\ FlushesStand /\ SummaryFollows /\ SeqsFollow /\ LineInOrder
      /\ stage = "ready" /\ stage' = "live" /\ up /\ through < Len(rows)
      /\ UNCHANGED <<header, version, blankRow, rows, summary, up, materialized, through, buffer, drain,
                     faults, closeWaits, call, export, pin, born, damage>>
  BY DEF LogInv, HandleStands, Attach, tables, draining, exporting
<1>2. /\ buffer = <<>> /\ drain.phase = "none" /\ Line = Ids(rows) /\ Ids(rows) \in Seq(1..MaxEvents)
      /\ Len(Ids(rows)) = Len(rows)
  BY <1>1, LineOfRows
<1>3. mem' = Ids(rows) BY DEF Attach, Ids
<1>4. Line' = Line BY <1>1, LineUntouched
<1>5. LogTypeOK' BY <1>1, <1>2, <1>3 DEF LogTypeOK
<1>6. LineInOrder' BY <1>1, <1>4 DEF LineInOrder
<1>7. HandleStands' BY <1>1, <1>2, <1>3, <1>4 DEF HandleStands
<1>8. FlushesStand' BY <1>1, <1>2, CallsAreOver
<1>9. SummaryFollows' /\ SeqsFollow' BY <1>1 DEF SummaryFollows, SeqsFollow
<1>10. ExportFollows' /\ ExportIsASnapshot'
  <2>1. exporting' = exporting BY <1>1 DEF exporting
  <2> QED BY <2>1, <1>1, ExportStays DEF LogInv
<1> QED BY <1>5, <1>6, <1>7, <1>8, <1>9, <1>10 DEF LogInv

\* A live session emits an event: it joins the line through the buffer.
LEMMA EmitKeeps ==
    ASSUME LogInv, Emit PROVE LogInv' /\ Line' = Append(Line, born + 1)
<1>1. /\ LogTypeOK /\ HandleStands /\ FlushesStand /\ SummaryFollows /\ SeqsFollow /\ LineInOrder
      /\ stage = "live" /\ up /\ mem = Line /\ through < Len(mem) /\ born < MaxEvents
      /\ born' = born + 1 /\ mem' = Append(mem, born + 1)
      /\ UNCHANGED <<header, version, blankRow, rows, summary, up, stage, materialized, through, drain,
                     faults, closeWaits, call, export, pin, damage>>
  BY DEF LogInv, HandleStands, Emit, tables, exporting
<1>2. /\ rows \in Seq(LogRow) /\ buffer \in Seq(BufferedEvent) /\ drain.batch \in Seq(BufferedEvent)
      /\ Len(rows) \in Nat /\ Len(buffer) \in Nat /\ Len(drain.batch) \in Nat /\ through \in Int
  BY <1>1, LenProperties DEF LogTypeOK
<1>3. Len(mem) = Len(rows) + Len(drain.batch) + Len(buffer) /\ mem \in Seq(1..MaxEvents)
  BY <1>1, <1>2, LineIs DEF Line, LogTypeOK
<1>4. PICK k, x : /\ k \in Kinds /\ x = [seq |-> Len(mem), id |-> born + 1, kind |-> k]
                  /\ buffer' = Append(buffer, x)
  <2>1. ~(Len(mem) <= through) BY <1>1, <1>2, <1>3
  <2> QED BY <2>1 DEF Emit
<1>5. x \in BufferedEvent /\ x.id = born + 1 /\ x.seq = Len(mem) /\ born + 1 \in 1..MaxEvents
  <2>1. born + 1 \in 1..MaxEvents BY <1>1, LogAssumption DEF LogTypeOK
  <2>2. Len(mem) \in Nat BY <1>2, <1>3
  <2> QED BY <2>1, <2>2, <1>4 DEF BufferedEvent
<1>6. /\ buffer' \in Seq(BufferedEvent) /\ Len(buffer') = Len(buffer) + 1
      /\ \A i \in 1..Len(buffer) : buffer'[i] = buffer[i]
      /\ buffer'[Len(buffer) + 1] = x
  BY <1>2, <1>4, <1>5, OneEvent
<1>7. Line' = Append(Line, born + 1) BY <1>1, <1>2, <1>4, <1>5, LineGrows DEF Line
<1>8. /\ mem' \in Seq(1..MaxEvents) /\ Len(mem') = Len(mem) + 1
  BY <1>1, <1>3, <1>5, AppendProperties
<1>9. LogTypeOK' BY <1>1, <1>5, <1>6, <1>8 DEF LogTypeOK
<1>10. LineInOrder' /\ ToSet(Line) \subseteq ToSet(Line)' BY <1>1, <1>7, LineJoins
<1>11. HandleStands'
  <2>1. through < Len(mem') BY <1>1, <1>2, <1>3, <1>8
  <2> QED BY <2>1, <1>1, <1>7 DEF HandleStands
<1>12. FlushesStand'
  <2>1. ToSet(Ids(rows)) \subseteq ToSet(Ids(rows))' BY <1>1 DEF Ids
  <2> QED BY <2>1, <1>1, <1>10, CallsMoveOn
<1>13. SummaryFollows' BY <1>1 DEF SummaryFollows
<1>14. SeqsFollow'
  <2>1. DOMAIN buffer' = 1..(Len(buffer) + 1) /\ DOMAIN buffer = 1..Len(buffer)
    BY <1>2, <1>6, LenProperties
  <2>2. ASSUME NEW i \in 1..(Len(buffer) + 1)
        PROVE  buffer'[i].seq = Len(rows) + Len(drain.batch) + i - 1
    <3>1. CASE i \in 1..Len(buffer) BY <3>1, <2>1, <1>1, <1>6 DEF SeqsFollow
    <3>2. CASE i = Len(buffer) + 1 BY <3>2, <1>2, <1>3, <1>5, <1>6
    <3> QED BY <3>1, <3>2, <1>2
  <2> QED BY <2>1, <2>2, <1>1 DEF SeqsFollow
<1>15. ExportFollows' /\ ExportIsASnapshot'
  <2>1. exporting' = exporting BY <1>1 DEF exporting
  <2> QED BY <2>1, <1>1, ExportStays DEF LogInv
<1> QED BY <1>7, <1>9, <1>10, <1>11, <1>12, <1>13, <1>14, <1>15 DEF LogInv

----------------------------------------
(* The drain, the flushes and the end of a handle. *)

\* Whatever keeps the line, the summary and the numbers keeps the rest that
\* is neither the handle's nor a flush's.
LEMMA WriteStep ==
    ASSUME LogInv, WriteKeeps, UNCHANGED <<up, exporting, born>>
    PROVE  /\ LineInOrder' /\ SummaryFollows' /\ SeqsFollow' /\ ExportFollows' /\ ExportIsASnapshot'
           /\ ToSet(Line) \subseteq ToSet(Line)' /\ ToSet(Ids(rows)) \subseteq ToSet(Ids(rows))'
           /\ drain' \in [phase : {"none", "appended", "rejected", "exited", "threw"}, batch : Seq(BufferedEvent)]
<1>1. LineInOrder' /\ ToSet(Line) \subseteq ToSet(Line)' BY DEF LogInv, LineInOrder, WriteKeeps
<1>2. ExportFollows' /\ ExportIsASnapshot' BY ExportKept DEF LogInv, WriteKeeps, StorageTyped
<1>3. drain' \in [phase : {"none", "appended", "rejected", "exited", "threw"}, batch : Seq(BufferedEvent)]
  <2>1. DrainTyped' BY DEF WriteKeeps
  <2> PICK p, b : p = drain'.phase /\ b = drain'.batch OBVIOUS
  <2>2. drain' = [phase |-> p, batch |-> b] /\ p \in Phases /\ b \in Seq(BufferedEvent)
    BY <2>1 DEF DrainTyped
  <2> QED BY ONLY <2>2 DEF Phases
<1>4. ToSet(Ids(rows)) \subseteq ToSet(Ids(rows'))
  <2>1. rows \in Seq(LogRow) /\ rows' \in Seq(LogRow) /\ Continues(rows, rows')
    BY DEF LogInv, LogTypeOK, WriteKeeps, StorageTyped
  <2>2. Len(rows) <= Len(rows') /\ Len(rows) \in Nat /\ Len(rows') \in Nat
        /\ \A i \in 1..Len(rows) : rows'[i] = rows[i]
    BY <2>1, LenProperties DEF Continues
  <2>3. DOMAIN rows = 1..Len(rows) /\ DOMAIN rows' = 1..Len(rows') BY <2>1, LenProperties
  <2>4. \A i \in 1..Len(rows) : i \in 1..Len(rows') BY <2>2
  <2> QED BY <2>2, <2>3, <2>4 DEF ToSet, Ids
<1>5. ToSet(Ids(rows)) \subseteq ToSet(Ids(rows))' BY <1>4 DEF Ids
<1> QED BY <1>1, <1>2, <1>3, <1>5 DEF WriteKeeps

\* The drain goes on, stops, or gives its batch back to the buffer.
LEMMA DrainGoesOn ==
    ASSUME LogInv, DrainResumes
    PROVE  /\ WriteKeeps /\ UNCHANGED <<up, stage, through, mem, closeWaits, call, exporting, born, damage>>
           /\ up /\ drain.phase \in {"appended", "rejected"} /\ drain'.phase # "none"
           /\ drain'.phase = "exited" => UNCHANGED <<rows, buffer>> /\ Line = Ids(rows)
<1>1. /\ LogTypeOK /\ HandleStands /\ SummaryFollows /\ SeqsFollow
      /\ drain.phase \in {"appended", "rejected"}
      /\ UNCHANGED <<up, stage, through, mem, closeWaits, call, exporting, born, damage>>
  BY DEF LogInv, DrainResumes
<1>2. up
  <2>1. "appended" # "none" /\ "rejected" # "none" OBVIOUS
  <2> QED BY <2>1, <1>1 DEF HandleStands
<1>3. drain.phase # "rejected" => drain.batch = <<>> BY <1>1 DEF HandleStands
<1>4. rows \in Seq(LogRow) /\ buffer \in Seq(BufferedEvent) /\ drain.batch \in Seq(BufferedEvent)
      /\ <<>> \in Seq(BufferedEvent)
  BY <1>1, EmptySeq DEF LogTypeOK
<1>5. CASE drain.phase = "appended" /\ buffer # <<>> /\ TakeBatch
  <2>1. WriteKeeps /\ drain'.phase \in {"appended", "rejected"}
    BY <1>5, <1>1, <1>2, <1>3, BatchTaken
  <2> QED BY <2>1, <1>1, <1>2
<1>6. CASE /\ drain.phase = "appended" /\ buffer = <<>> /\ drain' = [drain EXCEPT !.phase = "exited"]
           /\ UNCHANGED <<tables, buffer, faults>>
  <2>1. UNCHANGED <<header, version, blankRow, rows, summary, buffer>> BY <1>6 DEF tables
  <2>2. drain.batch = <<>> /\ drain'.batch = <<>> /\ drain'.phase = "exited"
        /\ drain' = [phase |-> "exited", batch |-> <<>>]
    BY <1>3, <1>6, <1>1 DEF LogTypeOK
  <2>3. Line' = Line BY <2>1, <2>2, LineUntouched
  <2>4. Line = Ids(rows) BY <2>2, <1>4, <1>6, LineParts DEF Line
  <2>5. StorageTyped' /\ DrainTyped'
    BY <2>1, <2>2, <1>1, <1>4 DEF StorageTyped, DrainTyped, Phases, LogTypeOK
  <2>6. SummaryFollows' /\ SeqsFollow' BY <2>1, <2>2, <1>1 DEF SummaryFollows, SeqsFollow
  <2>7. Continues(rows, rows') BY <2>1, <1>4, ContinuesItself
  <2> QED BY <2>1, <2>2, <2>3, <2>4, <2>5, <2>6, <2>7, <1>1, <1>2 DEF WriteKeeps
<1>7. CASE /\ drain.phase = "rejected" /\ drain' = [phase |-> "threw", batch |-> <<>>]
           /\ buffer' = drain.batch \o buffer /\ UNCHANGED <<tables, faults>>
  <2>1. UNCHANGED <<header, version, blankRow, rows, summary>> BY <1>7 DEF tables
  <2>2. drain'.batch = <<>> /\ drain'.phase = "threw" BY <1>7
  <2> PICK b, f, n, m, k : b = drain.batch /\ f = buffer /\ n = Len(b) /\ m = Len(f) /\ k = Len(rows)
    OBVIOUS
  <2>3. /\ buffer' \in Seq(BufferedEvent) /\ Len(buffer') = n + m /\ n \in Nat /\ m \in Nat /\ k \in Nat
        /\ \A i \in 1..n + m : buffer'[i] = IF i <= n THEN b[i] ELSE f[i - n]
    <3>1. b \in Seq(BufferedEvent) /\ f \in Seq(BufferedEvent) BY <1>4
    <3>2. /\ b \o f \in Seq(BufferedEvent) /\ Len(b \o f) = Len(b) + Len(f)
          /\ \A i \in 1..Len(b) + Len(f) : (b \o f)[i] = IF i <= Len(b) THEN b[i] ELSE f[i - Len(b)]
      BY ONLY <3>1, ConcatProperties
    <3>3. n \in Nat /\ m \in Nat /\ k \in Nat BY <1>4, LenProperties
    <3> QED BY <3>2, <3>3, <1>7
  <2>4. Line' = Line
    <3>1. LineOf(rows, <<>>, buffer') = Ids(rows) \o Ids(buffer') BY <2>3, <1>4, LineParts
    <3>2. Line = Ids(rows) \o Ids(drain.batch \o buffer) BY <1>4, LineParts DEF Line
    <3> QED BY <3>1, <3>2, <2>1, <2>2, <1>7 DEF Line
  <2>5. StorageTyped' /\ DrainTyped'
    BY <2>1, <2>2, <2>3, <1>1, <1>4, <1>7 DEF StorageTyped, DrainTyped, Phases, LogTypeOK
  <2>6. SummaryFollows' BY <2>1, <1>1 DEF SummaryFollows
  <2>7. SeqsFollow'
    <3>1. DOMAIN b = 1..n /\ DOMAIN f = 1..m /\ DOMAIN buffer' = 1..(n + m) /\ Len(<<>>) = 0 /\ DOMAIN <<>> = {}
      BY <2>3, <1>4, LenProperties
    <3>2. (\A i \in 1..n : b[i].seq = k + i - 1) /\ \A i \in 1..m : f[i].seq = k + n + i - 1
      BY <3>1, <1>1 DEF SeqsFollow
    <3>3. ASSUME NEW i \in 1..(n + m) PROVE buffer'[i].seq = k + 0 + i - 1
      <4>1. CASE i <= n
        <5>1. i \in 1..n /\ buffer'[i] = b[i] BY <4>1, <2>3
        <5> QED BY <5>1, <3>2, <2>3
      <4>2. CASE ~(i <= n)
        <5>1. i - n \in 1..m /\ buffer'[i] = f[i - n] BY <4>2, <2>3
        <5>2. f[i - n].seq = k + n + (i - n) - 1 BY <5>1, <3>2
        <5>3. n \in Int /\ k \in Int /\ i \in Int BY <2>3
        <5>4. k + n + (i - n) - 1 = k + 0 + i - 1 BY ONLY <5>3
        <5> QED BY <5>1, <5>2, <5>4
      <4> QED BY <4>1, <4>2
    <3> QED BY <3>1, <3>3, <2>1, <2>2 DEF SeqsFollow
  <2>8. Continues(rows, rows') BY <2>1, <1>4, ContinuesItself
  <2> QED BY <2>1, <2>2, <2>4, <2>5, <2>6, <2>7, <2>8, <1>1, <1>2, <1>7 DEF WriteKeeps
<1> QED BY <1>5, <1>6, <1>7 DEF DrainResumes

\* The same step keeps the invariant: a drain that stops has written it all.
LEMMA ResumeKeeps ==
    ASSUME LogInv, DrainResumes PROVE LogInv'
<1>1. /\ WriteKeeps /\ UNCHANGED <<up, stage, through, mem, closeWaits, call, exporting, born, damage>>
      /\ up /\ drain.phase \in {"appended", "rejected"} /\ drain'.phase # "none"
      /\ drain'.phase = "exited" => UNCHANGED <<rows, buffer>> /\ Line = Ids(rows)
  BY DrainGoesOn
<1>2. LogTypeOK /\ HandleStands /\ FlushesStand /\ drain.phase \notin {"none", "exited"}
  BY <1>1 DEF LogInv
<1>3. /\ LineInOrder' /\ SummaryFollows' /\ SeqsFollow' /\ ExportFollows' /\ ExportIsASnapshot'
      /\ ToSet(Line) \subseteq ToSet(Line)' /\ ToSet(Ids(rows)) \subseteq ToSet(Ids(rows))'
      /\ drain' \in [phase : {"none", "appended", "rejected", "exited", "threw"}, batch : Seq(BufferedEvent)]
  BY <1>1, WriteStep
<1>4. StorageTyped' /\ DrainTyped' /\ Line' = Line /\ (drain'.phase # "rejected" => drain'.batch = <<>>)
  BY <1>1 DEF WriteKeeps
<1>5. LogTypeOK'
  <2>1. materialized' \in BOOLEAN BY <1>2 DEF DrainResumes, LogTypeOK
  <2> QED BY <2>1, <1>1, <1>2, <1>3, <1>4 DEF LogTypeOK, StorageTyped, DrainTyped, exporting
<1>6. HandleStands' BY <1>1, <1>2, <1>4 DEF HandleStands
<1>7. FlushesStand'
  <2> SUFFICES ASSUME NEW c \in Callers, call[c] # NoRow PROVE FlushStands(call[c])'
    BY <1>1 DEF FlushesStand
  <2>1. FlushStands(call[c]) BY <1>2 DEF FlushesStand
  <2>2. CASE drain'.phase # "exited" BY <2>1, <2>2, <1>1, <1>3 DEF FlushStands
  <2>3. CASE drain'.phase = "exited"
    <3>1. ToSet(Line)' = ToSet(Line) /\ ToSet(Line) = ToSet(Ids(rows)) /\ ToSet(Ids(rows))' = ToSet(Ids(rows))
      BY <2>3, <1>1, <1>4 DEF Ids
    <3> QED BY <2>1, <3>1, <1>1 DEF FlushStands
  <2> QED BY <2>2, <2>3
<1> QED BY <1>3, <1>5, <1>6, <1>7 DEF LogInv

\* What has to be shown of the flushes after a step.
LEMMA FlushesStandAfter ==
    ASSUME \A c \in Callers : \A h : h = call'[c] /\ h # NoRow => FlushStands(h)'
    PROVE  FlushesStand'
BY DEF FlushesStand, FlushStands

\* The drain is over: whoever awaited it goes on.
LEMMA DrainEndKeeps ==
    ASSUME LogInv, DrainEnds PROVE LogInv'
<1>1. /\ LogTypeOK /\ HandleStands /\ FlushesStand /\ SummaryFollows /\ SeqsFollow /\ LineInOrder
      /\ drain.phase \in {"exited", "threw"} /\ drain' = [phase |-> "none", batch |-> <<>>]
      /\ closeWaits' = FALSE
      /\ UNCHANGED <<header, version, blankRow, rows, summary, up, stage, materialized, buffer, through, mem,
                     export, pin, faults, born, damage>>
  BY DEF LogInv, DrainEnds, tables, exporting
<1>2. drain.batch = <<>> /\ drain'.batch = <<>> /\ drain'.phase = "none" BY <1>1 DEF HandleStands
<1>3. Line' = Line /\ Ids(rows)' = Ids(rows) BY <1>1, <1>2, LineUntouched
<1>4. ASSUME NEW c \in Callers
      PROVE  /\ call[c] = NoRow => call'[c] = NoRow
             /\ call[c] # NoRow => /\ call'[c] \in FlushCall /\ call'[c] # NoRow
                                   /\ call'[c].at = call[c].at /\ call'[c].owed = call[c].owed
                                   /\ call'[c].st \in {"ok", "err"}
  <2>1. call'[c] = IF call[c] # NoRow /\ call[c].st = "waiting"
                      THEN [call[c] EXCEPT !.st = IF drain.phase = "exited" THEN "ok" ELSE "err"]
                      ELSE call[c]
    BY DEF DrainEnds
  <2>2. CASE call[c] = NoRow BY <2>1, <2>2
  <2>3. CASE call[c] # NoRow
    <3>1. call[c] \in FlushCall BY <2>3, <1>1 DEF LogTypeOK
    <3>2. PICK st \in {"ok", "err"}, f \in FlushCall : f = call[c] /\
              call'[c] = IF f.st = "waiting" THEN [f EXCEPT !.st = st] ELSE f
      BY <2>1, <2>3, <3>1
    <3>3. PICK g : g = IF f.st = "waiting" THEN [f EXCEPT !.st = st] ELSE f OBVIOUS
    <3>4. g \in FlushCall /\ g.at = f.at /\ g.owed = f.owed /\ g.st \in {"ok", "err"}
      BY <3>2, <3>3 DEF FlushCall
    <3>5. g # NoRow BY <3>4, NoRowIsNone
    <3> QED BY <2>3, <3>2, <3>3, <3>4, <3>5
  <2> QED BY <2>2, <2>3
<1>5. LogTypeOK'
  <2>1. call' \in [Callers -> FlushCall \cup {NoRow}] BY <1>4, <1>1 DEF DrainEnds, LogTypeOK
  <2>2. drain' \in [phase : {"none", "appended", "rejected", "exited", "threw"}, batch : Seq(BufferedEvent)]
    BY <1>1, EmptySeq
  <2> QED BY <2>1, <2>2, <1>1, ZenonT(60) DEF LogTypeOK
<1>6. LineInOrder' BY <1>1, <1>3 DEF LineInOrder
<1>7. HandleStands' BY <1>1, <1>2, <1>3 DEF HandleStands
<1>8. FlushesStand'
  <2> SUFFICES ASSUME NEW c \in Callers, NEW h, h = call'[c], h # NoRow PROVE FlushStands(h)'
    BY FlushesStandAfter
  <2>1. call[c] # NoRow /\ FlushStands(call[c]) BY <1>1, <1>4 DEF FlushesStand
  <2>2. h.at = call[c].at /\ h.owed = call[c].owed /\ h.st # "waiting" BY <2>1, <1>4
  <2> QED BY <2>1, <2>2, <1>1, <1>2, <1>3 DEF FlushStands
<1>9. SummaryFollows' /\ SeqsFollow' BY <1>1, <1>2 DEF SummaryFollows, SeqsFollow
<1>10. ExportFollows' /\ ExportIsASnapshot'
  <2>1. exporting' = exporting BY <1>1 DEF exporting
  <2> QED BY <2>1, <1>1, ExportStays DEF LogInv
<1> QED BY <1>5, <1>6, <1>7, <1>8, <1>9, <1>10 DEF LogInv

\* A step of a flush or of close(), which may start a drain.
LEMMA DrainStep ==
    ASSUME LogInv, up, UNCHANGED <<up, materialized, through, mem, exporting, born, damage>>,
           NEW st, drainLiveBuffer(st),
           stage' \in {"opened", "ready", "live", "closing"}, closeWaits' \in BOOLEAN,
           call' \in [Callers -> FlushCall \cup {NoRow}]
    PROVE  /\ LogTypeOK' /\ LineInOrder' /\ SummaryFollows' /\ SeqsFollow' /\ ExportFollows' /\ ExportIsASnapshot'
           /\ Line' = Line /\ ToSet(Line) \subseteq ToSet(Line)' /\ ToSet(Ids(rows)) \subseteq ToSet(Ids(rows))'
           /\ drain'.phase # "rejected" => drain'.batch = <<>>
           /\ st \in {"waiting", "ok"} /\ (st = "waiting" <=> drain'.phase # "none")
           /\ st = "ok" => drain.phase = "none" /\ buffer = <<>> /\ UNCHANGED <<rows, buffer, drain>>
           /\ drain.phase # "none" => UNCHANGED <<rows, buffer, drain>>
           /\ drain'.phase = "exited" => drain.phase # "none"
<1>1. LogTypeOK /\ SummaryFollows /\ SeqsFollow /\ (drain.phase # "rejected" => drain.batch = <<>>)
  BY DEF LogInv, HandleStands
<1>2. /\ WriteKeeps /\ st \in {"waiting", "ok"}
      /\ st = "waiting" <=> drain'.phase # "none"
      /\ st = "ok" => drain.phase = "none" /\ buffer = <<>> /\ UNCHANGED <<rows, buffer, drain>>
      /\ drain.phase # "none" => UNCHANGED <<rows, buffer, drain>>
      /\ drain'.phase = "exited" => drain.phase # "none"
  BY <1>1, Drained
<1>3. /\ LineInOrder' /\ SummaryFollows' /\ SeqsFollow' /\ ExportFollows' /\ ExportIsASnapshot'
      /\ ToSet(Line) \subseteq ToSet(Line)' /\ ToSet(Ids(rows)) \subseteq ToSet(Ids(rows))'
      /\ drain' \in [phase : {"none", "appended", "rejected", "exited", "threw"}, batch : Seq(BufferedEvent)]
  BY <1>2, WriteStep
<1>4. StorageTyped' /\ DrainTyped' /\ Line' = Line /\ (drain'.phase # "rejected" => drain'.batch = <<>>)
  BY <1>2 DEF WriteKeeps
<1>5. LogTypeOK' BY <1>1, <1>3, <1>4 DEF LogTypeOK, StorageTyped, DrainTyped, exporting
<1> QED BY <1>2, <1>3, <1>4, <1>5

\* A flush that stands by stays standing when a drain starts or is joined.
LEMMA FlushStandsBy ==
    ASSUME NEW f, FlushStands(f), stage' = stage \/ f.at # "drain",
           ToSet(Line) \subseteq ToSet(Line)', ToSet(Ids(rows)) \subseteq ToSet(Ids(rows))',
           drain.phase # "none" => drain' = drain, drain'.phase = "exited" => drain.phase # "none"
    PROVE  FlushStands(f)'
BY DEF FlushStands

\* flush: what it owes is what is on the line.
LEMMA FlushKeeps ==
    ASSUME LogInv, NEW d \in Callers, flush(d) PROVE LogInv'
<1>1. /\ LogTypeOK /\ HandleStands /\ FlushesStand /\ stage = "live" /\ up /\ mem = Line
      /\ UNCHANGED <<up, stage, materialized, through, mem, closeWaits, exporting, born, damage>>
  BY DEF LogInv, HandleStands, flush
<1>2. PICK st, f : /\ st \in {"waiting", "ok"} /\ drainLiveBuffer(st)
                   /\ f = [at |-> "drain", st |-> st, owed |-> ToSet(mem)]
                   /\ call' = [call EXCEPT ![d] = f]
  BY DEF flush
<1>3. f \in FlushCall /\ f.at = "drain" /\ f.st = st /\ f.owed = ToSet(Line)
  <2>1. ToSet(mem) \in SUBSET (1..MaxEvents)
    <3>1. mem \in Seq(1..MaxEvents) /\ DOMAIN mem = 1..Len(mem) /\ \A i \in 1..Len(mem) : mem[i] \in 1..MaxEvents
      BY <1>1, LenProperties, ElementOfSeq DEF LogTypeOK
    <3> QED BY <3>1 DEF ToSet
  <2> PICK owed : owed = ToSet(mem) OBVIOUS
  <2>2. f = [at |-> "drain", st |-> st, owed |-> owed] /\ owed \in SUBSET (1..MaxEvents)
    BY <2>1, <1>2
  <2>3. f \in FlushCall /\ f.at = "drain" /\ f.st = st /\ f.owed = owed
    BY ONLY <2>2, <1>2 DEF FlushCall
  <2> QED BY <2>3, <1>1
<1>4. call' \in [Callers -> FlushCall \cup {NoRow}] /\ \A c \in Callers : call'[c] = IF c = d THEN f ELSE call[c]
  BY <1>1, <1>2, <1>3 DEF LogTypeOK
<1>5. /\ LogTypeOK' /\ LineInOrder' /\ SummaryFollows' /\ SeqsFollow' /\ ExportFollows' /\ ExportIsASnapshot'
      /\ Line' = Line /\ ToSet(Line) \subseteq ToSet(Line)' /\ ToSet(Ids(rows)) \subseteq ToSet(Ids(rows))'
      /\ drain'.phase # "rejected" => drain'.batch = <<>>
      /\ st \in {"waiting", "ok"} /\ (st = "waiting" <=> drain'.phase # "none")
      /\ st = "ok" => drain.phase = "none" /\ buffer = <<>> /\ UNCHANGED <<rows, buffer, drain>>
      /\ drain.phase # "none" => UNCHANGED <<rows, buffer, drain>>
      /\ drain'.phase = "exited" => drain.phase # "none"
  <2>1. stage' \in {"opened", "ready", "live", "closing"} /\ closeWaits' \in BOOLEAN
    BY <1>1 DEF LogTypeOK
  <2> QED BY <2>1, <1>1, <1>2, <1>4, DrainStep
<1>6. HandleStands' BY <1>1, <1>5 DEF HandleStands
<1>7. FlushesStand'
  <2> SUFFICES ASSUME NEW c \in Callers, NEW h, h = call'[c], h # NoRow PROVE FlushStands(h)'
    BY FlushesStandAfter
  <2>1. CASE c = d BY <2>1, <1>1, <1>3, <1>4, <1>5 DEF FlushStands
  <2>2. CASE c # d
    <3>1. h = call[c] /\ FlushStands(h) BY <2>2, <1>1, <1>4 DEF FlushesStand
    <3> QED BY <3>1, <1>1, <1>5, FlushStandsBy
  <2> QED BY <2>1, <2>2
<1> QED BY <1>5, <1>6, <1>7 DEF LogInv

\* Its second half, which drains again.
LEMMA FlushGoesOnKeeps ==
    ASSUME LogInv, NEW d \in Callers, FlushGoesOn(d) PROVE LogInv'
<1>1. /\ LogTypeOK /\ HandleStands /\ FlushesStand
      /\ call[d] # NoRow /\ call[d].at = "drain" /\ call[d].st = "ok"
      /\ UNCHANGED <<up, stage, materialized, through, mem, closeWaits, exporting, born, damage>>
  BY DEF LogInv, FlushGoesOn
<1>2. stage = "live" /\ up /\ FlushStands(call[d])
  BY <1>1 DEF FlushesStand, FlushStands, HandleStands
<1>3. PICK st \in {"waiting", "ok"} : drainLiveBuffer(st) /\ call' = [call EXCEPT ![d].at = "flush", ![d].st = st]
  BY DEF FlushGoesOn, SecondDrain
<1>4. PICK f, g : f = call[d] /\ g = [f EXCEPT !.at = "flush", !.st = st] OBVIOUS
<1>5. f \in FlushCall /\ g \in FlushCall /\ g.at = "flush" /\ g.st = st /\ g.owed = f.owed
  <2>1. f \in FlushCall BY <1>1, <1>4 DEF LogTypeOK
  <2> QED BY <2>1, <1>3, <1>4 DEF FlushCall
<1>6. call' \in [Callers -> FlushCall \cup {NoRow}] /\ \A c \in Callers : call'[c] = IF c = d THEN g ELSE call[c]
  <2>1. call' = [call EXCEPT ![d] = g] BY <1>1, <1>3, <1>4, <1>5 DEF LogTypeOK
  <2> QED BY <2>1, <1>1, <1>5 DEF LogTypeOK
<1>7. /\ LogTypeOK' /\ LineInOrder' /\ SummaryFollows' /\ SeqsFollow' /\ ExportFollows' /\ ExportIsASnapshot'
      /\ Line' = Line /\ ToSet(Line) \subseteq ToSet(Line)' /\ ToSet(Ids(rows)) \subseteq ToSet(Ids(rows))'
      /\ drain'.phase # "rejected" => drain'.batch = <<>>
      /\ st \in {"waiting", "ok"} /\ (st = "waiting" <=> drain'.phase # "none")
      /\ st = "ok" => drain.phase = "none" /\ buffer = <<>> /\ UNCHANGED <<rows, buffer, drain>>
      /\ drain.phase # "none" => UNCHANGED <<rows, buffer, drain>>
      /\ drain'.phase = "exited" => drain.phase # "none"
  <2>1. stage' \in {"opened", "ready", "live", "closing"} /\ closeWaits' \in BOOLEAN
    BY <1>1, <1>2 DEF LogTypeOK
  <2> QED BY <2>1, <1>1, <1>2, <1>3, <1>6, DrainStep
<1>8. HandleStands' BY <1>1, <1>2, <1>7 DEF HandleStands
<1>9. FlushesStand'
  <2> SUFFICES ASSUME NEW c \in Callers, NEW h, h = call'[c], h # NoRow PROVE FlushStands(h)'
    BY FlushesStandAfter
  <2>1. CASE c = d
    <3>1. f.owed \subseteq ToSet(Line) /\ (drain.phase = "exited" => f.owed \subseteq ToSet(Ids(rows)))
      BY <1>1, <1>2, <1>4 DEF FlushStands
    <3> QED BY <2>1, <3>1, <1>5, <1>6, <1>7 DEF FlushStands
  <2>2. CASE c # d
    <3>1. h = call[c] /\ FlushStands(h) BY <2>2, <1>1, <1>6 DEF FlushesStand
    <3> QED BY <3>1, <1>1, <1>7, FlushStandsBy
  <2> QED BY <2>1, <2>2
<1> QED BY <1>7, <1>8, <1>9 DEF LogInv

\* A flush returns to its caller.
LEMMA FlushEndsKeeps ==
    ASSUME LogInv, NEW d \in Callers, FlushEnds(d) PROVE LogInv'
<1>1. /\ LogTypeOK /\ HandleStands /\ FlushesStand /\ SummaryFollows /\ SeqsFollow /\ LineInOrder
      /\ call' = [call EXCEPT ![d] = NoRow]
      /\ UNCHANGED <<header, version, blankRow, rows, summary, up, stage, materialized, through, mem,
                     buffer, drain, faults, closeWaits, export, pin, born, damage>>
  BY DEF LogInv, FlushEnds, tables, draining, exporting
<1>2. Line' = Line /\ Ids(rows)' = Ids(rows) BY <1>1, LineUntouched
<1>3. call' \in [Callers -> FlushCall \cup {NoRow}] /\ \A c \in Callers : call'[c] = IF c = d THEN NoRow ELSE call[c]
  BY <1>1 DEF LogTypeOK
<1>4. LogTypeOK' BY <1>1, <1>3 DEF LogTypeOK
<1>5. LineInOrder' /\ HandleStands' /\ SummaryFollows' /\ SeqsFollow'
  BY <1>1, <1>2 DEF LineInOrder, HandleStands, SummaryFollows, SeqsFollow
<1>6. FlushesStand' BY <1>1, <1>2, <1>3 DEF FlushesStand, FlushStands
<1>7. ExportFollows' /\ ExportIsASnapshot'
  <2>1. exporting' = exporting BY <1>1 DEF exporting
  <2> QED BY <2>1, <1>1, ExportStays DEF LogInv
<1> QED BY <1>4, <1>5, <1>6, <1>7 DEF LogInv

\* close() of a handle: nothing more is emitted, and a drain is awaited.
LEMMA CloseKeeps ==
    ASSUME LogInv, close PROVE LogInv'
<1>1. /\ LogTypeOK /\ HandleStands /\ FlushesStand /\ up /\ stage \in {"opened", "ready", "live"}
      /\ stage' = "closing"
      /\ UNCHANGED <<up, materialized, through, mem, exporting, born, damage>>
  BY DEF LogInv, HandleStands, close
<1>2. PICK st \in {"waiting", "ok"} : drainLiveBuffer(st) /\ closeWaits' = (st = "waiting")
  BY DEF close
<1>3. ASSUME NEW c \in Callers
      PROVE  /\ call[c] = NoRow => call'[c] = NoRow
             /\ call[c] # NoRow => /\ call'[c] \in FlushCall
                                   /\ \/ call[c].at # "drain" /\ call'[c] = call[c]
                                      \/ call'[c].at = "closed" /\ call'[c].st = call[c].st
  <2>1. call'[c] = IF call[c] # NoRow /\ call[c].at = "drain" THEN [call[c] EXCEPT !.at = "closed"] ELSE call[c]
    BY DEF close
  <2>2. CASE call[c] = NoRow BY <2>1, <2>2
  <2>3. CASE call[c] # NoRow
    <3>1. PICK f \in FlushCall : f = call[c] BY <2>3, <1>1 DEF LogTypeOK
    <3>2. PICK g : g = IF f.at = "drain" THEN [f EXCEPT !.at = "closed"] ELSE f OBVIOUS
    <3>3. g \in FlushCall /\ ((f.at # "drain" /\ g = f) \/ (g.at = "closed" /\ g.st = f.st))
      BY <3>2 DEF FlushCall
    <3> QED BY <2>1, <2>3, <3>1, <3>2, <3>3
  <2> QED BY <2>2, <2>3
<1>4. call' \in [Callers -> FlushCall \cup {NoRow}] BY <1>3, <1>1 DEF close, LogTypeOK
<1>5. /\ LogTypeOK' /\ LineInOrder' /\ SummaryFollows' /\ SeqsFollow' /\ ExportFollows' /\ ExportIsASnapshot'
      /\ Line' = Line /\ ToSet(Line) \subseteq ToSet(Line)' /\ ToSet(Ids(rows)) \subseteq ToSet(Ids(rows))'
      /\ drain'.phase # "rejected" => drain'.batch = <<>>
      /\ st \in {"waiting", "ok"} /\ (st = "waiting" <=> drain'.phase # "none")
      /\ st = "ok" => drain.phase = "none" /\ buffer = <<>> /\ UNCHANGED <<rows, buffer, drain>>
      /\ drain.phase # "none" => UNCHANGED <<rows, buffer, drain>>
      /\ drain'.phase = "exited" => drain.phase # "none"
  <2>1. stage' \in {"opened", "ready", "live", "closing"} /\ closeWaits' \in BOOLEAN BY <1>1, <1>2
  <2> QED BY <2>1, <1>1, <1>2, <1>4, DrainStep
<1>6. stage # "live" => mem' = <<>> /\ buffer' = <<>> /\ drain'.phase = "none"
  <2>1. stage # "live" => mem = <<>> /\ buffer = <<>> /\ drain.phase = "none"
    BY <1>1 DEF HandleStands
  <2>2. stage # "live" => st = "ok" BY <2>1, <1>2 DEF drainLiveBuffer, JoinDrain, StartDrain
  <2> QED BY <2>1, <2>2, <1>1, <1>5
<1>7. HandleStands'
  <2>1. stage = "live" => mem' = Line' BY <1>1, <1>5 DEF HandleStands
  <2>2. closeWaits' <=> drain'.phase # "none" BY <1>2, <1>5
  <2> QED BY <2>1, <2>2, <1>1, <1>5, <1>6 DEF HandleStands
<1>8. FlushesStand'
  <2> SUFFICES ASSUME NEW c \in Callers, NEW h, h = call'[c], h # NoRow PROVE FlushStands(h)'
    BY FlushesStandAfter
  <2>1. call[c] # NoRow /\ FlushStands(call[c]) /\ h \in FlushCall BY <1>1, <1>3 DEF FlushesStand
  <2>2. CASE call[c].at # "drain" /\ h = call[c] BY <2>1, <2>2, <1>1, <1>5, FlushStandsBy
  <2>3. CASE h.at = "closed" /\ h.st = call[c].st BY <2>1, <2>3, <1>5 DEF FlushStands
  <2> QED BY <1>3, <2>1, <2>2, <2>3
<1> QED BY <1>5, <1>7, <1>8 DEF LogInv

\* The end of close(): what the drain could not write is gone, and so is the
\* header of a session that never got an event.
LEMMA CloseEndKeeps ==
    ASSUME LogInv, closeEnds PROVE LogInv'
<1>1. /\ LogTypeOK /\ HandleStands /\ FlushesStand /\ SummaryFollows
      /\ up /\ stage = "closing" /\ ~closeWaits /\ drain.phase = "none" /\ drain.batch = <<>>
      /\ stage' = "none" /\ mem' = <<>> /\ buffer' = <<>>
      /\ UNCHANGED <<rows, version, blankRow, up, materialized, through, drain, closeWaits, call, export, pin,
                     faults, born, damage>>
  <2>1. UNCHANGED <<rows, version, blankRow>> BY DEF closeEnds, tables
  <2> QED BY <2>1 DEF LogInv, HandleStands, closeEnds, exporting
<1>2. \/ header' = header /\ summary' = summary
      \/ rows = <<>> /\ header' = NoRow /\ summary' = NoRow
  BY DEF closeEnds, tables
<1>3. LogTypeOK'
  <2>1. <<>> \in Seq(1..MaxEvents) /\ <<>> \in Seq(BufferedEvent) BY EmptySeq
  <2> QED BY <2>1, <1>1, <1>2 DEF LogTypeOK
<1>4. LineInOrder' /\ SeqsFollow' BY <1>1, LineFalls
<1>5. HandleStands' BY <1>1 DEF HandleStands
<1>6. FlushesStand'
  <2> SUFFICES ASSUME NEW c \in Callers, NEW h, h = call'[c], h # NoRow PROVE FlushStands(h)'
    BY FlushesStandAfter
  <2>1. h = call[c] /\ FlushStands(h) BY <1>1 DEF FlushesStand
  <2>2. h.at # "drain" /\ h.st # "waiting" BY <2>1, <1>1 DEF FlushStands
  <2> QED BY <2>2, <1>1 DEF FlushStands
<1>7. SummaryFollows' BY <1>1, <1>2 DEF SummaryFollows, StorageFits
<1>8. ExportFollows' /\ ExportIsASnapshot' BY <1>1 DEF LogInv, ExportFollows, ExportIsASnapshot
<1> QED BY <1>3, <1>4, <1>5, <1>6, <1>7, <1>8 DEF LogInv

----------------------------------------
(* Exports. *)

\* What an export pins: a torn row among it lies before an intact turn end.
LEMMA PinnedIs ==
    ASSUME NEW rs \in Seq(LogRow)
    PROVE  /\ PinnedRows(rs) \in Nat /\ PinnedRows(rs) <= Len(rs)
           /\ \A i \in 1..PinnedRows(rs) : rs[i].torn => i <= LastTurnEnd(rs)
<1>1. Len(rs) \in Nat BY LenProperties
<1>2. LastTurnEnd(rs) \in Nat BY <1>1, LastTurnEndIs
<1> DEFINE torn == {i \in (LastTurnEnd(rs) + 1)..Len(rs) : rs[i].torn}
<1>3. PinnedRows(rs) = IF torn = {} THEN Len(rs) ELSE Min(torn) - 1 BY DEF PinnedRows, LastIntact
<1>4. torn # {} => Min(torn) \in torn /\ \A i \in torn : Min(torn) <= i
  <2>1. torn \subseteq Nat BY <1>1, <1>2
  <2> HIDE DEF torn
  <2> QED BY <2>1, MinIs
<1>5. CASE torn = {} BY <1>1, <1>2, <1>3, <1>5
<1>6. CASE torn # {}
  <2>1. PICK m : m = Min(torn) OBVIOUS
  <2>2. m \in (LastTurnEnd(rs) + 1)..Len(rs) /\ PinnedRows(rs) = m - 1
        /\ \A i \in (LastTurnEnd(rs) + 1)..Len(rs) : rs[i].torn => m <= i
    BY <2>1, <1>3, <1>4, <1>6
  <2> QED BY <2>2, <1>1, <1>2
<1> QED BY <1>5, <1>6

\* A segment of a sequence.
LEMMA SegmentIs ==
    ASSUME NEW S, NEW s \in Seq(S), NEW g \in Nat, NEW k \in Nat, k <= Len(s), NEW q, q = SubSeq(s, g + 1, k)
    PROVE  /\ k <= g => q = <<>>
           /\ g <= k => /\ q \in Seq(S) /\ Len(q) = k - g /\ DOMAIN q = 1..(k - g)
                        /\ \A i \in 1..(k - g) : q[i] = s[g + i]
<1>1. g + 1 \in Int /\ k \in Int /\ Len(s) \in Nat /\ \A i \in 1..Len(s) : s[i] \in S
  BY LenProperties, ElementOfSeq
<1>2. \A i \in (g + 1)..k : s[i] \in S BY <1>1
<1>3. CASE k <= g
  <2>1. k < g + 1 BY <1>3
  <2>2. q = <<>> BY <2>1, <1>1, SubSeqEmpty
  <2>3. g <= k => k - g = 0 BY <1>3
  <2>4. <<>> \in Seq(S) /\ Len(<<>>) = 0 /\ DOMAIN <<>> = 1..0 BY EmptySeq
  <2>5. \A i \in 1..0 : FALSE OBVIOUS
  <2> QED BY <2>2, <2>3, <2>4, <2>5
<1>4. CASE ~(k <= g)
  <2>1. /\ SubSeq(s, g + 1, k) \in Seq(S)
        /\ Len(SubSeq(s, g + 1, k)) = IF g + 1 <= k THEN k - (g + 1) + 1 ELSE 0
        /\ \A i \in 1..(k - (g + 1) + 1) : SubSeq(s, g + 1, k)[i] = s[(g + 1) + i - 1]
    BY ONLY <1>1, <1>2, SubSeqProperties
  <2>2. g + 1 <= k /\ k - (g + 1) + 1 = k - g /\ \A i \in 1..(k - g) : (g + 1) + i - 1 = g + i
    BY <1>4
  <2>3. q \in Seq(S) /\ Len(q) = k - g /\ \A i \in 1..(k - g) : q[i] = s[g + i] BY <2>1, <2>2
  <2> QED BY <2>3, <1>4, LenProperties
<1> QED BY <1>3, <1>4

\* A prefix of a sequence.
LEMMA PrefixIs ==
    ASSUME NEW S, NEW s \in Seq(S), NEW k \in Nat, k <= Len(s), NEW q, q = SubSeq(s, 1, k)
    PROVE  q \in Seq(S) /\ Len(q) = k /\ \A i \in 1..k : q[i] = s[i]
<1>1. q = SubSeq(s, 0 + 1, k) /\ 0 \in Nat /\ 0 <= k /\ k - 0 = k /\ \A i \in 1..k : 0 + i = i
  OBVIOUS
<1> PICK z : z = 0 OBVIOUS
<1>2. z \in Nat /\ q = SubSeq(s, z + 1, k) /\ z <= k /\ k - z = k /\ \A i \in 1..k : z + i = i
  BY <1>1
<1>3. q \in Seq(S) /\ Len(q) = k - z /\ \A i \in 1..(k - z) : q[i] = s[z + i]
  BY ONLY <1>2, SegmentIs, s \in Seq(S), k \in Nat, k <= Len(s)
<1> QED BY <1>2, <1>3

\* What agrees with a sequence as far as it goes is a prefix of it.
LEMMA PrefixEquals ==
    ASSUME NEW S, NEW s \in Seq(S), NEW t \in Seq(S), NEW k \in Nat, k <= Len(s), Len(t) = k,
           \A i \in 1..k : t[i] = s[i] PROVE t = SubSeq(s, 1, k)
<1>1. PICK q : q = SubSeq(s, 1, k) OBVIOUS
<1>2. q \in Seq(S) /\ Len(q) = k /\ \A i \in 1..k : q[i] = s[i] BY <1>1, PrefixIs
<1>3. Len(t) = Len(q) /\ \A i \in 1..Len(t) : t[i] = q[i] BY <1>2
<1> QED BY <1>1, <1>2, <1>3, SeqEqual

\* A page continues what was read with the rows that were pinned, or the
\* export fails.
LEMMA PageIs ==
    ASSUME rows \in Seq(LogRow), NEW p \in Seq(1..MaxEvents), Len(p) <= Len(rows),
           \A i \in 1..Len(p) : p[i] = rows[i].id,
           NEW got \in Seq(1..MaxEvents), Len(got) <= Len(p), got = SubSeq(p, 1, Len(got)),
           PageRows \in Nat, ReadPage(got, Len(p))
    PROVE  \/ export' = [state |-> "failed", got |-> <<>>]
           \/ \E m \in 0..Len(p), st \in {"open", "done"} :
                 /\ export' = [state |-> st, got |-> SubSeq(p, 1, m)]
                 /\ st = "done" => m = Len(p)
<1>1. PICK n, k, page, ids :
          /\ n \in 1..PageRows
          /\ k = Min({Len(got) + n, Len(p), Len(rows)})
          /\ page = SubSeq(rows, Len(got) + 1, k)
          /\ ids = got \o [i \in DOMAIN page |-> page[i].id]
          /\ IF page = <<>> \/ \E i \in DOMAIN page : page[i].torn
               THEN export' = [state |-> "failed", got |-> <<>>]
               ELSE export' = [state |-> IF Len(ids) >= Len(p) THEN "done" ELSE "open", got |-> ids]
  BY DEF ReadPage
<1>2. Len(got) \in Nat /\ Len(p) \in Nat /\ Len(rows) \in Nat /\ n \in Nat BY <1>1, LenProperties
<1>3. k \in Nat /\ k <= Len(p) /\ k <= Len(rows)
  <2>1. {Len(got) + n, Len(p), Len(rows)} \subseteq Nat /\ {Len(got) + n, Len(p), Len(rows)} # {}
    BY <1>2
  <2>2. k \in {Len(got) + n, Len(p), Len(rows)} /\ \A i \in {Len(got) + n, Len(p), Len(rows)} : k <= i
    BY <2>1, <1>1, MinIs
  <2> QED BY <2>1, <2>2
<1>4. CASE page = <<>> \/ \E i \in DOMAIN page : page[i].torn BY <1>1, <1>4
<1>5. CASE ~(page = <<>> \/ \E i \in DOMAIN page : page[i].torn)
  <2>1. PICK g \in Nat, l \in Nat : g = Len(got) /\ l = Len(p) BY <1>2
  <2>2. g < k
    <3>1. k <= g => page = <<>> BY <1>1, <1>3, <2>1, SegmentIs
    <3> QED BY <3>1, <1>3, <1>5, <2>1
  <2>3. /\ page \in Seq(LogRow) /\ Len(page) = k - g /\ DOMAIN page = 1..(k - g)
        /\ \A i \in 1..(k - g) : page[i] = rows[g + i]
    <3>1. g \in Nat /\ k \in Nat /\ k <= Len(rows) /\ page = SubSeq(rows, g + 1, k) /\ g <= k
      BY <1>1, <1>3, <2>1, <2>2
    <3> QED BY ONLY <3>1, SegmentIs, rows \in Seq(LogRow), SMTT(30)
  <2>4. PICK tail : tail = [i \in DOMAIN page |-> page[i].id] OBVIOUS
  <2>5. /\ tail \in Seq(1..MaxEvents) /\ Len(tail) = k - g
        /\ \A i \in 1..(k - g) : tail[i] = rows[g + i].id
    <3>1. \A x \in LogRow : x.id \in 1..MaxEvents BY DEF LogRow
    <3>2. /\ Ids(page) \in Seq(1..MaxEvents) /\ Len(Ids(page)) = Len(page)
          /\ \A i \in 1..Len(page) : Ids(page)[i] = page[i].id
      BY ONLY <3>1, <2>3, IdsAre
    <3>3. Ids(page) = tail BY <2>4 DEF Ids
    <3> QED BY <3>2, <3>3, <2>3
  <2>6. k - g \in Nat /\ g + (k - g) = k /\ \A i \in 1..k : i <= g \/ (i - g \in 1..(k - g) /\ g + (i - g) = i)
    BY <2>1, <2>2, <1>3
  <2>7. /\ ids \in Seq(1..MaxEvents) /\ Len(ids) = k
        /\ \A i \in 1..k : ids[i] = IF i <= g THEN got[i] ELSE tail[i - g]
    <3>1. /\ got \o tail \in Seq(1..MaxEvents) /\ Len(got \o tail) = Len(got) + Len(tail)
          /\ \A i \in 1..(Len(got) + Len(tail)) : (got \o tail)[i] = IF i <= Len(got) THEN got[i] ELSE tail[i - Len(got)]
      BY <2>5, ConcatProperties, ZenonT(60)
    <3>2. ids = got \o tail BY <1>1, <2>4
    <3> QED BY <3>1, <3>2, <2>1, <2>5, <2>6
  <2>8. \A i \in 1..g : got[i] = p[i]
    <3>1. got = SubSeq(p, 1, g) /\ g \in Nat /\ g <= Len(p) BY <2>1
    <3> QED BY ONLY <3>1, PrefixIs, p \in Seq(1..MaxEvents)
  <2>9. \A i \in 1..k : ids[i] = p[i]
    <3> SUFFICES ASSUME NEW i \in 1..k PROVE ids[i] = p[i] OBVIOUS
    <3>1. CASE i <= g BY <3>1, <2>7, <2>8, <2>1
    <3>2. CASE ~(i <= g)
      <4>1. ids[i] = tail[i - g] /\ tail[i - g] = rows[i].id BY <3>2, <2>5, <2>6, <2>7
      <4>2. i \in 1..Len(p) BY <1>3, <2>1
      <4> QED BY <4>1, <4>2
    <3> QED BY <3>1, <3>2
  <2>10. ids = SubSeq(p, 1, k)
    <3>1. k \in Nat /\ k <= Len(p) /\ ids \in Seq(1..MaxEvents) /\ Len(ids) = k BY <1>3, <2>7
    <3> QED BY ONLY <3>1, <2>9, PrefixEquals, p \in Seq(1..MaxEvents)
  <2>11. PICK st \in {"open", "done"} : export' = [state |-> st, got |-> SubSeq(p, 1, k)] /\ (st = "done" => k >= Len(p))
    BY <1>1, <1>5, <2>7, <2>10
  <2>12. k \in 0..Len(p) /\ (st = "done" => k = Len(p)) BY <2>11, <1>2, <1>3
  <2>13. export' = [state |-> st, got |-> SubSeq(p, 1, k)] BY <2>11
  <2> QED BY ONLY <2>12, <2>13, st \in {"open", "done"}
<1> QED BY <1>4, <1>5

\* A page of an export: the rows it pinned are those it gives, as far as it got.
LEMMA PageKeeps ==
    ASSUME LogInv, up, NEW p \in Seq(1..MaxEvents), Len(p) <= Len(rows),
           \A i \in 1..Len(p) : p[i] = rows[i].id /\ (rows[i].torn => i <= LastTurnEnd(rows)),
           NEW got \in Seq(1..MaxEvents), Len(got) <= Len(p), got = SubSeq(p, 1, Len(got)),
           ReadPage(got, Len(p)), pin' = IF export'.state = "failed" THEN <<>> ELSE p,
           UNCHANGED <<tables, up, stage, materialized, through, mem, draining, closeWaits, call, born, damage>>
    PROVE  LogInv'
<1>1. /\ LogTypeOK /\ LineInOrder /\ HandleStands /\ FlushesStand /\ SummaryFollows /\ SeqsFollow
      /\ UNCHANGED <<header, version, blankRow, rows, summary, up, stage, materialized, through, mem,
                     buffer, drain, faults, closeWaits, call, born, damage>>
  BY DEF LogInv, tables, draining
<1>2. Line' = Line /\ Ids(rows)' = Ids(rows) BY <1>1, LineUntouched
<1>3. LineInOrder' /\ HandleStands' /\ SummaryFollows' /\ SeqsFollow'
  BY ONLY <1>1, <1>2 DEF LineInOrder, HandleStands, SummaryFollows, SeqsFollow
<1>4. FlushesStand' BY ONLY <1>1, <1>2 DEF FlushesStand, FlushStands
<1>5. /\ export' \in [state : {"no", "open", "done", "failed"}, got : Seq(1..MaxEvents)]
      /\ pin' \in Seq(1..MaxEvents) /\ Len(export'.got) <= Len(pin')
      /\ export'.got = SubSeq(pin', 1, Len(export'.got))
      /\ export'.state = "done" => export'.got = pin'
      /\ export'.state = "open" => pin' = p
  <2>1. \/ export' = [state |-> "failed", got |-> <<>>]
        \/ \E m \in 0..Len(p), st \in {"open", "done"} :
              /\ export' = [state |-> st, got |-> SubSeq(p, 1, m)]
              /\ st = "done" => m = Len(p)
    <3>1. rows \in Seq(LogRow) /\ \A i \in 1..Len(p) : p[i] = rows[i].id BY <1>1 DEF LogTypeOK
    <3>2. PageRows \in Nat BY LogAssumption
    <3> QED BY <3>1, <3>2, PageIs
  <2>2. CASE export' = [state |-> "failed", got |-> <<>>]
    <3>1. <<>> \in Seq(1..MaxEvents) /\ Len(<<>>) = 0 /\ SubSeq(<<>>, 1, 0) = <<>> /\ 0 <= 0
      BY EmptySeq, SubSeqEmpty
    <3>2. pin' = <<>> /\ export'.got = <<>> /\ export'.state = "failed" BY <2>2
    <3> QED BY <3>1, <3>2, <2>2
  <2>3. CASE \E m \in 0..Len(p), st \in {"open", "done"} :
                /\ export' = [state |-> st, got |-> SubSeq(p, 1, m)]
                /\ st = "done" => m = Len(p)
    <3>1. PICK m \in 0..Len(p), st \in {"open", "done"} :
              /\ export' = [state |-> st, got |-> SubSeq(p, 1, m)]
              /\ st = "done" => m = Len(p)
      BY <2>3
    <3>2. Len(p) \in Nat /\ m \in Nat /\ m <= Len(p) BY LenProperties
    <3>3. PICK q : q = SubSeq(p, 1, m) OBVIOUS
    <3>4. q \in Seq(1..MaxEvents) /\ Len(q) = m /\ \A i \in 1..m : q[i] = p[i]
      <4>1. PICK E : E = 1..MaxEvents OBVIOUS
      <4>2. p \in Seq(E) BY <4>1
      <4>3. q \in Seq(E) /\ Len(q) = m /\ \A i \in 1..m : q[i] = p[i]
        BY ONLY <4>2, <3>2, <3>3, PrefixIs
      <4> QED BY <4>1, <4>3
    <3>5. st = "done" => q = p BY <3>1, <3>4, SeqEqual
    <3>6. export' = [state |-> st, got |-> q] /\ pin' = p BY <3>1, <3>3
    <3>7. q = SubSeq(p, 1, Len(q)) /\ Len(q) <= Len(p) BY <3>2, <3>3, <3>4
    <3> QED BY ONLY <3>4, <3>5, <3>6, <3>7, st \in {"open", "done"}, p \in Seq(1..MaxEvents)
  <2> QED BY <2>1, <2>2, <2>3
<1>6. LogTypeOK' BY <1>1, <1>5 DEF LogTypeOK
<1>7. ExportFollows' /\ ExportIsASnapshot' BY <1>1, <1>5 DEF ExportFollows, ExportIsASnapshot
<1> QED BY <1>3, <1>4, <1>6, <1>7 DEF LogInv

\* An export begins with the rows before a torn tail.
LEMMA ExportBeginKeeps ==
    ASSUME LogInv, exportBegins PROVE LogInv'
<1>1. rows \in Seq(LogRow) /\ up BY DEF LogInv, LogTypeOK, exportBegins
<1>2. PICK n, p : n = PinnedRows(rows) /\ p = [i \in 1..n |-> rows[i].id] OBVIOUS
<1>3. n \in Nat /\ n <= Len(rows) /\ \A i \in 1..n : rows[i].torn => i <= LastTurnEnd(rows)
  BY <1>1, <1>2, PinnedIs
<1>4. p \in Seq(1..MaxEvents) /\ Len(p) = n /\ \A i \in 1..n : p[i] = rows[i].id
  <2>1. Len(rows) \in Nat /\ \A i \in 1..Len(rows) : rows[i] \in LogRow
    BY <1>1, LenProperties, ElementOfSeq
  <2>2. \A i \in 1..n : rows[i].id \in 1..MaxEvents BY <2>1, <1>3 DEF LogRow
  <2>3. PICK E : E = 1..MaxEvents OBVIOUS
  <2>4. n \in Nat /\ p = [i \in 1..n |-> rows[i].id] /\ \A i \in 1..n : rows[i].id \in E
    BY <2>2, <2>3, <1>2, <1>3
  <2>5. p \in Seq(E) BY <2>4, IsASeq
  <2> QED BY <2>3, <2>4, <2>5, LenProperties
<1>5. <<>> \in Seq(1..MaxEvents) /\ Len(<<>>) = 0 /\ <<>> = SubSeq(p, 1, 0) BY EmptySeq, SubSeqEmpty
<1>6. /\ ReadPage(<<>>, Len(p)) /\ pin' = IF export'.state = "failed" THEN <<>> ELSE p
      /\ UNCHANGED <<tables, up, stage, materialized, through, mem, draining, closeWaits, call, born, damage>>
  BY <1>2, <1>4 DEF exportBegins
<1>7. /\ Len(p) <= Len(rows) /\ \A i \in 1..Len(p) : p[i] = rows[i].id /\ (rows[i].torn => i <= LastTurnEnd(rows))
      /\ Len(<<>>) <= Len(p) /\ <<>> = SubSeq(p, 1, Len(<<>>))
  BY <1>3, <1>4, <1>5
<1> PICK got : got = <<>> OBVIOUS
<1>8. /\ got \in Seq(1..MaxEvents) /\ ReadPage(got, Len(p)) /\ Len(got) <= Len(p) /\ got = SubSeq(p, 1, Len(got))
  BY <1>5, <1>6, <1>7
<1>9. p \in Seq(1..MaxEvents) BY <1>4
<1> QED BY ONLY LogInv, <1>1, <1>6, <1>7, <1>8, <1>9, PageKeeps

\* It goes on after an await.
LEMMA ExportGoesOnKeeps ==
    ASSUME LogInv, exportGoesOn PROVE LogInv'
<1>1. /\ export.state = "open" /\ ReadPage(export.got, Len(pin))
      /\ pin' = IF export'.state = "failed" THEN <<>> ELSE pin
      /\ UNCHANGED <<tables, up, stage, materialized, through, mem, draining, closeWaits, call, born, damage>>
  BY DEF exportGoesOn
<1>2. PICK p, got : p = pin /\ got = export.got OBVIOUS
<1>3. /\ p \in Seq(1..MaxEvents) /\ got \in Seq(1..MaxEvents) /\ Len(got) <= Len(p) /\ got = SubSeq(p, 1, Len(got))
      /\ up /\ Len(p) <= Len(rows)
      /\ \A i \in 1..Len(p) : p[i] = rows[i].id /\ (rows[i].torn => i <= LastTurnEnd(rows))
  BY <1>1, <1>2 DEF LogInv, LogTypeOK, ExportFollows, ExportIsASnapshot
<1> QED BY <1>1, <1>2, <1>3, PageKeeps

----------------------------------------
(* Every state. *)

\* A step that changes nothing.
LEMMA LogStutters ==
    ASSUME LogInv, UNCHANGED logVars PROVE LogInv'
<1>1. UNCHANGED <<header, version, blankRow, rows, summary, up, stage, materialized, through, mem,
                  buffer, drain, faults, closeWaits, call, export, pin, born, damage>>
  BY DEF logVars, tables, draining, exporting
<1>2. Line' = Line /\ Ids(rows)' = Ids(rows) BY <1>1, LineUntouched
<1>3. LogTypeOK' /\ LineInOrder' /\ HandleStands' /\ SummaryFollows' /\ SeqsFollow'
  BY <1>1, <1>2 DEF LogInv, LogTypeOK, LineInOrder, HandleStands, SummaryFollows, SeqsFollow
<1>4. FlushesStand' BY <1>1, <1>2 DEF LogInv, FlushesStand, FlushStands
<1>5. ExportFollows' /\ ExportIsASnapshot' BY <1>1 DEF LogInv, ExportFollows, ExportIsASnapshot
<1> QED BY <1>3, <1>4, <1>5 DEF LogInv

\* The rows of an earlier release, numbered.
LEMMA LegacyRowsAre ==
    ASSUME NEW l \in LegacyRows, NEW rs, rs = Numbered(l)
    PROVE  /\ rs \in Seq(LogRow) /\ Len(rs) = Len(l) /\ Len(l) \in 0..MaxEvents
           /\ \A i \in 1..Len(rs) : rs[i].id = i
           /\ l = <<>> <=> rs = <<>>
<1>1. PICK n \in 0..(MaxEvents - 2) : l \in [1..n -> [id : {0}, kind : AllKinds, torn : {FALSE}]]
  BY DEF LegacyRows
<1>2. MaxEvents \in Nat BY LogAssumption
<1>3. n \in Nat /\ n <= MaxEvents /\ DOMAIN l = 1..n BY <1>1, <1>2
<1>4. \A i \in 1..n : l[i] \in [id : {0}, kind : AllKinds, torn : {FALSE}] BY <1>1
<1>5. \A i \in 1..n : [l[i] EXCEPT !.id = i] \in LogRow /\ [l[i] EXCEPT !.id = i].id = i
  <2> SUFFICES ASSUME NEW i \in 1..n PROVE [l[i] EXCEPT !.id = i] \in LogRow /\ [l[i] EXCEPT !.id = i].id = i
    OBVIOUS
  <2>1. i \in 1..MaxEvents BY <1>2, <1>3
  <2> QED BY <2>1, <1>4 DEF LogRow
<1>6. rs = [i \in 1..n |-> [l[i] EXCEPT !.id = i]] BY <1>3 DEF Numbered
<1>7. rs \in Seq(LogRow)
  <2>1. rs \in [1..n -> LogRow] BY <1>5, <1>6
  <2> QED BY <2>1, <1>3
<1>9. PICK R : R = [id : {0}, kind : AllKinds, torn : {FALSE}] OBVIOUS
<1>10. l \in Seq(R)
  <2>1. l \in [1..n -> R] BY <1>1, <1>9
  <2> QED BY <2>1, <1>3
<1>11. Len(l) = n /\ Len(rs) = n
  <2>1. DOMAIN rs = 1..n BY <1>6
  <2> QED BY <2>1, <1>3, <1>7, <1>10, LenProperties
<1>12. l = <<>> <=> rs = <<>> BY <1>7, <1>10, <1>11, EmptySeq
<1>13. \A i \in 1..n : rs[i].id = i
  <2>1. \A i \in 1..n : rs[i] = [l[i] EXCEPT !.id = i] BY <1>6
  <2> QED BY <2>1, <1>5
<1>14. n \in 0..MaxEvents BY <1>2, <1>3
<1> QED BY <1>7, <1>11, <1>12, <1>13, <1>14

\* What an earlier release left satisfies the invariant.
LEMMA LogStarts ==
    ASSUME LogInit PROVE LogInv
<1>1. PICK l \in LegacyRows :
        /\ rows = Numbered(l) /\ born = Len(l)
        /\ header \in IF l = <<>> THEN {NoRow, 0} ELSE {Len(l)}
        /\ version \in IF header = NoRow \/ "unknown" \in KindsIn(rows) THEN {"current"} ELSE {"current", "old"}
        /\ blankRow \in IF header = NoRow THEN BOOLEAN ELSE {FALSE}
        /\ summary \in IF header = NoRow THEN {NoRow}
              ELSE {NoRow, recomputeSummary(rows, header), recomputeSummary(<<>>, -1)}
  BY DEF LogInit
<1>2. /\ rows \in Seq(LogRow) /\ Len(rows) = born /\ born \in 0..MaxEvents /\ Len(rows) \in Nat
      /\ \A i \in 1..Len(rows) : rows[i].id = i
      /\ l = <<>> <=> rows = <<>>
  <2>1. MaxEvents \in Nat BY LogAssumption
  <2> QED BY <2>1, <1>1, LegacyRowsAre
<1>3. /\ up = FALSE /\ stage = "none" /\ materialized = FALSE /\ through = -1 /\ mem = <<>>
      /\ buffer = <<>> /\ drain = [phase |-> "none", batch |-> <<>>] /\ closeWaits = FALSE
      /\ call = [c \in Callers |-> NoRow] /\ export = [state |-> "no", got |-> <<>>] /\ pin = <<>>
  BY DEF LogInit
<1>4. <<>> \in Seq(1..MaxEvents) /\ <<>> \in Seq(BufferedEvent) /\ Len(<<>>) = 0 /\ <<>> \in Seq(LogRow)
  BY EmptySeq
<1>5. header \in Nat \cup {NoRow} BY <1>1, <1>2
<1>6. header # NoRow => header \in Nat BY <1>5
<1>7. /\ recomputeSummary(<<>>, -1) \in SummaryRow /\ recomputeSummary(<<>>, -1).rev = -1
      /\ header # NoRow => /\ recomputeSummary(rows, header) \in SummaryRow
                           /\ recomputeSummary(rows, header).rev = header
                           /\ SummaryFits(header, rows, recomputeSummary(rows, header))
  <2>1. -1 \in Int /\ \A n \in Nat : n \in Int OBVIOUS
  <2> QED BY <2>1, <1>2, <1>4, <1>6, Recomputed
<1>8. summary \in SummaryRow \cup {NoRow} BY <1>1, <1>7
<1>9. LogTypeOK
  <2>1. drain \in [phase : {"none", "appended", "rejected", "exited", "threw"}, batch : Seq(BufferedEvent)]
    BY <1>3, <1>4
  <2>2. export \in [state : {"no", "open", "done", "failed"}, got : Seq(1..MaxEvents)] BY <1>3, <1>4
  <2>3. version \in {"current", "old"} BY <1>1
  <2>4. blankRow \in BOOLEAN
    <3>1. CASE header = NoRow BY <1>1, <3>1
    <3>2. CASE header # NoRow BY <1>1, <3>2
    <3> QED BY <3>1, <3>2
  <2>5. -1 \in Int OBVIOUS
  <2> QED BY <2>1, <2>2, <2>3, <2>4, <2>5, <1>2, <1>3, <1>4, <1>5, <1>8 DEF LogTypeOK
<1>10. Line = Ids(rows)
  <2>1. LineOf(rows, <<>>, <<>>) = Ids(rows) BY <1>2, <1>4, LineParts
  <2> QED BY <2>1, <1>3 DEF Line
<1>11. LineInOrder
  <2>1. Len(Ids(rows)) = Len(rows) /\ \A i \in 1..Len(rows) : Ids(rows)[i] = i
    <3>1. \A x \in LogRow : x.id \in 1..MaxEvents BY DEF LogRow
    <3>2. Len(Ids(rows)) = Len(rows) /\ \A i \in 1..Len(rows) : Ids(rows)[i] = rows[i].id
      BY ONLY <3>1, <1>2, IdsAre
    <3> QED BY <3>2, <1>2
  <2> QED BY <2>1, <1>2, <1>10 DEF LineInOrder, InOrder
<1>12. HandleStands BY <1>3 DEF HandleStands
<1>13. FlushesStand BY <1>3 DEF FlushesStand
<1>14. SummaryFollows
  <2>1. version = "old" => header # NoRow BY <1>1
  <2>2. header = NoRow => rows = <<>> /\ summary = NoRow
    <3>1. header = NoRow => l = <<>> BY <1>1, <1>2, LogAssumption
    <3> QED BY <3>1, <1>1, <1>2
  <2>3. header # NoRow /\ summary # NoRow /\ summary.rev = header => SummaryFits(header, rows, summary)
    <3>1. header # NoRow => header # -1 BY <1>6
    <3> QED BY <3>1, <1>1, <1>7
  <2> QED BY <2>1, <2>2, <2>3, <1>3 DEF SummaryFollows, StorageFits
<1>15. SeqsFollow BY <1>3 DEF SeqsFollow
<1>16. ExportFollows /\ ExportIsASnapshot
  <2>1. <<>> = SubSeq(<<>>, 1, 0) BY SubSeqEmpty
  <2> QED BY <2>1, <1>3, <1>4 DEF ExportFollows, ExportIsASnapshot
<1> QED BY <1>9, <1>11, <1>12, <1>13, <1>14, <1>15, <1>16 DEF LogInv

----------------------------------------
(* The theorems. *)

\* Each step keeps the invariant.
LEMMA LogSteps ==
    ASSUME LogInv, [LogNext]_logVars PROVE LogInv'
<1>1. CASE UNCHANGED logVars BY <1>1, LogStutters
<1>2. CASE postInitialize \/ Crash \/ RowIsDamaged BY <1>2, StartKeeps, CrashKeeps, DamageKeeps
<1>3. CASE retainBlankSession \/ materializeBlankSession \/ create \/ open \/ openRefused
  BY <1>3, HandlesKeep
<1>4. CASE read \/ append \/ Attach \/ Emit BY <1>4, ReadKeeps, AppendKeeps, AttachKeeps, EmitKeeps
<1>5. CASE DrainResumes \/ DrainEnds \/ close \/ closeEnds
  BY <1>5, ResumeKeeps, DrainEndKeeps, CloseKeeps, CloseEndKeeps
<1>6. ASSUME NEW c \in Callers, flush(c) \/ FlushGoesOn(c) \/ FlushEnds(c)
      PROVE  LogInv'
  BY <1>6, FlushKeeps, FlushGoesOnKeeps, FlushEndsKeeps
<1>7. CASE exportBegins \/ exportGoesOn BY <1>7, ExportBeginKeeps, ExportGoesOnKeeps
<1> QED BY <1>1, <1>2, <1>3, <1>4, <1>5, <1>6, <1>7 DEF LogNext

\* In every reachable state of the log of a session the rows, the batch being
\* written and the buffer are one line in the order of emission, which a live
\* session mirrors, and the summary, the flushes and the export fit it.
THEOREM LogInvariant == LogSpec => []LogInv
<1>1. LogInit => LogInv BY LogStarts
<1>2. LogInv /\ [LogNext]_logVars => LogInv' BY LogSteps
<1> QED BY <1>1, <1>2, PTL DEF LogSpec

\* The summary row of a running object says what its log says, however
\* appends, repairs, migrations and blank sessions follow each other.
THEOREM SummaryCorrect == LogSpec => []SummaryIsTheLogs
<1>1. LogInv => SummaryIsTheLogs
  BY DEF LogInv, SummaryIsTheLogs, SummaryExact, SummaryFollows, StorageFits, SummaryFits
<1> QED BY <1>1, LogInvariant, PTL

\* An export that ends well gives exactly the rows it pinned when it began.
THEOREM ExportCorrect == LogSpec => []ExportIsASnapshot
<1>1. LogInv => ExportIsASnapshot BY DEF LogInv
<1> QED BY <1>1, LogInvariant, PTL

----------------------------------------
(* What is committed stays. *)

Stay == \A i \in DOMAIN rows : Committed(i) => i \in DOMAIN rows' /\ rows'[i].id = rows[i].id

\* A log that is continued keeps all its rows.
LEMMA ContinuedStay ==
    ASSUME rows \in Seq(LogRow), rows' \in Seq(LogRow), Continues(rows, rows') PROVE Stay
<1>1. DOMAIN rows = 1..Len(rows) /\ DOMAIN rows' = 1..Len(rows') /\ Len(rows) \in Nat /\ Len(rows') \in Nat
  BY LenProperties
<1>2. Len(rows) <= Len(rows') /\ \A i \in 1..Len(rows) : rows'[i] = rows[i] BY DEF Continues
<1>3. \A i \in 1..Len(rows) : i \in 1..Len(rows') BY <1>1, <1>2
<1> QED BY <1>1, <1>2, <1>3 DEF Stay

\* A repair cuts the log at its first torn row, after the last intact end of
\* a turn and before any inbox event.
LEMMA RepairStays ==
    ASSUME LogInv, read PROVE Stay
<1> PICK n, l, t : n = Len(rows) /\ l = TornFrom(rows) /\ t = LastTurnEnd(rows) OBVIOUS
<1>1. n \in Nat /\ Len(rows) = n /\ DOMAIN rows = 1..n /\ rows \in Seq(LogRow)
  BY LenProperties DEF LogInv, LogTypeOK
<1>2. l \in 0..n /\ (l # 0 => rows[l].torn)
  <2>1. n \in Nat /\ Len(rows) = n /\ l = TornFrom(rows) BY <1>1
  <2> QED BY ONLY <2>1, TornFromIs
<1>3. t \in 0..n /\ \A i \in 1..n : rows[i].kind = "end" /\ ~rows[i].torn => i <= t
  <2>1. n \in Nat /\ Len(rows) = n /\ t = LastTurnEnd(rows) BY <1>1
  <2> QED BY ONLY <2>1, LastTurnEndIs
<1>4. CASE l = 0
  <2>1. rows' = rows BY <1>4 DEF read, tables
  <2> QED BY <2>1, <1>1, ContinuesItself, ContinuedStay
<1>5. CASE l # 0
  <2>1. rows' = SubSeq(rows, 1, l - 1) BY <1>5 DEF read
  <2>2. /\ \A i \in 1..t : ~rows[i].torn
        /\ \A i \in l..n : rows[i].kind # "inbox"
    BY <1>1, <1>5 DEF read, HasCorruption, RepairRefused
  <2>3. l - 1 \in Nat /\ l - 1 <= n BY <1>1, <1>2, <1>5
  <2>4. DOMAIN rows' = 1..(l - 1) /\ \A i \in 1..(l - 1) : rows'[i] = rows[i]
    <3>1. rows' \in Seq(LogRow) /\ Len(rows') = l - 1 /\ \A i \in 1..(l - 1) : rows'[i] = rows[i]
      BY <1>1, <2>1, <2>3, PrefixIs
    <3> QED BY <3>1, LenProperties
  <2>5. ASSUME NEW i \in 1..n, Committed(i) PROVE i < l
    <3>1. l \in 1..n /\ rows[l].torn BY <1>1, <1>2, <1>5
    <3>2. CASE rows[i].kind = "inbox"
      <4>1. i \notin l..n BY <3>2, <2>2
      <4> QED BY <4>1, <3>1, <1>1
    <3>3. CASE rows[i].kind = "end" /\ ~rows[i].torn
      <4>1. i <= t /\ l \notin 1..t BY <3>1, <3>3, <2>2, <1>3
      <4> QED BY <4>1, <3>1, <1>1, <1>3
    <3>4. CASE \A j \in 1..i : ~rows[j].torn
      <4>1. l \notin 1..i BY <3>1, <3>4
      <4> QED BY <4>1, <3>1, <1>1
    <3> QED BY <2>5, <3>2, <3>3, <3>4 DEF Committed
  <2>6. ASSUME NEW i \in 1..n, Committed(i) PROVE i \in 1..(l - 1)
    <3>1. i < l BY <2>5, <2>6
    <3> QED BY <3>1, <1>1, <1>2
  <2> QED BY <2>4, <2>6, <1>1 DEF Stay
<1> QED BY <1>4, <1>5

\* No step takes a committed row away.
LEMMA StepsStay ==
    ASSUME LogInv, LogNext PROVE Stay
<1>1. /\ LogTypeOK /\ SummaryFollows /\ SeqsFollow /\ (drain.phase # "rejected" => drain.batch = <<>>)
      /\ rows \in Seq(LogRow) /\ (stage # "none" => up)
  BY DEF LogInv, LogTypeOK, HandleStands
<1>2. CASE rows' = rows BY <1>1, <1>2, ContinuesItself, ContinuedStay
<1>3. ASSUME WriteKeeps PROVE Stay BY <1>1, <1>3, ContinuedStay DEF WriteKeeps, StorageTyped
<1>4. ASSUME NEW st, up, up' = up, drainLiveBuffer(st) PROVE Stay
  <2>1. WriteKeeps BY <1>1, <1>4, Drained
  <2> QED BY <2>1, <1>3
<1>5. CASE postInitialize \/ Crash \/ retainBlankSession \/ materializeBlankSession \/ create \/ open \/ openRefused
  <2>1. rows' = rows
    BY <1>5 DEF postInitialize, Crash, retainBlankSession, materializeBlankSession, create, open, openRefused, tables
  <2> QED BY <2>1, <1>2
<1>6. CASE Attach \/ Emit \/ DrainEnds \/ closeEnds \/ exportBegins \/ exportGoesOn
  <2>1. rows' = rows
    BY <1>6 DEF Attach, Emit, DrainEnds, closeEnds, exportBegins, exportGoesOn, tables
  <2> QED BY <2>1, <1>2
<1>7. CASE RowIsDamaged
  <2>1. PICK i \in DOMAIN rows : rows' = [rows EXCEPT ![i].torn = TRUE] BY <1>7 DEF RowIsDamaged
  <2>2. DOMAIN rows = 1..Len(rows) /\ \A j \in 1..Len(rows) : rows[j] \in LogRow
    BY <1>1, LenProperties, ElementOfSeq
  <2>3. [rows[i] EXCEPT !.torn = TRUE].id = rows[i].id BY <2>1, <2>2 DEF LogRow
  <2>4. DOMAIN rows' = DOMAIN rows /\ \A j \in DOMAIN rows : rows'[j].id = rows[j].id
    <3>1. \A j \in DOMAIN rows : rows'[j] = IF j = i THEN [rows[i] EXCEPT !.torn = TRUE] ELSE rows[j]
      BY <2>1
    <3>2. DOMAIN rows' = DOMAIN rows BY <2>1
    <3> QED BY <3>1, <3>2, <2>3
  <2> QED BY <2>4 DEF Stay
<1>8. CASE read BY <1>8, RepairStays
<1>9. CASE append
  <2> PICK k, x, batch :
        /\ k \in Kinds /\ x = [seq |-> Len(rows), id |-> born + 1, kind |-> k] /\ batch = <<x>>
        /\ appendBatch(batch)
    BY <1>9 DEF append
  <2>1. Len(rows) \in Nat /\ born + 1 \in 1..MaxEvents /\ up
    BY <1>1, <1>9, LenProperties, LogAssumption DEF append, LogTypeOK
  <2>2. x \in BufferedEvent /\ x.seq = Len(rows) BY <2>1 DEF BufferedEvent
  <2>3. batch \in Seq(BufferedEvent) /\ Len(batch) = 1 /\ batch # <<>> /\ batch[1] = x
    BY <2>2, OneEvent, EmptySeq
  <2>4. \A i \in 1..Len(batch) : batch[i].seq = Len(rows) + i - 1 BY <2>1, <2>2, <2>3
  <2>5. rows' \in Seq(LogRow) /\ Continues(rows, rows') BY <1>1, <2>1, <2>3, <2>4, Appended
  <2> QED BY <2>5, <1>1, ContinuedStay
<1>10. CASE DrainResumes BY <1>3, <1>10, DrainGoesOn
<1>11. CASE close
  <2>1. up' = up /\ up BY <1>1, <1>11 DEF close
  <2> QED BY <2>1, <1>4, <1>11 DEF close
<1>12. ASSUME NEW c \in Callers, flush(c) \/ FlushGoesOn(c) \/ FlushEnds(c) PROVE Stay
  <2>1. CASE flush(c)
    <3>1. up' = up /\ up BY <1>1, <2>1 DEF flush
    <3> QED BY <3>1, <1>4, <2>1 DEF flush
  <2>2. CASE FlushGoesOn(c)
    <3>1. up' = up /\ up
      <4>1. stage = "live" BY <2>2 DEF FlushGoesOn, LogInv, FlushesStand, FlushStands
      <4> QED BY <4>1, <1>1, <2>2 DEF FlushGoesOn
    <3> QED BY <3>1, <1>4, <2>2 DEF FlushGoesOn, SecondDrain
  <2>3. CASE FlushEnds(c)
    <3>1. rows' = rows BY <2>3 DEF FlushEnds, tables
    <3> QED BY <3>1, <1>2
  <2> QED BY <1>12, <2>1, <2>2, <2>3
<1> QED BY <1>5, <1>6, <1>7, <1>8, <1>9, <1>10, <1>11, <1>12 DEF LogNext

\* No repair, migration or closing handle takes away an inbox event, an intact
\* end of a turn or a row before the first torn one.
THEOREM CommittedKept == LogSpec => CommittedStays
<1>1. LogInv /\ [LogNext]_logVars => [Stay]_logVars BY StepsStay
<1>2. [Stay]_logVars => [\A i \in DOMAIN rows :
          Committed(i) => i \in DOMAIN rows' /\ rows'[i].id = rows[i].id]_logVars
  BY DEF Stay
<1> QED BY <1>1, <1>2, LogInvariant, PTL DEF LogSpec, CommittedStays

----------------------------------------
(* The log implements SessionBarrier: every step is one of its steps, or   *)
(* changes nothing there.                                                  *)

\* What the barrier sees of the log.
Stored == {rows[i].id : i \in DOMAIN rows}
Promises == [c \in Callers |-> PromiseOf(call[c])]
\* What is stored is what is on the rows' line.
LEMMA StoredIs == ToSet(Ids(rows)) = Stored
BY DEF ToSet, Ids, Stored

\* The barrier takes the members of a sequence from the same definition.
LEMMA SameMembers == ASSUME NEW s PROVE Barrier!ToSet(s) = ToSet(s)
BY DEF ToSet, Barrier!ToSet

\* A step the barrier does not see.
LEMMA Unseen ==
    ASSUME Stored' = Stored, born' = born, mem' = mem, (stage' = "live") = (stage = "live"), Promises' = Promises
    PROVE  UNCHANGED Barrier!barrierVars
BY DEF Stored, Promises, Barrier!barrierVars

\* No call, no promise.
LEMMA NoPromise == PromiseOf(NoRow) = NoRow
BY DEF PromiseOf

\* The promise of a flush under way.
LEMMA PromiseIs ==
    ASSUME NEW f \in FlushCall
    PROVE  /\ PromiseOf(f) = [owed |-> f.owed, st |-> Standing(f)] /\ PromiseOf(f) \in FlushPromise
           /\ PromiseOf(f) # NoRow
<1>1. f # NoRow BY NoRowIsNone
<1>2. PromiseOf(f) = [owed |-> f.owed, st |-> Standing(f)] BY <1>1 DEF PromiseOf
<1>3. Standing(f) \in {"rejected", "resolved", "waiting"} BY DEF Standing
<1>4. PromiseOf(f) \in FlushPromise BY <1>2, <1>3 DEF FlushPromise, FlushCall
<1>5. PromiseOf(f) # NoRow BY <1>4, LogAssumption
<1> QED BY <1>2, <1>4, <1>5

\* Where a live or closing session has a drain, its events are the line.
LEMMA MemIsLine ==
    ASSUME LogInv, up, drain.phase # "none" \/ buffer # <<>>
    PROVE  mem = Line /\ stage \in {"live", "closing"}
BY DEF LogInv, HandleStands, LogTypeOK

\* What is written is all of the line, or nothing.
LEMMA WrittenIs ==
    ASSUME LogInv, WriteKeeps, drain'.phase = "appended" => buffer' = <<>>, rows' = rows \/ drain'.phase = "appended"
    PROVE  Stored' = Stored \/ Stored' = ToSet(Line)
<1>1. CASE rows' = rows BY <1>1 DEF Stored
<1>2. CASE drain'.phase = "appended"
  <2>1. buffer' = <<>> /\ drain'.batch = <<>> /\ rows' \in Seq(LogRow) /\ Line' = Line /\ <<>> \in Seq(BufferedEvent)
    BY <1>2, EmptySeq DEF WriteKeeps, StorageTyped
  <2>2. LineOf(rows', <<>>, <<>>) = Ids(rows') BY <2>1, LineParts
  <2>3. Line = Ids(rows') BY <2>1, <2>2 DEF Line
  <2>4. ToSet(Ids(rows')) = Stored' BY DEF ToSet, Ids, Stored
  <2> QED BY <2>3, <2>4
<1> QED BY <1>1, <1>2

\* The barrier's log then takes over a prefix of the session's events.
LEMMA WriteMaps ==
    ASSUME LogInv, Stored' = Stored \/ (mem = Line /\ Stored' = ToSet(Line))
    PROVE  Barrier!Write
<1>1. mem \in Seq(1..MaxEvents) /\ Len(mem) \in Nat BY LenProperties DEF LogInv, LogTypeOK
<1>2. CASE Stored' = Stored
  <2>1. SubSeq(mem, 1, 0) = <<>> BY SubSeqEmpty
  <2>2. ToSet(SubSeq(mem, 1, 0)) = {} /\ 0 \in 0..Len(mem) BY <2>1, <1>1 DEF ToSet
  <2>3. Stored' = Stored \cup ToSet(SubSeq(mem, 1, 0)) BY <2>2, <1>2
  <2> QED BY <2>2, <2>3, SameMembers DEF Barrier!Write, Stored
<1>3. CASE mem = Line /\ Stored' = ToSet(Line)
  <2>1. PICK E : E = 1..MaxEvents OBVIOUS
  <2>2. mem \in Seq(E) /\ SubSeq(mem, 1, Len(mem)) = mem
    <3>1. mem \in Seq(E) BY <2>1, <1>1
    <3>2. Len(mem) <= Len(mem) /\ \A i \in 1..Len(mem) : mem[i] = mem[i] BY <1>1
    <3>3. PICK n \in Nat : n = Len(mem) BY <1>1
    <3> QED BY <3>1, <3>2, <3>3, PrefixEquals
  <2>3. Stored \subseteq ToSet(Line) BY StoredAreOnLine, StoredIs DEF LogInv, LogTypeOK, Line
  <2>4. Stored' = Stored \cup ToSet(SubSeq(mem, 1, Len(mem))) /\ Len(mem) \in 0..Len(mem)
    <3>1. ToSet(SubSeq(mem, 1, Len(mem))) = ToSet(mem) /\ ToSet(mem) = ToSet(Line) BY <2>2, <1>3
    <3>2. Len(mem) \in 0..Len(mem) BY <1>1
    <3> QED BY ONLY <3>1, <3>2, <2>3, <1>3
  <2> QED BY <2>4, SameMembers DEF Barrier!Write, Stored
<1> QED BY <1>2, <1>3

\* A drain's step the barrier sees as its log taking over events.
LEMMA DrainMaps ==
    ASSUME LogInv, WriteKeeps, up, drain'.phase = "appended" => buffer' = <<>>,
           rows' = rows \/ (drain'.phase = "appended" /\ (drain.phase # "none" \/ buffer # <<>>))
    PROVE  Barrier!Write
<1>1. Stored' = Stored \/ Stored' = ToSet(Line) BY WrittenIs
<1>2. CASE rows' = rows
  <2>1. Stored' = Stored BY <1>2 DEF Stored
  <2> QED BY <2>1, WriteMaps
<1>3. CASE rows' # rows
  <2>1. mem = Line BY <1>3, MemIsLine
  <2> QED BY <2>1, <1>1, WriteMaps
<1> QED BY <1>2, <1>3

\* drainLiveBuffer, seen by the barrier.
LEMMA DrainingMaps ==
    ASSUME LogInv, up, up' = up, NEW st, drainLiveBuffer(st) PROVE Barrier!Write
<1>1. LogTypeOK /\ SummaryFollows /\ SeqsFollow /\ (drain.phase # "rejected" => drain.batch = <<>>)
  BY DEF LogInv, HandleStands
<1>2. WriteKeeps BY <1>1, Drained
<1>3. CASE JoinDrain \/ NothingToDrain
  <2>1. rows' = rows BY <1>3 DEF JoinDrain, NothingToDrain, tables
  <2>2. Stored' = Stored BY <2>1 DEF Stored
  <2> QED BY <2>2, WriteMaps
<1>4. CASE StartDrain
  <2>1. buffer # <<>> /\ buffer' = <<>> BY <1>4 DEF StartDrain, TakeBatch
  <2>2. rows' = rows \/ drain'.phase = "appended"
    BY <1>4 DEF StartDrain, TakeBatch, AppendFails, tables
  <2> QED BY <2>1, <2>2, <1>2, DrainMaps
<1> QED BY <1>3, <1>4 DEF drainLiveBuffer

\* What an earlier release left is a state the barrier may start in.
LEMMA InitMaps ==
    ASSUME LogInit PROVE Barrier!BarrierInit
<1>1. LogInv BY LogStarts
<1>2. stage = "none" /\ mem = <<>> /\ call = [c \in Callers |-> NoRow] BY DEF LogInit
<1>3. born \in 0..MaxEvents BY <1>1 DEF LogInv, LogTypeOK
<1>4. Stored \in SUBSET (1..born)
  <2>1. /\ Line = Ids(rows) /\ rows \in Seq(LogRow) /\ Len(Ids(rows)) = Len(rows)
        /\ \A i \in 1..Len(rows) : Ids(rows)[i] = rows[i].id
    BY <1>1, <1>2, LineOfRows
  <2>2. \A i \in 1..Len(rows) : rows[i].id \in 1..born
    BY <1>1, <2>1 DEF LogInv, LineInOrder, InOrder
  <2>3. DOMAIN rows = 1..Len(rows) BY <2>1, LenProperties
  <2> QED BY <2>2, <2>3 DEF Stored
<1>5. Promises = [c \in Callers |-> NoRow] BY <1>2, NoPromise DEF Promises
<1> QED BY <1>2, <1>3, <1>4, <1>5 DEF Barrier!BarrierInit, Stored, Promises

\* Steps the barrier does not see.
LEMMA UnseenSteps ==
    ASSUME LogInv,
           \/ postInitialize \/ RowIsDamaged \/ retainBlankSession \/ materializeBlankSession
           \/ create \/ open \/ openRefused \/ exportBegins \/ exportGoesOn
    PROVE  UNCHANGED Barrier!barrierVars
<1>1. mem' = mem /\ born' = born /\ call' = call /\ (stage' = "live") = (stage = "live")
  BY DEF postInitialize, RowIsDamaged, retainBlankSession, materializeBlankSession, create,
    open, openRefused, exportBegins, exportGoesOn, memory, NewHandle
<1>2. Stored' = Stored
  <2>1. CASE RowIsDamaged
    <3>1. PICK i \in DOMAIN rows : rows' = [rows EXCEPT ![i].torn = TRUE] BY <2>1 DEF RowIsDamaged
    <3>2. \A j \in DOMAIN rows : rows[j] \in LogRow
      BY LenProperties, ElementOfSeq DEF LogInv, LogTypeOK
    <3>3. [rows[i] EXCEPT !.torn = TRUE].id = rows[i].id BY <3>1, <3>2 DEF LogRow
    <3>4. \A j \in DOMAIN rows : rows'[j] = IF j = i THEN [rows[i] EXCEPT !.torn = TRUE] ELSE rows[j]
      BY <3>1
    <3>5. DOMAIN rows' = DOMAIN rows BY <3>1
    <3>6. \A j \in DOMAIN rows : rows'[j].id = rows[j].id BY <3>3, <3>4
    <3> QED BY <3>5, <3>6 DEF Stored
  <2>2. CASE ~RowIsDamaged
    <3>1. rows' = rows
      BY <2>2 DEF postInitialize, retainBlankSession, materializeBlankSession, create, open,
        openRefused, exportBegins, exportGoesOn, tables
    <3> QED BY <3>1 DEF Stored
  <2> QED BY <2>1, <2>2
<1>3. Promises' = Promises BY <1>1 DEF Promises, PromiseOf, Standing
<1> QED BY <1>1, <1>2, <1>3, Unseen

\* A crash is the barrier's.
LEMMA CrashMaps ==
    ASSUME LogInv, Crash PROVE Barrier!Crash
<1>1. rows' = rows /\ born' = born /\ mem' = <<>> /\ stage' = "none" /\ call' = [c \in Callers |-> NoRow]
  BY DEF Crash, tables
<1>2. Promises' = [c \in Callers |-> NoRow] BY <1>1, NoPromise DEF Promises
<1>3. (stage' = "live") = FALSE BY <1>1
<1> QED BY <1>1, <1>2, <1>3 DEF Barrier!Crash, Promises

\* The repair of a log, and an append by its opener, rewrite it.
LEMMA RewriteMaps ==
    ASSUME LogInv, LogInv', read \/ append
    PROVE  Barrier!Rewrite
<1>1. /\ stage \in {"opened", "ready"} /\ stage' = "ready" /\ mem' = mem /\ call' = call
      /\ born' = born \/ born' = born + 1
  BY DEF read, append
<1>2. mem = <<>> /\ (stage = "live") = FALSE /\ (stage' = "live") = FALSE
  BY <1>1 DEF LogInv, HandleStands
<1>3. Stored' \subseteq 1..born'
  <2>1. /\ LineInOrder' /\ rows' \in Seq(LogRow) /\ buffer' = <<>> /\ drain'.batch = <<>>
        /\ <<>> \in Seq(BufferedEvent)
    BY <1>1, EmptySeq DEF LogInv, LogTypeOK, HandleStands
  <2>2. /\ LineOf(rows', <<>>, <<>>) = Ids(rows') /\ Len(Ids(rows')) = Len(rows')
        /\ \A i \in 1..Len(rows') : Ids(rows')[i] = rows'[i].id
    BY <2>1, LineParts, LineIs
  <2>3. \A i \in 1..Len(rows') : rows'[i].id \in 1..born'
    BY <2>1, <2>2 DEF LineInOrder, InOrder, Line
  <2>4. DOMAIN rows' = 1..Len(rows') BY <2>1, LenProperties
  <2> QED BY <2>3, <2>4 DEF Stored
<1>4. Promises' = Promises BY <1>1 DEF Promises, PromiseOf, Standing
<1> QED BY <1>1, <1>2, <1>3, <1>4 DEF Barrier!Rewrite, Stored, Promises

\* How a flush may go on in the eyes of its caller.
LEMMA Outcome ==
    ASSUME NEW f \in FlushCall, NEW g \in FlushCall, g.owed = f.owed,
           \/ Standing(g) = Standing(f)
           \/ /\ Standing(f) = "waiting"
              /\ Standing(g) = "rejected" \/ (Standing(g) = "resolved" /\ f.owed \subseteq Stored)
    PROVE  PromiseOf(g) \in Barrier!Outcomes(PromiseOf(f))
<1> PICK p, q, s, t, o : /\ p = PromiseOf(f) /\ q = PromiseOf(g)
                         /\ s = Standing(f) /\ t = Standing(g) /\ o = f.owed
  OBVIOUS
<1>1. p = [owed |-> o, st |-> s] /\ q = [owed |-> o, st |-> t] /\ p # NoRow BY PromiseIs
<1>2. p.st = s /\ p.owed = o BY <1>1
<1>3. CASE s = t BY <1>1, <1>3 DEF Barrier!Outcomes
<1>4. CASE s = "waiting" /\ t = "rejected"
  <2>1. q = [p EXCEPT !.st = "rejected"] BY <1>1, <1>4
  <2> QED BY <2>1, <1>1, <1>2, <1>4 DEF Barrier!Outcomes
<1>5. CASE s = "waiting" /\ t = "resolved" /\ o \subseteq Stored
  <2>1. q = [p EXCEPT !.st = "resolved"] BY <1>1, <1>5
  <2> QED BY <2>1, <1>1, <1>2, <1>5 DEF Barrier!Outcomes, Stored
<1> QED BY <1>3, <1>4, <1>5

\* Nothing to promise stays so.
LEMMA NoOutcome == NoRow \in Barrier!Outcomes(NoRow)
BY DEF Barrier!Outcomes

\* The promises after a step.
LEMMA PromiseAfter ==
    ASSUME NEW c \in Callers, NEW h, h = call'[c] PROVE Promises'[c] = PromiseOf(h)
BY DEF Promises, PromiseOf, Standing

\* Flushes are settled one by one.
LEMMA SettledIs ==
    ASSUME \A c \in Callers : Promises'[c] \in Barrier!Outcomes(Promises[c])
    PROVE  Barrier!Settled
<1>1. Promises' = [c \in Callers |-> Promises'[c]] BY DEF Promises
<1>2. Promises' \in [Callers -> UNION {Barrier!Outcomes(Promises[c]) : c \in Callers}] BY <1>1
<1> QED BY <1>2 DEF Barrier!Settled, Promises

\* The barrier counts by the same definition.
LEMMA SameCount == ASSUME NEW S PROVE Barrier!Cardinality(S) = Cardinality(S)
BY DEF Cardinality, Barrier!Cardinality

\* A live session is attached, with all events of its log in their order.
LEMMA AttachMaps ==
    ASSUME LogInv, Attach PROVE Barrier!Attach
<1>1. /\ stage = "ready" /\ stage' = "live" /\ rows' = rows /\ born' = born /\ call' = call /\ mem' = Ids(rows)
  BY DEF Attach, tables, Ids
<1>2. /\ mem = <<>> /\ Line = Ids(rows) /\ rows \in Seq(LogRow) /\ Len(rows) \in Nat
      /\ Ids(rows) \in Seq(1..MaxEvents) /\ Len(Ids(rows)) = Len(rows)
  BY <1>1, LineOfRows
<1>3. PICK l, n : l = Ids(rows) /\ n = Len(rows) OBVIOUS
<1>4. /\ l \in Seq(1..MaxEvents) /\ Len(l) = n /\ n \in Nat /\ DOMAIN l = 1..n
      /\ \A i, j \in 1..n : i < j => l[i] < l[j]
      /\ \A i \in 1..n : l[i] \in Nat
  <2>1. InOrder(Line, born) BY DEF LogInv, LineInOrder
  <2>2. l \in Seq(1..MaxEvents) /\ Len(l) = n /\ n \in Nat BY <1>2, <1>3
  <2>3. DOMAIN l = 1..n /\ \A i \in 1..n : l[i] \in 1..MaxEvents
    BY <2>2, LenProperties, ElementOfSeq
  <2>4. MaxEvents \in Nat BY LogAssumption
  <2> QED BY <2>1, <2>2, <2>3, <2>4, <1>2, <1>3 DEF InOrder
<1>5. IsInjective(l) BY <1>4 DEF IsInjective
<1>6. Cardinality(ToSet(l)) = n BY <1>4, <1>5, LineLength
<1>7. ToSet(l) = Stored BY <1>3, StoredIs
<1>8. l \in [1..n -> Stored]
  <2>1. l = [i \in 1..n |-> l[i]] BY <1>4, LenProperties
  <2>2. \A i \in 1..n : l[i] \in ToSet(l) BY <1>4 DEF ToSet
  <2> QED BY <2>1, <2>2, <1>7
<1>9. mem' \in [1..Cardinality(Stored) -> Stored] /\ \A i, j \in DOMAIN mem' : i < j => mem'[i] < mem'[j]
  BY <1>1, <1>3, <1>4, <1>6, <1>7, <1>8
<1>10. Stored' = Stored /\ Promises' = Promises BY <1>1 DEF Stored, Promises, PromiseOf, Standing
<1>11. (stage = "live") = FALSE /\ (stage' = "live") = TRUE BY <1>1
<1> QED BY <1>1, <1>2, <1>9, <1>10, <1>11, SameCount DEF Barrier!Attach, Stored, Promises

\* An event is emitted.
LEMMA EmitMaps ==
    ASSUME LogInv, Emit PROVE Barrier!Emit
<1>1. /\ stage = "live" /\ stage' = stage /\ rows' = rows /\ call' = call /\ born < MaxEvents
      /\ born' = born + 1 /\ mem' = Append(mem, born + 1)
  BY DEF Emit, tables
<1>2. Stored' = Stored /\ Promises' = Promises BY <1>1 DEF Stored, Promises, PromiseOf, Standing
<1> QED BY <1>1, <1>2 DEF Barrier!Emit, Stored, Promises

\* The drain goes on: the log takes over events, or nothing is seen.
LEMMA ResumeMaps ==
    ASSUME LogInv, DrainResumes PROVE Barrier!Store
<1>1. WriteKeeps /\ up /\ UNCHANGED <<stage, mem, call, born>> /\ drain.phase \in {"appended", "rejected"}
  BY DrainGoesOn
<1>2. /\ drain'.phase = "appended" => buffer' = <<>>
      /\ rows' = rows \/ drain'.phase = "appended"
  BY DEF DrainResumes, TakeBatch, AppendFails, tables
<1>3. Barrier!Write
  <2>1. drain.phase # "none" BY <1>1
  <2> QED BY <2>1, <1>1, <1>2, DrainMaps
<1>4. Promises' = Promises BY <1>1 DEF Promises, PromiseOf, Standing
<1> QED BY <1>1, <1>3, <1>4 DEF Barrier!Store, Promises

\* The end of a drain settles the flushes that wait for it.
LEMMA DrainEndMaps ==
    ASSUME LogInv, DrainEnds PROVE Barrier!Settle
<1>1. /\ drain.phase \in {"exited", "threw"} /\ stage' = stage /\ rows' = rows /\ born' = born /\ mem' = mem
      /\ LogTypeOK /\ FlushesStand
  BY DEF LogInv, DrainEnds, tables
<1>2. ASSUME NEW c \in Callers PROVE Promises'[c] \in Barrier!Outcomes(Promises[c])
  <2> PICK f, h : f = call[c] /\ h = call'[c] OBVIOUS
  <2>1. h = IF f # NoRow /\ f.st = "waiting" THEN [f EXCEPT !.st = IF drain.phase = "exited" THEN "ok" ELSE "err"] ELSE f
    BY DEF DrainEnds
  <2>2. Promises'[c] = PromiseOf(h) /\ Promises[c] = PromiseOf(f) BY PromiseAfter DEF Promises
  <2>3. CASE f = NoRow BY <2>1, <2>2, <2>3, NoPromise, NoOutcome
  <2>4. CASE f # NoRow
    <3>1. f \in FlushCall /\ FlushStands(f) BY <2>4, <1>1 DEF FlushesStand, LogTypeOK
    <3>2. CASE f.st # "waiting"
      <4>1. h = f BY <2>1, <3>2
      <4> QED BY <4>1, <2>2, <3>1, Outcome
    <3>3. CASE f.st = "waiting"
      <4>1. PICK st \in {"ok", "err"} : h = [f EXCEPT !.st = st] /\ (st = "ok" <=> drain.phase = "exited")
        BY <2>1, <2>4, <3>3
      <4>2. h \in FlushCall /\ h.owed = f.owed /\ h.at = f.at /\ h.st = st
        BY <3>1, <4>1 DEF FlushCall
      <4>3. f.at \in {"drain", "flush", "closed"} BY <3>1 DEF FlushCall
      <4>4. Standing(f) = "waiting" BY <3>3 DEF Standing
      <4>5. st = "ok" /\ f.at = "flush" => f.owed \subseteq Stored
        BY <4>1, <3>1, <3>3, StoredIs DEF FlushStands
      <4>6. \/ Standing(h) = "waiting" \/ Standing(h) = "rejected"
            \/ Standing(h) = "resolved" /\ st = "ok" /\ f.at = "flush"
        BY <4>2, <4>3 DEF Standing
      <4> QED BY <4>2, <4>4, <4>5, <4>6, <2>2, <3>1, Outcome
    <3> QED BY <3>2, <3>3
  <2> QED BY <2>3, <2>4
<1>3. Barrier!Settled BY <1>2, SettledIs
<1>4. Stored' = Stored BY <1>1 DEF Stored
<1> QED BY <1>1, <1>3, <1>4 DEF Barrier!Settle, Stored

\* A flush is called.
LEMMA FlushMaps ==
    ASSUME LogInv, LogInv', NEW d \in Callers, flush(d) PROVE Barrier!Call(d)
<1>1. stage = "live" /\ stage' = stage /\ up /\ up' = up /\ mem' = mem /\ born' = born /\ call[d] = NoRow
  BY DEF flush, LogInv, HandleStands
<1>2. PICK st, f : /\ st \in {"waiting", "ok"} /\ drainLiveBuffer(st)
                   /\ f = [at |-> "drain", st |-> st, owed |-> ToSet(mem)]
                   /\ call' = [call EXCEPT ![d] = f]
  BY DEF flush
<1>3. Barrier!Write BY <1>1, <1>2, DrainingMaps
<1>4. call \in [Callers -> FlushCall \cup {NoRow}] /\ call' \in [Callers -> FlushCall \cup {NoRow}]
  BY DEF LogInv, LogTypeOK
<1>5. \A c \in Callers : call'[c] = IF c = d THEN f ELSE call[c] BY <1>2, <1>4
<1>6. PromiseOf(f) = [owed |-> ToSet(mem), st |-> "waiting"]
  <2>1. f # NoRow
    <3>2. mem \in Seq(1..MaxEvents) /\ DOMAIN mem = 1..Len(mem) /\ \A i \in 1..Len(mem) : mem[i] \in 1..MaxEvents
      BY LenProperties, ElementOfSeq, ZenonT(60) DEF LogInv, LogTypeOK
    <3>3. PICK owed : owed = ToSet(mem) OBVIOUS
    <3>4. owed \in SUBSET (1..MaxEvents) BY <3>2, <3>3 DEF ToSet
    <3>5. f = [at |-> "drain", st |-> st, owed |-> owed] /\ st \in {"waiting", "ok"} BY <1>2, <3>3
    <3>6. f \in FlushCall BY ONLY <3>4, <3>5 DEF FlushCall
    <3> QED BY <3>6, NoRowIsNone
  <2>2. f.owed = ToSet(mem) /\ f.at = "drain" /\ f.st \in {"waiting", "ok"} BY <1>2
  <2> QED BY <2>1, <2>2 DEF PromiseOf, Standing
<1>7. \A c \in Callers : Promises'[c] = IF c = d THEN [owed |-> ToSet(mem), st |-> "waiting"] ELSE Promises[c]
  BY <1>5, <1>6, PromiseAfter DEF Promises
<1>8. Promises' = [Promises EXCEPT ![d] = [owed |-> ToSet(mem), st |-> "waiting"]]
  <2>1. Promises' = [c \in Callers |-> Promises'[c]] /\ DOMAIN Promises = Callers BY DEF Promises
  <2> QED BY <2>1, <1>7
<1>9. Promises[d] = NoRow BY <1>1, NoPromise DEF Promises
<1>10. (stage = "live") = TRUE /\ (IF stage = "live" THEN ToSet(mem) ELSE {}) = ToSet(mem) BY <1>1
<1>11. Barrier!ToSet(mem) = ToSet(mem) BY SameMembers
<1> QED BY <1>1, <1>3, <1>8, <1>9, <1>10, <1>11 DEF Barrier!Call, Promises

\* Its second drain covers what it owes, or it waits for one that will.
LEMMA FlushGoesOnMaps ==
    ASSUME LogInv, LogInv', NEW d \in Callers, FlushGoesOn(d)
    PROVE  Barrier!Store \/ Barrier!Settle
<1>1. /\ LogTypeOK /\ LogTypeOK' /\ FlushesStand /\ stage' = stage /\ up' = up /\ mem' = mem /\ born' = born
      /\ call[d] # NoRow /\ call[d].at = "drain" /\ call[d].st = "ok"
  BY DEF FlushGoesOn, LogInv
<1>2. PICK st \in {"waiting", "ok"} : drainLiveBuffer(st) /\ call' = [call EXCEPT ![d].at = "flush", ![d].st = st]
  BY DEF FlushGoesOn, SecondDrain
<1>3. PICK f, g : f = call[d] /\ g = [f EXCEPT !.at = "flush", !.st = st] OBVIOUS
<1>4. /\ f \in FlushCall /\ g \in FlushCall /\ g.owed = f.owed /\ FlushStands(f)
      /\ Standing(f) = "waiting" /\ Standing(g) = IF st = "ok" THEN "resolved" ELSE "waiting"
  <2>1. f \in FlushCall /\ FlushStands(f) /\ f.at = "drain" /\ f.st = "ok"
    BY <1>1, <1>3 DEF FlushesStand, LogTypeOK
  <2>2. g \in FlushCall /\ g.owed = f.owed /\ g.at = "flush" /\ g.st = st
    BY <2>1, <1>2, <1>3 DEF FlushCall
  <2> QED BY <2>1, <2>2, <1>2 DEF Standing
<1>5. \A c \in Callers : call'[c] = IF c = d THEN g ELSE call[c]
  <2>1. call' = [call EXCEPT ![d] = g] BY <1>1, <1>2, <1>3, <1>4 DEF LogTypeOK
  <2> QED BY <2>1, <1>1 DEF LogTypeOK
<1>6. up BY <1>1 DEF LogInv, HandleStands, FlushesStand, FlushStands
<1>7. Barrier!Write BY <1>1, <1>2, <1>6, DrainingMaps
<1>8. Promises[d] = PromiseOf(f) /\ Promises'[d] = PromiseOf(g)
      /\ \A c \in Callers : c # d => Promises'[c] = Promises[c]
  BY <1>3, <1>5, PromiseAfter DEF Promises
<1>9. CASE st = "waiting"
  <2>1. PromiseOf(g) = PromiseOf(f) BY <1>4, <1>9, PromiseIs
  <2>2. \A c \in Callers : Promises'[c] = Promises[c] BY <2>1, <1>8
  <2>3. Promises' = Promises BY <2>2 DEF Promises
  <2> QED BY <2>3, <1>1, <1>7 DEF Barrier!Store, Promises
<1>10. CASE st = "ok"
  <2>1. drain.phase = "none" /\ buffer = <<>> /\ rows' = rows
    BY <1>10, <1>2 DEF drainLiveBuffer, NothingToDrain, tables
  <2>2. Line = Ids(rows)
    <3>1. drain.batch = <<>> /\ rows \in Seq(LogRow) /\ <<>> \in Seq(BufferedEvent)
      BY <2>1, EmptySeq DEF LogInv, LogTypeOK, HandleStands
    <3>2. LineOf(rows, <<>>, <<>>) = Ids(rows) BY <3>1, LineParts
    <3> QED BY <3>1, <3>2, <2>1 DEF Line
  <2>3. f.owed \subseteq Stored BY <2>2, <1>1, <1>3, <1>4, StoredIs DEF FlushStands
  <2>4. PromiseOf(g) \in Barrier!Outcomes(PromiseOf(f)) BY <1>4, <1>10, <2>3, Outcome
  <2>5. \A c \in Callers : Promises'[c] \in Barrier!Outcomes(Promises[c])
    <3>1. \A c \in Callers : Promises[c] \in Barrier!Outcomes(Promises[c]) BY DEF Barrier!Outcomes
    <3> QED BY <3>1, <2>4, <1>8
  <2>6. Stored' = Stored BY <2>1 DEF Stored
  <2>7. Barrier!Settled BY <2>5, SettledIs
  <2> QED BY <2>6, <2>7, <1>1 DEF Barrier!Settle, Stored
<1> QED BY <1>9, <1>10

\* The caller learns how it went.
LEMMA FlushEndMaps ==
    ASSUME LogInv, NEW d \in Callers, FlushEnds(d) PROVE Barrier!Return(d)
<1>1. /\ stage' = stage /\ mem' = mem /\ born' = born /\ rows' = rows
      /\ call[d] # NoRow /\ call' = [call EXCEPT ![d] = NoRow]
      /\ call[d].st = "err" \/ (call[d].st = "ok" /\ call[d].at \in {"flush", "closed"})
      /\ call \in [Callers -> FlushCall \cup {NoRow}]
  BY DEF FlushEnds, LogInv, LogTypeOK, tables
<1>2. PICK f \in FlushCall : f = call[d] BY <1>1
<1>3. Promises[d] # NoRow /\ Promises[d].st # "waiting"
  <2>1. Standing(f) # "waiting" BY <1>1, <1>2 DEF Standing
  <2>2. Promises[d] = PromiseOf(f) BY <1>2 DEF Promises
  <2> QED BY <2>1, <2>2, PromiseIs
<1>4. \A c \in Callers : Promises'[c] = IF c = d THEN NoRow ELSE Promises[c]
  <2>1. \A c \in Callers : call'[c] = IF c = d THEN NoRow ELSE call[c] BY <1>1
  <2> QED BY <2>1, PromiseAfter, NoPromise DEF Promises
<1>5. Promises' = [Promises EXCEPT ![d] = NoRow]
  <2>1. Promises' = [c \in Callers |-> Promises'[c]] /\ DOMAIN Promises = Callers BY DEF Promises
  <2> QED BY <2>1, <1>4
<1>6. Stored' = Stored BY <1>1 DEF Stored
<1> QED BY <1>1, <1>3, <1>5, <1>6 DEF Barrier!Return, Stored, Promises

\* close(): a live session is detached, and its flushes stand as they will.
LEMMA CloseMaps ==
    ASSUME LogInv, LogInv', close PROVE Barrier!Detach \/ UNCHANGED Barrier!barrierVars
<1>1. /\ LogTypeOK /\ LogTypeOK' /\ FlushesStand /\ HandleStands /\ up /\ up' = up
      /\ stage \in {"opened", "ready", "live"} /\ stage' = "closing" /\ mem' = mem /\ born' = born
  BY DEF close, LogInv, HandleStands
<1>2. PICK st \in {"waiting", "ok"} : drainLiveBuffer(st) /\ closeWaits' = (st = "waiting")
  BY DEF close
<1>3. \A c \in Callers : call'[c] = IF call[c] # NoRow /\ call[c].at = "drain"
                                     THEN [call[c] EXCEPT !.at = "closed"] ELSE call[c]
  BY DEF close
<1>4. (stage' = "live") = FALSE BY <1>1
<1>5. CASE stage = "live"
  <2>1. Barrier!Write BY <1>1, <1>2, DrainingMaps
  <2>2. ASSUME NEW c \in Callers PROVE Promises'[c] \in Barrier!Outcomes(Promises[c])
    <3> PICK f, h : f = call[c] /\ h = call'[c] OBVIOUS
    <3>1. h = IF f # NoRow /\ f.at = "drain" THEN [f EXCEPT !.at = "closed"] ELSE f BY <1>3
    <3>2. Promises'[c] = PromiseOf(h) /\ Promises[c] = PromiseOf(f) BY PromiseAfter DEF Promises
    <3>3. CASE f = NoRow BY <3>1, <3>2, <3>3, NoPromise, NoOutcome
    <3>4. CASE f # NoRow
      <4>1. f \in FlushCall BY <3>4, <1>1 DEF LogTypeOK
      <4>2. CASE f.at # "drain"
        <5>1. h = f BY <3>1, <4>2
        <5> QED BY <5>1, <3>2, <4>1, Outcome
      <4>3. CASE f.at = "drain"
        <5>1. h = [f EXCEPT !.at = "closed"] BY <3>1, <3>4, <4>3
        <5>2. h \in FlushCall /\ h.owed = f.owed /\ h.at = "closed" /\ h.st = f.st
          BY <4>1, <5>1 DEF FlushCall
        <5>3. f.st \in {"waiting", "ok", "err"} BY <4>1 DEF FlushCall
        <5>4. Standing(h) = Standing(f) \/ (Standing(f) = "waiting" /\ Standing(h) = "rejected")
          BY <4>3, <5>2, <5>3 DEF Standing
        <5> QED BY <5>2, <5>4, <3>2, <4>1, Outcome
      <4> QED BY <4>2, <4>3
    <3> QED BY <3>3, <3>4
  <2>3. Barrier!Settled BY <2>2, SettledIs
  <2>4. (stage = "live") = TRUE BY <1>5
  <2> QED BY <1>1, <1>4, <2>1, <2>3, <2>4 DEF Barrier!Detach
<1>6. CASE stage # "live"
  <2>1. buffer = <<>> /\ drain.phase = "none" BY <1>1, <1>6 DEF HandleStands
  <2>2. rows' = rows
    BY <2>1, <1>2 DEF drainLiveBuffer, JoinDrain, StartDrain, NothingToDrain, tables
  <2>3. Stored' = Stored BY <2>2 DEF Stored
  <2>4. \A c \in Callers : call'[c] = call[c] BY <1>1, <1>3, <1>6 DEF FlushesStand, FlushStands
  <2>5. Promises' = Promises
    <3>1. \A c \in Callers : Promises'[c] = Promises[c] BY <2>4, PromiseAfter DEF Promises
    <3> QED BY <3>1 DEF Promises
  <2>6. (stage' = "live") = (stage = "live") BY <1>4, <1>6
  <2> QED BY <1>1, <2>3, <2>5, <2>6, Unseen
<1> QED BY <1>5, <1>6

\* Its end gives up what was not written.
LEMMA CloseEndMaps ==
    ASSUME LogInv, closeEnds PROVE Barrier!Retire
<1>1. stage = "closing" /\ stage' = "none" /\ mem' = <<>> /\ born' = born /\ call' = call /\ rows' = rows
  BY DEF closeEnds, tables
<1>2. Stored' = Stored /\ Promises' = Promises BY <1>1 DEF Stored, Promises, PromiseOf, Standing
<1>3. (stage = "live") = FALSE /\ (stage' = "live") = FALSE BY <1>1
<1> QED BY <1>1, <1>2, <1>3 DEF Barrier!Retire, Stored, Promises

\* Every step of the log is one of the barrier's, or nothing to it.
LEMMA StepsMap ==
    ASSUME LogInv, LogInv', [LogNext]_logVars PROVE [Barrier!BarrierNext]_(Barrier!barrierVars)
<1>1. CASE UNCHANGED logVars
  <2>1. UNCHANGED <<rows, born, mem, stage, call>> BY <1>1 DEF logVars, tables
  <2>2. Stored' = Stored /\ Promises' = Promises BY <2>1 DEF Stored, Promises, PromiseOf, Standing
  <2> QED BY <2>1, <2>2, Unseen
<1>2. CASE \/ postInitialize \/ RowIsDamaged \/ retainBlankSession \/ materializeBlankSession
           \/ create \/ open \/ openRefused \/ exportBegins \/ exportGoesOn
  BY <1>2, UnseenSteps
<1>3. CASE Crash BY <1>3, CrashMaps DEF Barrier!BarrierNext
<1>4. CASE read \/ append BY <1>4, RewriteMaps DEF Barrier!BarrierNext
<1>5. CASE Attach \/ Emit BY <1>5, AttachMaps, EmitMaps DEF Barrier!BarrierNext
<1>6. CASE DrainResumes \/ DrainEnds BY <1>6, ResumeMaps, DrainEndMaps DEF Barrier!BarrierNext
<1>7. CASE close \/ closeEnds BY <1>7, CloseMaps, CloseEndMaps DEF Barrier!BarrierNext
<1>8. ASSUME NEW c \in Callers, flush(c) \/ FlushGoesOn(c) \/ FlushEnds(c)
      PROVE  Barrier!BarrierNext
  BY <1>8, FlushMaps, FlushGoesOnMaps, FlushEndMaps DEF Barrier!BarrierNext
<1> QED BY <1>1, <1>2, <1>3, <1>4, <1>5, <1>6, <1>7, <1>8 DEF LogNext

\* The log implements what SessionBarrier promises: a flush that resolves
\* covers every event emitted before it was called, through rejected writes,
\* second drains, closing handles and crashes.
THEOREM LogIsABarrier == LogSpec => ImplementsBarrier
<1>1. LogInit => Barrier!BarrierInit BY InitMaps
<1>2. LogInv /\ LogInv' /\ [LogNext]_logVars => [Barrier!BarrierNext]_(Barrier!barrierVars)
  BY StepsMap
<1> QED BY <1>1, <1>2, LogInvariant, PTL DEF LogSpec, ImplementsBarrier, Barrier!BarrierSpec
===============================================================================
