----------------------------- MODULE LineLemmas -----------------------------
(***************************************************************************)
(* Facts about lines and counts that several proofs use: the least of a    *)
(* set of numbers, sequences in which nobody stands twice, and sets that   *)
(* one member joins or leaves.                                             *)
(***************************************************************************)
EXTENDS Naturals, FiniteSets, Sequences, SequencesExt,
        TLAPS, FiniteSetTheorems, SequenceTheorems, WellFoundedInduction

(* Lines: sequences in which nobody stands twice. *)

\* A set of numbers has a least one: the form of induction used here.
LEMMA LeastNumber ==
    ASSUME NEW T, T \subseteq Nat, T # {} PROVE \E n \in T : \A m \in T : n <= m
<1> DEFINE R == OpToRel(<, Nat)
<1>1. IsWellFoundedOn(R, Nat) BY NatLessThanWellFounded
<1>2. PICK n \in T : \A m \in T : <<m, n>> \notin R
  <2> HIDE DEF R
  <2> QED BY <1>1, WFMin
<1>3. \A m \in T : m < n => <<m, n>> \in R BY DEF OpToRel
<1>4. \A m \in T : ~(m < n)
  <2> HIDE DEF R
  <2> QED BY <1>2, <1>3
<1>5. \A m \in T : m \in Nat /\ n \in Nat OBVIOUS
<1> QED BY <1>4, <1>5

\* Whoever joins a line stands at its end, and the line stays one.
LEMMA JoinLine ==
    ASSUME NEW S, NEW s \in Seq(S), NEW c \in S, IsInjective(s), c \notin ToSet(s)
    PROVE  /\ Append(s, c) \in Seq(S) /\ Append(s, c) # <<>>
           /\ IsInjective(Append(s, c))
           /\ ToSet(Append(s, c)) = ToSet(s) \cup {c}
<1> DEFINE t == Append(s, c)
<1>1. /\ t \in Seq(S) /\ t # <<>> /\ Len(t) = Len(s) + 1 /\ DOMAIN t = 1..(Len(s) + 1)
      /\ DOMAIN s = 1..Len(s) /\ Len(s) \in Nat
      /\ t[Len(s) + 1] = c /\ \A i \in 1..Len(s) : t[i] = s[i]
  BY AppendProperties, LenProperties
<1> HIDE DEF t
<1>2. ToSet(t) = ToSet(s) \cup {c} BY <1>1 DEF ToSet
<1>3. IsInjective(t) BY <1>1 DEF ToSet, IsInjective
<1> QED BY <1>1, <1>2, <1>3 DEF t

\* The first of a line leaves: the others stay, each once.
LEMMA LeaveFront ==
    ASSUME NEW S, NEW s \in Seq(S), s # <<>>, IsInjective(s)
    PROVE  /\ Head(s) \in S /\ Head(s) \in ToSet(s)
           /\ Tail(s) \in Seq(S) /\ IsInjective(Tail(s))
           /\ ToSet(Tail(s)) = ToSet(s) \ {Head(s)}
<1> DEFINE t == Tail(s)
<1>1. /\ t \in Seq(S) /\ Len(t) = Len(s) - 1 /\ DOMAIN t = 1..Len(t)
      /\ DOMAIN s = 1..Len(s) /\ Len(s) \in Nat /\ Len(s) # 0
      /\ Head(s) = s[1] /\ s[1] \in S /\ \A i \in 1..Len(t) : t[i] = s[i + 1]
  BY HeadTailProperties, LenProperties, EmptySeq, ElementOfSeq
<1> HIDE DEF t
<1>2. IsInjective(t) BY <1>1, SMTT(30) DEF IsInjective
<1>3. ASSUME NEW x \in ToSet(s), x # s[1] PROVE x \in ToSet(t)
  <2>1. PICK i \in 1..Len(s) : s[i] = x BY <1>1 DEF ToSet
  <2>2. i - 1 \in 1..Len(t) /\ t[i - 1] = x BY <2>1, <1>3, <1>1
  <2> QED BY <2>2, <1>1 DEF ToSet
<1>4. ASSUME NEW x \in ToSet(t) PROVE x \in ToSet(s) /\ x # s[1]
  <2>1. PICK i \in 1..Len(t) : t[i] = x BY <1>1 DEF ToSet
  <2>2. i + 1 \in 1..Len(s) /\ s[i + 1] = x /\ 1 \in 1..Len(s) /\ i + 1 # 1 BY <2>1, <1>1
  <2> QED BY <2>2, <1>1 DEF ToSet, IsInjective
<1>5. 1 \in 1..Len(s) BY <1>1
<1>6. s[1] \in ToSet(s) BY <1>1, <1>5 DEF ToSet
<1>7. ToSet(t) = ToSet(s) \ {s[1]} BY <1>3, <1>4
<1> QED BY <1>1, <1>2, <1>6, <1>7 DEF t

\* Whoever leaves a line from the middle leaves it closed up.
LEMMA LeaveMiddle ==
    ASSUME NEW S, NEW s \in Seq(S), NEW k \in DOMAIN s, IsInjective(s)
    PROVE  /\ RemoveAt(s, k) \in Seq(S) /\ IsInjective(RemoveAt(s, k))
           /\ ToSet(RemoveAt(s, k)) = ToSet(s) \ {s[k]}
<1> DEFINE t == RemoveAt(s, k)
           u == SubSeq(s, 1, k - 1)
           v == SubSeq(s, k + 1, Len(s))
<1>1. DOMAIN s = 1..Len(s) /\ Len(s) \in Nat /\ k \in 1..Len(s) BY LenProperties
<1>2. u \in Seq(S) /\ Len(u) = k - 1 /\ \A i \in 1..(k - 1) : u[i] = s[i] BY <1>1, SubSeqProperties
<1>3. v \in Seq(S) /\ Len(v) = Len(s) - k /\ \A i \in 1..(Len(s) - k) : v[i] = s[k + i]
  BY <1>1, SubSeqProperties
<1>4. /\ t \in Seq(S) /\ Len(t) = Len(s) - 1
      /\ \A i \in 1..Len(t) : t[i] = IF i < k THEN s[i] ELSE s[i + 1]
  <2>1. t = u \o v BY DEF RemoveAt
  <2> HIDE DEF t, u, v
  <2>2. /\ t \in Seq(S) /\ Len(t) = Len(u) + Len(v)
        /\ \A i \in 1..(Len(u) + Len(v)) :
              t[i] = IF i <= Len(u) THEN u[i] ELSE v[i - Len(u)]
    BY <2>1, <1>2, <1>3, ConcatProperties
  <2>3. ASSUME NEW i \in 1..Len(t) PROVE t[i] = IF i < k THEN s[i] ELSE s[i + 1]
    <3>1. CASE i < k BY <3>1, <2>2, <1>1, <1>2, <1>3
    <3>2. CASE ~(i < k)
      <4>1. i - (k - 1) \in 1..(Len(s) - k) /\ k + (i - (k - 1)) = i + 1 /\ ~(i <= Len(u))
        BY <3>2, <2>2, <1>1, <1>2, <1>3, SMTT(30)
      <4>2. t[i] = v[i - (k - 1)] BY <4>1, <2>2, <1>1, <1>2, <1>3
      <4> QED BY <4>1, <4>2, <3>2, <1>3
    <3> QED BY <3>1, <3>2
  <2> QED BY <2>2, <2>3, <1>1, <1>2, <1>3
<1>5. DOMAIN t = 1..Len(t) BY <1>4, LenProperties
<1> HIDE DEF t, u, v
<1>6. IsInjective(t)
  <2> SUFFICES ASSUME NEW i \in 1..Len(t), NEW j \in 1..Len(t), t[i] = t[j] PROVE i = j
    BY <1>5 DEF IsInjective
  <2> DEFINE f(m) == IF m < k THEN m ELSE m + 1
  <2>1. f(i) \in 1..Len(s) /\ f(j) \in 1..Len(s) BY <1>1, <1>4
  <2>2. t[i] = s[f(i)] /\ t[j] = s[f(j)] BY <1>4
  <2>3. f(i) = f(j)
    <3> HIDE DEF f
    <3> QED BY <2>1, <2>2, <1>1 DEF IsInjective
  <2> QED BY <2>3, <1>1, <1>4
<1>7. ASSUME NEW x \in ToSet(s), x # s[k] PROVE x \in ToSet(t)
  <2>1. PICK i \in 1..Len(s) : s[i] = x BY <1>1 DEF ToSet
  <2>2. \E j \in 1..Len(t) : t[j] = x
    <3>1. CASE i < k BY <3>1, <2>1, <1>1, <1>4
    <3>2. CASE i > k
      <4>1. i - 1 \in 1..Len(t) /\ ~(i - 1 < k) /\ (i - 1) + 1 = i BY <3>2, <1>1, <1>4
      <4> QED BY <4>1, <2>1, <1>4
    <3> QED BY <3>1, <3>2, <2>1, <1>7, <1>1
  <2> QED BY <2>2, <1>5 DEF ToSet
<1>8. ASSUME NEW x \in ToSet(t) PROVE x \in ToSet(s) /\ x # s[k]
  <2>1. PICK i \in 1..Len(t) : t[i] = x BY <1>5 DEF ToSet
  <2>2. \E j \in 1..Len(s) : j # k /\ s[j] = x BY <2>1, <1>1, <1>4
  <2> QED BY <2>2, <1>1 DEF ToSet, IsInjective
<1> QED BY <1>4, <1>6, <1>7, <1>8, <1>1 DEF t, ToSet

\* Counting after one joined, left, or handed its place over.
LEMMA CountMembers ==
    ASSUME NEW H, IsFiniteSet(H)
    PROVE  /\ Cardinality(H) \in Nat
           /\ \A c : c \notin H => /\ IsFiniteSet(H \cup {c})
                                         /\ Cardinality(H \cup {c}) = Cardinality(H) + 1
           /\ \A c \in H : /\ IsFiniteSet(H \ {c})
                                 /\ Cardinality(H \ {c}) = Cardinality(H) - 1
                                 /\ Cardinality(H) >= 1
           /\ \A c \in H : \A d : d \notin H =>
                  /\ IsFiniteSet((H \ {c}) \cup {d})
                  /\ Cardinality((H \ {c}) \cup {d}) = Cardinality(H)
<1>1. Cardinality(H) \in Nat BY FS_CardinalityType
<1>2. ASSUME NEW c, c \notin H
      PROVE  IsFiniteSet(H \cup {c}) /\ Cardinality(H \cup {c}) = Cardinality(H) + 1
  BY <1>2, FS_AddElement
<1>3. ASSUME NEW c \in H
      PROVE  /\ IsFiniteSet(H \ {c}) /\ Cardinality(H \ {c}) = Cardinality(H) - 1
             /\ Cardinality(H) >= 1
  <2>1. IsFiniteSet(H \ {c}) /\ Cardinality(H \ {c}) = Cardinality(H) - 1 BY FS_RemoveElement
  <2>2. Cardinality(H \ {c}) \in Nat BY <2>1, FS_CardinalityType
  <2> QED BY <2>1, <2>2, <1>1
<1>4. ASSUME NEW c \in H, NEW d, d \notin H
      PROVE  /\ IsFiniteSet((H \ {c}) \cup {d})
             /\ Cardinality((H \ {c}) \cup {d}) = Cardinality(H)
  <2>1. IsFiniteSet(H \ {c}) /\ Cardinality(H \ {c}) = Cardinality(H) - 1 BY <1>3
  <2> DEFINE rest == H \ {c}
  <2>2. IsFiniteSet(rest) /\ d \notin rest /\ Cardinality(rest) + 1 = Cardinality(H)
    BY <2>1, <1>1, <1>4
  <2> HIDE DEF rest
  <2>3. IsFiniteSet(rest \cup {d}) /\ Cardinality(rest \cup {d}) = Cardinality(rest) + 1
    BY <2>2, FS_AddElement
  <2> QED BY <2>2, <2>3 DEF rest
<1> QED BY <1>1, <1>2, <1>3, <1>4

\* A line has as many places as members.
LEMMA LineLength ==
    ASSUME NEW S, NEW s \in Seq(S), IsInjective(s)
    PROVE  IsFiniteSet(ToSet(s)) /\ Cardinality(ToSet(s)) = Len(s)
<1>1. DOMAIN s = 1..Len(s) /\ Len(s) \in Nat BY LenProperties
<1>2. s \in Bijection(1..Len(s), ToSet(s))
  BY <1>1 DEF IsInjective, ToSet, Bijection, Injection, Surjection
<1>3. ExistsBijection(1..Len(s), ToSet(s)) BY <1>2 DEF ExistsBijection
<1>4. IsFiniteSet(1..Len(s)) /\ Cardinality(1..Len(s)) = Len(s) BY <1>1, FS_Interval, SMTT(30)
<1> QED BY <1>1, <1>3, <1>4, FS_Bijection

----------------------------------------
(* Orders: relations, as sets of pairs, under which a finite set has its   *)
(* members in order.                                                       *)

Orders(R, S) ==
    /\ \A a \in S : <<a, a>> \notin R
    /\ \A a, b \in S : a # b => <<a, b>> \in R \/ <<b, a>> \in R
    /\ \A a, b, c \in S : <<a, b>> \in R /\ <<b, c>> \in R => <<a, c>> \in R

\* A non-empty finite set has a first member: the one with the fewest before it.
LEMMA FirstMember ==
    ASSUME NEW S, IsFiniteSet(S), S # {}, NEW R, Orders(R, S)
    PROVE  \E x \in S : \A y \in S \ {x} : <<x, y>> \in R
<1> DEFINE ahead(x) == {y \in S : <<y, x>> \in R}
           T == {Cardinality(ahead(x)) : x \in S}
<1>1. \A x \in S : IsFiniteSet(ahead(x)) /\ Cardinality(ahead(x)) \in Nat
  BY FS_Subset, FS_CardinalityType
<1>2. T \subseteq Nat /\ T # {} BY <1>1
<1>3. PICK n \in T : \A m \in T : n <= m
  <2> HIDE DEF T
  <2> QED BY <1>2, LeastNumber
<1>4. PICK x \in S : n = Cardinality(ahead(x)) BY <1>3
<1>5. ASSUME NEW y \in S, <<y, x>> \in R PROVE FALSE
  <2>1. ahead(y) \subseteq ahead(x) /\ y \in ahead(x) /\ y \notin ahead(y) BY <1>5 DEF Orders
  <2>2. ahead(y) # ahead(x) BY <2>1
  <2>3. Cardinality(ahead(y)) \in T BY <1>5
  <2> HIDE DEF ahead, T
  <2>4. Cardinality(ahead(y)) < Cardinality(ahead(x))
    <3>1. IsFiniteSet(ahead(x)) /\ IsFiniteSet(ahead(y)) BY <1>1, <1>5
    <3>2. Cardinality(ahead(y)) <= Cardinality(ahead(x)) BY <2>1, <3>1, FS_Subset
    <3>3. Cardinality(ahead(y)) # Cardinality(ahead(x)) BY <2>1, <2>2, <3>1, FS_Subset
    <3> QED BY <3>2, <3>3, <1>1, <1>4, <1>5
  <2>5. Cardinality(ahead(x)) <= Cardinality(ahead(y)) BY <1>3, <1>4, <2>3
  <2> QED BY <2>4, <2>5, <1>1, <1>4, <1>5
<1>6. \A y \in S \ {x} : <<x, y>> \in R BY <1>4, <1>5 DEF Orders
<1> QED BY <1>4, <1>6

\* A finite set has its members in order.
LEMMA LineUpExists ==
    ASSUME NEW R, NEW n \in Nat
    PROVE  \A S : IsFiniteSet(S) /\ Cardinality(S) = n /\ Orders(R, S) =>
              \E q \in [1..n -> S] : \A i, j \in 1..n : i < j => <<q[i], q[j]>> \in R
<1> DEFINE Has(S, m) == \E q \in [1..m -> S] : \A i, j \in 1..m : i < j => <<q[i], q[j]>> \in R
           Sets(m, S) == IsFiniteSet(S) /\ Cardinality(S) = m /\ Orders(R, S)
           Fails == {m \in Nat : \E S : Sets(m, S) /\ ~Has(S, m)}
<1>1. SUFFICES ASSUME Fails # {} PROVE FALSE
  <2> SUFFICES ASSUME Fails = {} PROVE \A S : Sets(n, S) => Has(S, n) BY Zenon
  <2> QED BY Zenon
<1>2. PICK m \in Fails : \A k \in Fails : m <= k
  <2> HIDE DEF Fails
  <2>1. Fails \subseteq Nat BY DEF Fails
  <2> QED BY <1>1, <2>1, LeastNumber
<1>3. PICK S : Sets(m, S) /\ ~Has(S, m) BY <1>2, Zenon
<1>4. m \in Nat /\ IsFiniteSet(S) /\ Cardinality(S) = m /\ Orders(R, S) BY <1>2, <1>3
<1>5. m # 0
  <2> SUFFICES ASSUME m = 0 PROVE FALSE OBVIOUS
  <2>1. 1..m = {} OBVIOUS
  <2>2. [i \in 1..m |-> 0] \in [1..m -> S] BY <2>1
  <2>3. Has(S, m) BY <2>1, <2>2
  <2> QED BY <2>3, <1>3, Zenon
<1>6. S # {} BY <1>4, <1>5, FS_EmptySet
<1>7. PICK x \in S : \A y \in S \ {x} : <<x, y>> \in R BY <1>4, <1>6, FirstMember
<1> DEFINE rest == S \ {x}
<1>8. IsFiniteSet(rest) /\ Cardinality(rest) = m - 1 /\ m - 1 \in Nat
  <2> HIDE DEF Fails
  <2>1. IsFiniteSet(rest) /\ Cardinality(rest) = Cardinality(S) - 1 BY <1>4, CountMembers
  <2> QED BY <2>1, <1>4, <1>5
<1>9. Orders(R, rest) BY <1>4 DEF Orders
<1>10. Has(rest, m - 1)
  <2>1. m - 1 \notin Fails BY <1>2, <1>4, <1>8
  <2>2. Sets(m - 1, rest) BY <1>8, <1>9
  <2> HIDE DEF rest, Has, Sets
  <2> QED BY <2>1, <2>2, <1>8, Zenon
<1>11. PICK q \in [1..(m - 1) -> rest] : \A i, j \in 1..(m - 1) : i < j => <<q[i], q[j]>> \in R
  BY <1>10
<1> DEFINE p == [i \in 1..m |-> IF i = 1 THEN x ELSE q[i - 1]]
<1>12. \A i \in 1..m : i # 1 => i - 1 \in 1..(m - 1) /\ p[i] = q[i - 1] /\ p[i] \in rest
  BY <1>4, <1>11
<1>13. p \in [1..m -> S] BY <1>12
<1>14. ASSUME NEW i \in 1..m, NEW j \in 1..m, i < j PROVE <<p[i], p[j]>> \in R
  <2>1. j # 1 /\ p[j] \in rest BY <1>4, <1>14, <1>12
  <2>2. CASE i = 1 BY <2>1, <2>2, <1>7
  <2>3. CASE i # 1
    <3>1. i - 1 < j - 1 BY <1>4, <1>14
    <3> HIDE DEF p, rest
    <3> QED BY <3>1, <2>1, <2>3, <1>11, <1>12
  <2> QED BY <2>2, <2>3
<1>15. Has(S, m)
  <2> HIDE DEF p
  <2> QED BY <1>13, <1>14
<1> QED BY <1>3, <1>15, Zenon

\* In order, each member stands once.
LEMMA LineUp ==
    ASSUME NEW S, IsFiniteSet(S), NEW R, Orders(R, S), NEW n, n = Cardinality(S)
    PROVE  /\ \E q \in [1..n -> S] : \A i, j \in 1..n : i < j => <<q[i], q[j]>> \in R
           /\ \A q \in [1..n -> S] : (\A i, j \in 1..n : i < j => <<q[i], q[j]>> \in R)
                 => q \in Seq(S) /\ Len(q) = n /\ IsInjective(q) /\ ToSet(q) = S
<1>1. n \in Nat BY FS_CardinalityType
<1>2. \E q \in [1..n -> S] : \A i, j \in 1..n : i < j => <<q[i], q[j]>> \in R BY <1>1, LineUpExists
<1>3. ASSUME NEW q \in [1..n -> S], \A i, j \in 1..n : i < j => <<q[i], q[j]>> \in R
      PROVE  q \in Seq(S) /\ Len(q) = n /\ IsInjective(q) /\ ToSet(q) = S
  <2>1. q \in Seq(S) /\ DOMAIN q = 1..n /\ Len(q) = n BY <1>1, SeqDef, LenProperties
  <2>2. IsInjective(q)
    <3> SUFFICES ASSUME NEW i \in 1..n, NEW j \in 1..n, q[i] = q[j] PROVE i = j
      BY <2>1 DEF IsInjective
    <3>1. <<q[i], q[j]>> \notin R /\ <<q[j], q[i]>> \notin R BY DEF Orders
    <3>2. ~(i < j) /\ ~(j < i) BY <3>1, <1>3
    <3>3. i \in Int /\ j \in Int BY <1>1
    <3> QED BY <3>2, <3>3
  <2>3. ToSet(q) \subseteq S BY <2>1 DEF ToSet
  <2>4. Cardinality(ToSet(q)) = n BY <2>1, <2>2, LineLength
  <2>5. ToSet(q) = S BY <2>3, <2>4, FS_Subset
  <2> QED BY <2>1, <2>2, <2>5
<1> QED BY <1>2, <1>3
=============================================================================
