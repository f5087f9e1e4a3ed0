------------------------------ MODULE ListFacts ------------------------------
(* Facts about numbers, ordered lists and recursive functions that the       *)
(* proofs of several components rest on.                                     *)
EXTENDS Integers, SequencesExt, FiniteSetTheorems, SequenceTheorems,
        NaturalsInduction, WellFoundedInduction, TLAPS

\* Every non-empty set of natural numbers has a smallest member.
LEMMA LeastExists ==
  ASSUME NEW S \in SUBSET Nat, S # {}
  PROVE  \E i \in S : \A j \in S : i <= j
<1> DEFINE R == OpToRel(<, Nat)
<1>1. IsWellFoundedOn(R, Nat)
  BY NatLessThanWellFounded
<1>2. \A x, y \in Nat : y < x => <<y, x>> \in R
  BY DEF OpToRel
<1> HIDE DEF R
<1>3. PICK x \in S : \A y \in S : ~ (<<y, x>> \in R)
  BY <1>1, WFMin
<1>4. ASSUME NEW y \in S PROVE x <= y
  <2>1. x \in Nat /\ y \in Nat /\ ~ (y < x)
    BY <1>2, <1>3
  <2>2. QED
    BY <2>1
<1>5. QED
  BY <1>4

---------------------------------------------------------------------------
(* Ascending lists of numbers *)

Ascends(s) == \A i, j \in DOMAIN s : i < j => s[i] < s[j]

\* A list without one of its members.
LEMMA RemoveAtProp ==
  ASSUME NEW S, NEW s \in Seq(S), NEW i \in 1 .. Len(s)
  PROVE  /\ RemoveAt(s, i) \in Seq(S)
         /\ Len(RemoveAt(s, i)) = Len(s) - 1
         /\ \A j \in 1 .. Len(s) - 1 :
              RemoveAt(s, i)[j] = IF j < i THEN s[j] ELSE s[j + 1]
<1> DEFINE l == SubSeq(s, 1, i - 1)
           r == SubSeq(s, i + 1, Len(s))
<1>1. l \in Seq(S) /\ Len(l) = i - 1 /\ \A j \in 1 .. i - 1 : l[j] = s[j]
  OBVIOUS
<1>2. r \in Seq(S) /\ Len(r) = Len(s) - i /\ \A j \in 1 .. Len(s) - i : r[j] = s[i + j]
  OBVIOUS
<1>3. RemoveAt(s, i) = l \o r
  BY DEF RemoveAt
<1> HIDE DEF l, r
<1>4. /\ l \o r \in Seq(S) /\ Len(l \o r) = Len(l) + Len(r)
      /\ \A j \in 1 .. Len(l) + Len(r) :
           (l \o r)[j] = IF j <= Len(l) THEN l[j] ELSE r[j - Len(l)]
  BY <1>1, <1>2, ConcatProperties
<1>5. Len(s) \in Nat /\ i \in Nat
  OBVIOUS
<1>6. ASSUME NEW j \in 1 .. Len(s) - 1
      PROVE  (l \o r)[j] = IF j < i THEN s[j] ELSE s[j + 1]
  BY <1>1, <1>2, <1>4, <1>5
<1>7. QED
  BY <1>1, <1>2, <1>3, <1>4, <1>5, <1>6

\* A list with one more member.
LEMMA InsertAtProp ==
  ASSUME NEW S, NEW s \in Seq(S), NEW e \in S, NEW k \in 1 .. Len(s) + 1
  PROVE  /\ InsertAt(s, k, e) \in Seq(S)
         /\ Len(InsertAt(s, k, e)) = Len(s) + 1
         /\ \A j \in 1 .. Len(s) + 1 :
              InsertAt(s, k, e)[j] = IF j < k THEN s[j] ELSE IF j = k THEN e ELSE s[j - 1]
<1> DEFINE l == SubSeq(s, 1, k - 1)
           r == SubSeq(s, k, Len(s))
<1>1. l \in Seq(S) /\ Len(l) = k - 1 /\ \A j \in 1 .. k - 1 : l[j] = s[j]
  OBVIOUS
<1>2. r \in Seq(S) /\ Len(r) = Len(s) - k + 1 /\ \A j \in 1 .. Len(s) - k + 1 : r[j] = s[k + j - 1]
  OBVIOUS
<1> DEFINE m == <<e>>
<1>3. InsertAt(s, k, e) = l \o m \o r
  BY DEF InsertAt
<1>4. m \in Seq(S) /\ Len(m) = 1 /\ m[1] = e
  OBVIOUS
<1> HIDE DEF l, r, m
<1>0. Len(s) \in Nat /\ k \in Nat /\ k >= 1 /\ k <= Len(s) + 1
  OBVIOUS
<1>5. /\ l \o m \in Seq(S) /\ Len(l \o m) = k
      /\ \A j \in 1 .. k : (l \o m)[j] = IF j < k THEN l[j] ELSE e
  <2>1. /\ l \o m \in Seq(S) /\ Len(l \o m) = Len(l) + Len(m)
        /\ \A j \in 1 .. Len(l) + Len(m) :
             (l \o m)[j] = IF j <= Len(l) THEN l[j] ELSE m[j - Len(l)]
    BY <1>1, <1>4, ConcatProperties
  <2>2. ASSUME NEW j \in 1 .. k PROVE (l \o m)[j] = IF j < k THEN l[j] ELSE e
    <3>1. CASE j < k
      BY <1>0, <1>1, <1>4, <2>1, <3>1
    <3>2. CASE j = k
      <4>1. j - Len(l) = 1 /\ ~(j <= Len(l)) /\ j \in 1 .. Len(l) + Len(m)
        BY <1>0, <1>1, <1>4, <3>2
      <4>2. QED
        BY <1>4, <2>1, <3>2, <4>1
    <3>3. j < k \/ j = k
      BY <1>0
    <3>4. QED
      BY <3>1, <3>2, <3>3
  <2>3. QED
    BY <1>0, <1>1, <1>4, <2>1, <2>2
<1>6. /\ l \o m \o r \in Seq(S) /\ Len(l \o m \o r) = Len(s) + 1
      /\ \A j \in 1 .. Len(s) + 1 :
           (l \o m \o r)[j] = IF j <= k THEN (l \o m)[j] ELSE r[j - k]
  BY <1>2, <1>5, ConcatProperties
<1>8. ASSUME NEW j \in 1 .. Len(s) + 1
      PROVE  (l \o m \o r)[j] = IF j < k THEN s[j] ELSE IF j = k THEN e ELSE s[j - 1]
  <2>1. CASE j <= k
    BY <1>0, <1>1, <1>5, <1>6, <2>1
  <2>2. CASE j > k
    <3>1. j - k \in 1 .. Len(s) - k + 1 /\ k + (j - k) - 1 = j - 1 /\ ~(j <= k) /\ j # k /\ ~(j < k)
      BY <1>0, <2>2
    <3>2. QED
      BY <1>2, <1>6, <3>1
  <2>3. j <= k \/ j > k
    BY <1>0
  <2>4. QED
    BY <2>1, <2>2, <2>3
<1>9. QED
  BY <1>3, <1>6, <1>8

\* Removing keeps the order, and takes out one member only.
LEMMA RemoveAscends ==
  ASSUME NEW S \in SUBSET Int, NEW s \in Seq(S), NEW i \in 1 .. Len(s), Ascends(s)
  PROVE  /\ Ascends(RemoveAt(s, i))
         /\ ToSet(RemoveAt(s, i)) = ToSet(s) \ {s[i]}
<1> DEFINE t == RemoveAt(s, i)
<1>1. /\ t \in Seq(S) /\ Len(t) = Len(s) - 1
      /\ \A j \in 1 .. Len(s) - 1 : t[j] = IF j < i THEN s[j] ELSE s[j + 1]
  BY RemoveAtProp
<1> HIDE DEF t
<1>0. /\ Len(s) \in Nat /\ DOMAIN s = 1 .. Len(s) /\ DOMAIN t = 1 .. Len(s) - 1
      /\ i \in Nat /\ i >= 1 /\ i <= Len(s)
      /\ \A j \in 1 .. Len(s) : s[j] \in Int
  <2>1. Len(s) \in Nat /\ DOMAIN s = 1 .. Len(s) /\ \A j \in 1 .. Len(s) : s[j] \in S
    OBVIOUS
  <2>2. DOMAIN t = 1 .. Len(t) /\ Len(t) = Len(s) - 1
    BY <1>1
  <2>3. i \in Nat /\ i >= 1 /\ i <= Len(s)
    BY <2>1
  <2>4. \A j \in 1 .. Len(s) : s[j] \in Int
    BY <2>1
  <2>5. QED
    BY <2>1, <2>2, <2>3, <2>4
<1>2. Ascends(t)
  <2> SUFFICES ASSUME NEW a \in DOMAIN t, NEW b \in DOMAIN t, a < b PROVE t[a] < t[b]
    BY DEF Ascends
  <2> DEFINE a1 == IF a < i THEN a ELSE a + 1
             b1 == IF b < i THEN b ELSE b + 1
  <2>1. a1 \in DOMAIN s /\ b1 \in DOMAIN s /\ a1 < b1
    BY <1>0
  <2>2. t[a] = s[a1] /\ t[b] = s[b1]
    BY <1>0, <1>1
  <2>3. QED
    BY <2>1, <2>2 DEF Ascends
<1>3. ASSUME NEW x \in ToSet(t) PROVE x \in ToSet(s) \ {s[i]}
  <2>1. PICK j \in DOMAIN t : x = t[j]
    BY DEF ToSet
  <2>2. CASE j < i
    <3>1. j \in DOMAIN s /\ i \in DOMAIN s
      BY <1>0, <2>2
    <3>2. x = s[j] /\ s[j] < s[i]
      BY <1>0, <1>1, <2>1, <2>2, <3>1 DEF Ascends
    <3>3. x \in ToSet(s)
      BY <3>1, <3>2 DEF ToSet
    <3>4. x # s[i]
      BY <1>0, <3>1, <3>2
    <3>5. QED
      BY <3>3, <3>4
  <2>3. CASE ~(j < i)
    <3>1. j + 1 \in DOMAIN s /\ i \in DOMAIN s /\ i < j + 1
      BY <1>0, <2>3
    <3>2. x = s[j + 1] /\ s[i] < s[j + 1]
      BY <1>0, <1>1, <2>1, <2>3, <3>1 DEF Ascends
    <3>3. x \in ToSet(s)
      BY <3>1, <3>2 DEF ToSet
    <3>4. x # s[i]
      BY <1>0, <3>1, <3>2
    <3>5. QED
      BY <3>3, <3>4
  <2>4. QED
    BY <2>2, <2>3
<1>4. ASSUME NEW x \in ToSet(s) \ {s[i]} PROVE x \in ToSet(t)
  <2>1. PICK j \in DOMAIN s : x = s[j] /\ j # i
    BY DEF ToSet
  <2>2. CASE j < i
    <3>1. j \in DOMAIN t /\ x = t[j]
      BY <1>0, <1>1, <2>1, <2>2
    <3>2. QED
      BY <3>1 DEF ToSet
  <2>3. CASE ~(j < i)
    <3>1. j - 1 \in DOMAIN t /\ x = t[j - 1]
      BY <1>0, <1>1, <2>1, <2>3
    <3>2. QED
      BY <3>1 DEF ToSet
  <2>4. QED
    BY <2>2, <2>3
<1>5. QED
  BY <1>2, <1>3, <1>4 DEF t

\* The positions of an ascending list, for a proof.
LEMMA ListFact ==
  ASSUME NEW S \in SUBSET Int, NEW s \in Seq(S)
  PROVE  /\ Len(s) \in Nat /\ DOMAIN s = 1 .. Len(s)
         /\ \A j \in 1 .. Len(s) : s[j] \in S /\ s[j] \in Int
<1>1. Len(s) \in Nat /\ DOMAIN s = 1 .. Len(s) /\ \A j \in 1 .. Len(s) : s[j] \in S
  OBVIOUS
<1>2. QED
  BY <1>1

\* How many members of an ascending list are smaller than e: those in front.
LEMMA CountBefore ==
  ASSUME NEW S \in SUBSET Int, NEW s \in Seq(S), Ascends(s), NEW e \in Int
  PROVE  LET n == Cardinality({i \in DOMAIN s : s[i] < e})
         IN  /\ n \in 0 .. Len(s)
             /\ \A i \in DOMAIN s : s[i] < e <=> i <= n
<1> DEFINE D == {i \in 1 .. Len(s) + 1 : i = Len(s) + 1 \/ ~(s[i] < e)}
<1>0. /\ Len(s) \in Nat /\ DOMAIN s = 1 .. Len(s)
      /\ \A j \in 1 .. Len(s) : s[j] \in Int
  BY ListFact
<1>1. Len(s) + 1 \in D /\ D \in SUBSET Nat
  BY <1>0
<1>2. PICK m \in D : \A j \in D : m <= j
  <2> HIDE DEF D
  <2>1. QED
    BY <1>1, LeastExists
<1>3. m \in 1 .. Len(s) + 1 /\ m - 1 \in 0 .. Len(s)
  BY <1>0, <1>2
<1>4. ASSUME NEW i \in DOMAIN s PROVE s[i] < e <=> i <= m - 1
  <2>1. CASE i < m
    BY <1>0, <1>2, <1>3, <2>1
  <2>2. CASE i >= m
    <3>1. ~(s[m] < e) /\ m \in DOMAIN s
      BY <1>0, <1>2, <1>3, <2>2
    <3>2. i = m \/ s[m] < s[i]
      BY <1>0, <2>2, <3>1 DEF Ascends
    <3>3. QED
      BY <1>0, <1>3, <2>2, <3>1, <3>2
  <2>3. i < m \/ i >= m
    BY <1>0, <1>3
  <2>4. QED
    BY <2>1, <2>2, <2>3
<1>5. {i \in DOMAIN s : s[i] < e} = 1 .. m - 1
  BY <1>0, <1>3, <1>4
<1>6. Cardinality(1 .. m - 1) = m - 1
  BY <1>3, <1>0, FS_Interval
<1>7. QED
  BY <1>3, <1>4, <1>5, <1>6

\* Inserting a new member where it belongs keeps the order.
LEMMA InsertAscends ==
  ASSUME NEW S \in SUBSET Int, NEW s \in Seq(S), Ascends(s), NEW e \in S,
         e \notin ToSet(s), NEW k \in 1 .. Len(s) + 1,
         \A i \in DOMAIN s : s[i] < e <=> i < k
  PROVE  /\ Ascends(InsertAt(s, k, e))
         /\ ToSet(InsertAt(s, k, e)) = ToSet(s) \cup {e}
<1> DEFINE t == InsertAt(s, k, e)
<1>1. /\ t \in Seq(S) /\ Len(t) = Len(s) + 1
      /\ \A j \in 1 .. Len(s) + 1 :
           t[j] = IF j < k THEN s[j] ELSE IF j = k THEN e ELSE s[j - 1]
  BY InsertAtProp
<1> HIDE DEF t
<1>0. /\ Len(s) \in Nat /\ DOMAIN s = 1 .. Len(s) /\ DOMAIN t = 1 .. Len(s) + 1
      /\ \A j \in 1 .. Len(s) : s[j] \in Int /\ s[j] # e
      /\ e \in Int /\ k \in Nat /\ k >= 1 /\ k <= Len(s) + 1
  <2>1. /\ Len(s) \in Nat /\ DOMAIN s = 1 .. Len(s) /\ \A j \in 1 .. Len(s) : s[j] \in Int
    BY ListFact
  <2>2. DOMAIN t = 1 .. Len(s) + 1
    BY <1>1, ListFact
  <2>3. \A j \in 1 .. Len(s) : s[j] # e
    BY <2>1 DEF ToSet
  <2>4. QED
    BY <2>1, <2>2, <2>3
<1>2. Ascends(t)
  <2> SUFFICES ASSUME NEW a \in DOMAIN t, NEW b \in DOMAIN t, a < b PROVE t[a] < t[b]
    BY DEF Ascends
  <2>1. CASE b < k
    <3>1. a \in DOMAIN s /\ b \in DOMAIN s /\ t[a] = s[a] /\ t[b] = s[b]
      BY <1>0, <1>1, <2>1
    <3>2. QED
      BY <3>1 DEF Ascends
  <2>2. CASE b = k
    <3>1. a \in DOMAIN s /\ a < k /\ t[a] = s[a] /\ t[b] = e
      BY <1>0, <1>1, <2>2
    <3>2. QED
      BY <3>1
  <2>3. CASE b > k /\ a < k
    <3>1. /\ a \in DOMAIN s /\ b - 1 \in DOMAIN s /\ a < b - 1
          /\ t[a] = s[a] /\ t[b] = s[b - 1]
      BY <1>0, <1>1, <2>3
    <3>2. QED
      BY <3>1 DEF Ascends
  <2>4. CASE b > k /\ a = k
    <3>1. b - 1 \in DOMAIN s /\ ~(b - 1 < k) /\ t[a] = e /\ t[b] = s[b - 1]
      BY <1>0, <1>1, <2>4
    <3>2. ~(s[b - 1] < e) /\ s[b - 1] \in Int /\ s[b - 1] # e
      BY <1>0, <3>1
    <3>3. QED
      BY <1>0, <3>1, <3>2
  <2>5. CASE b > k /\ a > k
    <3>1. /\ a - 1 \in DOMAIN s /\ b - 1 \in DOMAIN s /\ a - 1 < b - 1
          /\ t[a] = s[a - 1] /\ t[b] = s[b - 1]
      BY <1>0, <1>1, <2>5
    <3>2. QED
      BY <3>1 DEF Ascends
  <2>6. b < k \/ b = k \/ (b > k /\ (a < k \/ a = k \/ a > k))
    BY <1>0
  <2>7. QED
    BY <2>1, <2>2, <2>3, <2>4, <2>5, <2>6
<1>3. ASSUME NEW x \in ToSet(t) PROVE x \in ToSet(s) \cup {e}
  <2>1. PICK j \in DOMAIN t : x = t[j]
    BY DEF ToSet
  <2>2. \/ j \in DOMAIN s /\ x = s[j]
        \/ x = e
        \/ j - 1 \in DOMAIN s /\ x = s[j - 1]
    BY <1>0, <1>1, <2>1
  <2>3. QED
    BY <2>2 DEF ToSet
<1>4. ASSUME NEW x \in ToSet(s) \cup {e} PROVE x \in ToSet(t)
  <2>1. CASE x = e
    <3>1. k \in DOMAIN t /\ t[k] = e
      BY <1>0, <1>1
    <3>2. QED
      BY <2>1, <3>1 DEF ToSet
  <2>2. CASE x \in ToSet(s)
    <3>1. PICK j \in DOMAIN s : x = s[j]
      BY <2>2 DEF ToSet
    <3>2. \/ j \in DOMAIN t /\ x = t[j]
          \/ j + 1 \in DOMAIN t /\ x = t[j + 1]
      <4>1. CASE j < k
        BY <1>0, <1>1, <3>1, <4>1
      <4>2. CASE ~(j < k)
        <5>1. j + 1 \in DOMAIN t /\ ~(j + 1 < k) /\ j + 1 # k /\ (j + 1) - 1 = j
          BY <1>0, <4>2
        <5>2. QED
          BY <1>0, <1>1, <3>1, <5>1
      <4>3. QED
        BY <4>1, <4>2
    <3>3. QED
      BY <3>2 DEF ToSet
  <2>3. QED
    BY <2>1, <2>2
<1>5. QED
  BY <1>2, <1>3, <1>4 DEF t

Replaced(s, i, e, t) == t = [s EXCEPT ![i] = e]

\* Moving a member up, but not past the next one, keeps the order.
LEMMA ReplaceAscends ==
  ASSUME NEW S \in SUBSET Int, NEW s \in Seq(S), Ascends(s), NEW e \in S,
         NEW i \in 1 .. Len(s), s[i] < e, \A j \in DOMAIN s : j > i => e < s[j],
         NEW t, Replaced(s, i, e, t)
  PROVE  /\ t \in Seq(S) /\ Len(t) = Len(s)
         /\ Ascends(t)
         /\ ToSet(t) = (ToSet(s) \ {s[i]}) \cup {e}
<1>1. /\ t \in Seq(S) /\ Len(t) = Len(s)
      /\ \A j \in 1 .. Len(s) : t[j] = IF j = i THEN e ELSE s[j]
  BY DEF Replaced
<1>0. /\ Len(s) \in Nat /\ DOMAIN s = 1 .. Len(s) /\ DOMAIN t = 1 .. Len(s)
      /\ \A j \in 1 .. Len(s) : s[j] \in Int
      /\ e \in Int /\ i \in Nat /\ i >= 1 /\ i <= Len(s) /\ i \in DOMAIN s
  <2>1. /\ Len(s) \in Nat /\ DOMAIN s = 1 .. Len(s) /\ \A j \in 1 .. Len(s) : s[j] \in Int
    BY ListFact
  <2>2. DOMAIN t = 1 .. Len(s)
    BY <1>1, ListFact
  <2>3. QED
    BY <2>1, <2>2
<1>2. Ascends(t)
  <2> SUFFICES ASSUME NEW a \in DOMAIN t, NEW b \in DOMAIN t, a < b PROVE t[a] < t[b]
    BY DEF Ascends
  <2>1. a \in DOMAIN s /\ b \in DOMAIN s /\ s[a] < s[b] /\ s[a] \in Int /\ s[b] \in Int
    BY <1>0 DEF Ascends
  <2>2. CASE b = i
    BY <1>0, <1>1, <2>1, <2>2
  <2>3. CASE a = i
    BY <1>0, <1>1, <2>1, <2>3
  <2>4. CASE a # i /\ b # i
    BY <1>0, <1>1, <2>1, <2>4
  <2>5. QED
    BY <2>2, <2>3, <2>4
<1>3. ASSUME NEW j \in DOMAIN s, j # i PROVE s[j] # s[i]
  <2>1. j < i \/ i < j
    BY <1>0, <1>3
  <2>2. s[j] < s[i] \/ s[i] < s[j]
    BY <1>0, <2>1 DEF Ascends
  <2>3. QED
    BY <1>0, <2>2
<1>4. ASSUME NEW x \in ToSet(t) PROVE x \in (ToSet(s) \ {s[i]}) \cup {e}
  BY <1>0, <1>1, <1>3 DEF ToSet
<1>5. ASSUME NEW x \in (ToSet(s) \ {s[i]}) \cup {e} PROVE x \in ToSet(t)
  BY <1>0, <1>1 DEF ToSet
<1>6. QED
  BY <1>1, <1>2, <1>4, <1>5

---------------------------------------------------------------------------
(* Loops: functions on 0 .. n that are defined by their value before *)

IsBody(F, S, n) == F \in [S \X (1 .. n) -> S]
IsRun(f, F, t, n) == f[0] = t /\ \A i \in 1 .. n : f[i] = F[<<f[i - 1], i>>]

\* A loop whose body keeps its state in S has a run.
LEMMA RunExists ==
  ASSUME NEW S, NEW t \in S, NEW n \in Nat, NEW F, IsBody(F, S, n)
  PROVE  \E f \in [0 .. n -> S] : IsRun(f, F, t, n)
<1> DEFINE Good(m) == \E f \in [0 .. m -> S] :
                        f[0] = t /\ \A i \in 1 .. m : f[i] = F[<<f[i - 1], i>>]
           Bad == {m \in 0 .. n : ~Good(m)}
<1>0. F \in [S \X (1 .. n) -> S]
  BY DEF IsBody
<1> SUFFICES ASSUME ~Good(n) PROVE FALSE
  BY DEF IsRun
<1>1. Bad \in SUBSET Nat /\ Bad # {}
  <2> HIDE DEF Good
  <2>1. n \in 0 .. n /\ 0 .. n \in SUBSET Nat
    OBVIOUS
  <2>2. QED
    BY <2>1
<1>2. PICK m \in Bad : \A j \in Bad : m <= j
  <2> HIDE DEF Bad
  <2>1. QED
    BY <1>1, LeastExists
<1>3. m \in 0 .. n /\ ~Good(m)
  OBVIOUS
<1>4. CASE m = 0
  <2> DEFINE f == [i \in 0 .. 0 |-> t]
  <2>1. f \in [0 .. 0 -> S] /\ f[0] = t /\ \A i \in 1 .. 0 : f[i] = F[<<f[i - 1], i>>]
    OBVIOUS
  <2> HIDE DEF f
  <2>2. Good(0)
    BY <2>1
  <2>3. QED
    BY <1>3, <1>4, <2>2
<1>5. CASE m # 0
  <2>1. m - 1 \in 0 .. n /\ ~(m <= m - 1)
    BY <1>3, <1>5
  <2>2. Good(m - 1)
    BY <1>2, <2>1
  <2>3. PICK g \in [0 .. m - 1 -> S] :
          g[0] = t /\ \A i \in 1 .. m - 1 : g[i] = F[<<g[i - 1], i>>]
    BY <2>2
  <2> HIDE DEF Bad, Good
  <2> DEFINE e == F[<<g[m - 1], m>>]
             f == [i \in 0 .. m |-> IF i = m THEN e ELSE g[i]]
  <2>4. m \in Nat /\ m >= 1 /\ m <= n
    BY <1>3, <1>5
  <2>5. e \in S
    <3>1. g[m - 1] \in S /\ m \in 1 .. n
      BY <2>4
    <3>2. <<g[m - 1], m>> \in S \X (1 .. n)
      BY <3>1
    <3>3. QED
      BY <1>0, <3>2
  <2>6. \A i \in 0 .. m - 1 : f[i] = g[i] /\ g[i] \in S
    BY <2>4
  <2>7. f[m] = e /\ f[m - 1] = g[m - 1] /\ f[0] = t
    BY <2>3, <2>4
  <2>8. f \in [0 .. m -> S]
    <3> HIDE DEF e
    <3>1. \A i \in 0 .. m : (IF i = m THEN e ELSE g[i]) \in S
      BY <2>4, <2>5
    <3>2. QED
      BY <3>1
  <2>9. ASSUME NEW i \in 1 .. m PROVE f[i] = F[<<f[i - 1], i>>]
    <3> HIDE DEF f
    <3>1. CASE i = m
      BY <2>7, <3>1
    <3>2. CASE i # m
      <4>1. i \in 1 .. m - 1 /\ i \in 0 .. m - 1 /\ i - 1 \in 0 .. m - 1
        BY <2>4, <3>2
      <4>2. f[i] = g[i] /\ f[i - 1] = g[i - 1]
        BY <2>6, <4>1
      <4>3. g[i] = F[<<g[i - 1], i>>]
        BY <2>3, <4>1
      <4>4. QED
        BY <4>2, <4>3
    <3>3. QED
      BY <3>1, <3>2
  <2> HIDE DEF f
  <2>10. Good(m)
    BY <2>7, <2>8, <2>9 DEF Good
  <2>11. QED
    BY <1>3, <2>10
<1>6. QED
  BY <1>4, <1>5

\* What every step of a loop keeps holds when it is over.
LEMMA RunKeeps ==
  ASSUME NEW S, NEW n \in Nat, NEW f, f[0] \in S,
         \A i \in 1 .. n : f[i - 1] \in S => f[i] \in S
  PROVE  \A i \in 0 .. n : f[i] \in S
<1> DEFINE Bad == {m \in 0 .. n : f[m] \notin S}
<1> SUFFICES ASSUME NEW x \in Bad PROVE FALSE
  OBVIOUS
<1>1. Bad \in SUBSET Nat /\ Bad # {}
  OBVIOUS
<1>2. PICK m \in Bad : \A j \in Bad : m <= j
  <2> HIDE DEF Bad
  <2>1. QED
    BY <1>1, LeastExists
<1>3. m # 0
  OBVIOUS
<1>4. m \in 1 .. n /\ m - 1 \in 0 .. n /\ ~(m <= m - 1)
  BY <1>3
<1>5. f[m - 1] \in S
  BY <1>2, <1>4
<1>6. QED
  BY <1>4, <1>5

=============================================================================
