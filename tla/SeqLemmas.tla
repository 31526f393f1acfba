------------------------------ MODULE SeqLemmas ------------------------------
(* Facts about sequences that the proofs of this project share.            *)
EXTENDS Naturals, Sequences, SequenceTheorems, WellFoundedInduction, TLAPS

\* The elements of a sequence, and that none is in it twice.
Members(q) == {q[i] : i \in 1 .. Len(q)}

Distinct(q) == \A i, j \in 1 .. Len(q) : q[i] = q[j] => i = j

\* The elements of a concatenation.
LEMMA MembersConcat ==
  ASSUME NEW S, NEW p \in Seq(S), NEW q \in Seq(S)
  PROVE  Members(p \o q) = Members(p) \cup Members(q)
<1>1. /\ Len(p \o q) = Len(p) + Len(q)
      /\ \A i \in 1 .. Len(p) + Len(q) :
           (p \o q)[i] = IF i <= Len(p) THEN p[i] ELSE q[i - Len(p)]
      /\ Len(p) \in Nat /\ Len(q) \in Nat
  BY ConcatProperties
<1>2. ASSUME NEW x \in Members(p \o q) PROVE x \in Members(p) \cup Members(q)
  <2>1. PICK i \in 1 .. Len(p) + Len(q) : x = (p \o q)[i]
    BY <1>1, <1>2 DEF Members
  <2>2. CASE i <= Len(p)
    BY <1>1, <2>1, <2>2 DEF Members
  <2>3. CASE ~ (i <= Len(p))
    <3>1. i - Len(p) \in 1 .. Len(q)
      BY <1>1, <2>1, <2>3
    <3> QED
      BY <1>1, <2>1, <2>3, <3>1 DEF Members
  <2> QED
    BY <2>2, <2>3
<1>3. ASSUME NEW x \in Members(p) PROVE x \in Members(p \o q)
  <2>1. PICK i \in 1 .. Len(p) : x = p[i]
    BY <1>3 DEF Members
  <2>2. i \in 1 .. Len(p) + Len(q) /\ i <= Len(p)
    BY <1>1, <2>1
  <2> QED
    BY <1>1, <2>1, <2>2 DEF Members
<1>4. ASSUME NEW x \in Members(q) PROVE x \in Members(p \o q)
  <2>1. PICK i \in 1 .. Len(q) : x = q[i]
    BY <1>4 DEF Members
  <2>2. i + Len(p) \in 1 .. Len(p) + Len(q) /\ ~ (i + Len(p) <= Len(p))
        /\ (i + Len(p)) - Len(p) = i
    BY <1>1, <2>1
  <2> QED
    BY <1>1, <2>1, <2>2 DEF Members
<1> QED
  BY <1>2, <1>3, <1>4

\* A concatenation has no element twice if its parts have none twice and share none.
LEMMA DistinctConcat ==
  ASSUME NEW S, NEW p \in Seq(S), NEW q \in Seq(S)
  PROVE  Distinct(p \o q) <=> /\ Distinct(p) /\ Distinct(q)
                              /\ Members(p) \cap Members(q) = {}
<1>1. /\ Len(p \o q) = Len(p) + Len(q)
      /\ \A i \in 1 .. Len(p) + Len(q) :
           (p \o q)[i] = IF i <= Len(p) THEN p[i] ELSE q[i - Len(p)]
      /\ Len(p) \in Nat /\ Len(q) \in Nat
  BY ConcatProperties
<1>2. \A i \in 1 .. Len(p) : i \in 1 .. Len(p) + Len(q) /\ (p \o q)[i] = p[i]
  BY <1>1
<1>3. ASSUME NEW i \in 1 .. Len(q)
      PROVE  /\ i + Len(p) \in 1 .. Len(p) + Len(q)
             /\ (p \o q)[i + Len(p)] = q[i]
  <2>1. i + Len(p) \in 1 .. Len(p) + Len(q) /\ ~ (i + Len(p) <= Len(p))
        /\ (i + Len(p)) - Len(p) = i
    BY <1>1
  <2> QED
    BY <1>1, <2>1
<1>4. ASSUME Distinct(p \o q)
      PROVE  Distinct(p) /\ Distinct(q) /\ Members(p) \cap Members(q) = {}
  <2>1. Distinct(p)
    BY <1>1, <1>2, <1>4 DEF Distinct
  <2>2. ASSUME NEW i \in 1 .. Len(q), NEW j \in 1 .. Len(q), q[i] = q[j] PROVE i = j
    <3>1. i + Len(p) = j + Len(p)
      BY <1>1, <1>3, <1>4, <2>2 DEF Distinct
    <3> QED
      BY <1>1, <3>1
  <2>3. ASSUME NEW x \in Members(p), x \in Members(q) PROVE FALSE
    <3>1. PICK i \in 1 .. Len(p), j \in 1 .. Len(q) : x = p[i] /\ x = q[j]
      BY <2>3 DEF Members
    <3>2. i = j + Len(p)
      BY <1>1, <1>2, <1>3, <1>4, <3>1 DEF Distinct
    <3> QED
      BY <1>1, <3>1, <3>2
  <2> QED
    BY <2>1, <2>2, <2>3 DEF Distinct
<1>5. ASSUME Distinct(p), Distinct(q), Members(p) \cap Members(q) = {},
             NEW i \in 1 .. Len(p) + Len(q), NEW j \in 1 .. Len(p) + Len(q),
             (p \o q)[i] = (p \o q)[j]
      PROVE  i = j
  <2>1. ASSUME NEW k \in 1 .. Len(p) + Len(q)
        PROVE  \/ k \in 1 .. Len(p) /\ (p \o q)[k] = p[k]
               \/ k - Len(p) \in 1 .. Len(q) /\ (p \o q)[k] = q[k - Len(p)]
    BY <1>1
  <2>2. CASE i \in 1 .. Len(p) /\ (p \o q)[i] = p[i]
    <3>1. p[i] \notin Members(q)
      BY <1>5, <2>2 DEF Members
    <3>2. j \in 1 .. Len(p) /\ (p \o q)[j] = p[j]
      BY <1>5, <2>1, <2>2, <3>1 DEF Members
    <3> QED
      BY <1>5, <2>2, <3>2 DEF Distinct
  <2>3. CASE i - Len(p) \in 1 .. Len(q) /\ (p \o q)[i] = q[i - Len(p)]
    <3>1. q[i - Len(p)] \notin Members(p)
      BY <1>5, <2>3 DEF Members
    <3>2. j - Len(p) \in 1 .. Len(q) /\ (p \o q)[j] = q[j - Len(p)]
      BY <1>5, <2>1, <2>3, <3>1 DEF Members
    <3>3. i - Len(p) = j - Len(p)
      BY <1>5, <2>3, <3>2 DEF Distinct
    <3> QED
      BY <1>1, <3>3
  <2> QED
    BY <2>1, <2>2, <2>3
<1> QED
  BY <1>1, <1>4, <1>5 DEF Distinct

\* ... of one element, and of a head and a tail.
LEMMA MembersOne == ASSUME NEW x PROVE Members(<<x>>) = {x} /\ Distinct(<<x>>)
BY DEF Members, Distinct

\* The members of a sequence over a set are of that set.
LEMMA MembersIn == ASSUME NEW S, NEW q \in Seq(S) PROVE Members(q) \subseteq S
BY DEF Members

\* The head and the tail of a sequence.
LEMMA MembersHeadTail ==
  ASSUME NEW S, NEW q \in Seq(S), q # <<>>
  PROVE  /\ Members(q) = {Head(q)} \cup Members(Tail(q))
         /\ Distinct(q) => Distinct(Tail(q)) /\ Head(q) \notin Members(Tail(q))
<1> DEFINE h == <<Head(q)>>
           t == Tail(q)
<1>1. h \in Seq(S) /\ t \in Seq(S) /\ q = h \o t
  OBVIOUS
<1>2. Members(h) = {Head(q)}
  BY MembersOne
<1> HIDE DEF h, t
<1>3. Members(h \o t) = Members(h) \cup Members(t)
  BY <1>1, MembersConcat
<1>4. Distinct(h \o t) => Distinct(t) /\ Members(h) \cap Members(t) = {}
  BY <1>1, DistinctConcat
<1> QED
  BY <1>1, <1>2, <1>3, <1>4 DEF t

\* Head and tail of a concatenation whose first part is not empty.
LEMMA HeadTailConcat ==
  ASSUME NEW S, NEW p \in Seq(S), NEW q \in Seq(S), p # <<>>
  PROVE  /\ p \o q # <<>>
         /\ Head(p \o q) = Head(p)
         /\ Tail(p \o q) = Tail(p) \o q
<1>1. p = <<Head(p)>> \o Tail(p) /\ <<Head(p)>> \in Seq(S) /\ Tail(p) \in Seq(S)
  OBVIOUS
<1>2. p \o q = <<Head(p)>> \o (Tail(p) \o q)
  BY <1>1, ConcatAssociative
<1>3. Tail(p) \o q \in Seq(S)
  BY <1>1
<1> QED
  BY <1>1, <1>2, <1>3

\* The parts of a concatenation as subsequences of it.
LEMMA ConcatParts ==
  ASSUME NEW S, NEW p \in Seq(S), NEW q \in Seq(S), p # <<>>
  PROVE  /\ SubSeq(p \o q, 2, Len(p)) = Tail(p)
         /\ SubSeq(p \o q, Len(p) + 1, Len(p \o q)) = q
<1> DEFINE s == p \o q
           k == Len(p)
           n == Len(q)
<1>1. /\ s \in Seq(S) /\ Len(s) = k + n
      /\ \A i \in 1 .. k + n : s[i] = IF i <= k THEN p[i] ELSE q[i - k]
  BY ConcatProperties
<1>2. k \in Nat /\ n \in Nat /\ k >= 1
  BY EmptySeq
<1>3. /\ Tail(p) \in Seq(S) /\ Len(Tail(p)) = k - 1
      /\ \A i \in 1 .. k - 1 : Tail(p)[i] = p[i + 1]
  BY HeadTailProperties
<1>4. \A i \in 1 .. k + n : s[i] \in S
  BY <1>1, <1>2
<1> HIDE DEF s, k, n
<1>5. SubSeq(s, 2, k) = Tail(p)
  <2>1. \A i \in 2 .. k : s[i] \in S
    BY <1>2, <1>4
  <2>2. /\ SubSeq(s, 2, k) \in Seq(S)
        /\ Len(SubSeq(s, 2, k)) = IF 2 <= k THEN k - 2 + 1 ELSE 0
        /\ \A i \in 1 .. k - 2 + 1 : SubSeq(s, 2, k)[i] = s[2 + i - 1]
    BY <1>2, <2>1, SubSeqProperties
  <2>3. Len(SubSeq(s, 2, k)) = k - 1
    BY <1>2, <2>2
  <2>4. \A i \in 1 .. k - 1 : SubSeq(s, 2, k)[i] = s[i + 1] /\ s[i + 1] = p[i + 1]
    BY <1>1, <1>2, <2>2
  <2> QED
    BY <1>3, <2>2, <2>3, <2>4, SeqEqual
<1>6. SubSeq(s, k + 1, k + n) = q
  <2>1. \A i \in k + 1 .. k + n : s[i] \in S
    BY <1>2, <1>4
  <2>2. /\ SubSeq(s, k + 1, k + n) \in Seq(S)
        /\ Len(SubSeq(s, k + 1, k + n)) = IF k + 1 <= k + n THEN k + n - (k + 1) + 1 ELSE 0
        /\ \A i \in 1 .. k + n - (k + 1) + 1 :
             SubSeq(s, k + 1, k + n)[i] = s[k + 1 + i - 1]
    BY <1>2, <2>1, SubSeqProperties
  <2>3. Len(SubSeq(s, k + 1, k + n)) = n
    BY <1>2, <2>2
  <2>4. \A i \in 1 .. n : SubSeq(s, k + 1, k + n)[i] = s[k + i] /\ s[k + i] = q[i]
    BY <1>1, <1>2, <2>2
  <2> QED
    BY <2>2, <2>3, <2>4, SeqEqual DEF n
<1> QED
  BY <1>1, <1>5, <1>6 DEF s, k

\* A subsequence has no other elements.
LEMMA MembersSubSeq ==
  ASSUME NEW S, NEW q \in Seq(S), NEW a \in 1 .. Len(q) + 1, NEW b \in 0 .. Len(q)
  PROVE  SubSeq(q, a, b) \in Seq(S) /\ Members(SubSeq(q, a, b)) \subseteq Members(q)
<1>1. \A i \in a .. b : q[i] \in S
  OBVIOUS
<1>2. /\ SubSeq(q, a, b) \in Seq(S)
      /\ Len(SubSeq(q, a, b)) = IF a <= b THEN b - a + 1 ELSE 0
      /\ \A i \in 1 .. b - a + 1 : SubSeq(q, a, b)[i] = q[a + i - 1]
  BY <1>1, SubSeqProperties
<1>3. \A i \in 1 .. Len(SubSeq(q, a, b)) :
        i \in 1 .. b - a + 1 /\ a + i - 1 \in 1 .. Len(q)
  BY <1>2
<1> QED
  BY <1>2, <1>3 DEF Members
-----------------------------------------------------------------------------
\* A sequence whose elements, taken two by two in their order, are all in the
\* relation R, a set of pairs.
Sorted(q, R) == \A i, j \in 1 .. Len(q) : i < j => <<q[i], q[j]>> \in R

\* A concatenation is sorted iff its parts are and each element of the first one
\* comes before each element of the second one.
LEMMA SortedConcat ==
  ASSUME NEW S, NEW p \in Seq(S), NEW q \in Seq(S), NEW R
  PROVE  Sorted(p \o q, R) <=> /\ Sorted(p, R) /\ Sorted(q, R)
                               /\ \A x \in Members(p), y \in Members(q) : <<x, y>> \in R
<1>1. /\ Len(p \o q) = Len(p) + Len(q)
      /\ \A i \in 1 .. Len(p) + Len(q) :
           (p \o q)[i] = IF i <= Len(p) THEN p[i] ELSE q[i - Len(p)]
      /\ Len(p) \in Nat /\ Len(q) \in Nat
  BY ConcatProperties
<1> DEFINE s == p \o q
           k == Len(p)
           n == Len(q)
<1>2. /\ k \in Nat /\ n \in Nat /\ Len(s) = k + n
      /\ \A i \in 1 .. k : i \in 1 .. k + n /\ s[i] = p[i]
      /\ \A i \in 1 .. n : k + i \in 1 .. k + n /\ s[k + i] = q[i]
  <2>1. \A i \in 1 .. n : k + i \in 1 .. k + n /\ ~ (k + i <= k) /\ (k + i) - k = i
    BY <1>1
  <2> QED
    BY <1>1, <2>1
<1> HIDE DEF s, k, n
<1>3. ASSUME Sorted(s, R)
      PROVE  /\ Sorted(p, R) /\ Sorted(q, R)
             /\ \A x \in Members(p), y \in Members(q) : <<x, y>> \in R
  <2>1. Sorted(p, R)
    BY <1>2, <1>3 DEF Sorted, k
  <2>2. Sorted(q, R)
    <3> SUFFICES ASSUME NEW i \in 1 .. n, NEW j \in 1 .. n, i < j PROVE <<q[i], q[j]>> \in R
      BY DEF Sorted, n
    <3>1. k + i \in 1 .. k + n /\ k + j \in 1 .. k + n /\ k + i < k + j
      BY <1>2
    <3> QED
      BY <1>2, <1>3, <3>1 DEF Sorted
  <2>3. ASSUME NEW i \in 1 .. k, NEW j \in 1 .. n PROVE <<p[i], q[j]>> \in R
    <3>1. i \in 1 .. k + n /\ k + j \in 1 .. k + n /\ i < k + j
      BY <1>2
    <3> QED
      BY <1>2, <1>3, <3>1 DEF Sorted
  <2> QED
    BY <2>1, <2>2, <2>3 DEF Members, k, n
<1>4. ASSUME Sorted(p, R), Sorted(q, R),
             \A x \in Members(p), y \in Members(q) : <<x, y>> \in R
      PROVE  Sorted(s, R)
  <2>1. \A i \in 1 .. k, j \in 1 .. n : <<p[i], q[j]>> \in R
    BY <1>4 DEF Members, k, n
  <2> SUFFICES ASSUME NEW i \in 1 .. k + n, NEW j \in 1 .. k + n, i < j
               PROVE  <<s[i], s[j]>> \in R
    BY <1>2 DEF Sorted
  <2>2. CASE j <= k
    <3>1. i \in 1 .. k /\ j \in 1 .. k
      BY <1>2, <2>2
    <3> QED
      BY <1>2, <1>4, <3>1 DEF Sorted, k
  <2>3. CASE i <= k /\ ~ (j <= k)
    <3>1. i \in 1 .. k /\ j - k \in 1 .. n /\ k + (j - k) = j
      BY <1>2, <2>3
    <3> QED
      BY <1>2, <2>1, <3>1
  <2>4. CASE ~ (i <= k)
    <3>1. /\ i - k \in 1 .. n /\ j - k \in 1 .. n /\ i - k < j - k
          /\ k + (i - k) = i /\ k + (j - k) = j
      BY <1>2, <2>4
    <3>2. s[i] = q[i - k] /\ s[j] = q[j - k]
      BY <1>2, <3>1
    <3>3. <<q[i - k], q[j - k]>> \in R
      BY <1>4, <3>1 DEF Sorted, n
    <3> QED
      BY <3>2, <3>3
  <2> QED
    BY <1>2, <2>2, <2>3, <2>4
<1> QED
  BY <1>3, <1>4 DEF s

\* One element is sorted, and so is none.
LEMMA SortedOne == ASSUME NEW x, NEW R PROVE Sorted(<<x>>, R) /\ Sorted(<<>>, R)
BY DEF Sorted

\* A sorted sequence is sorted by every larger relation.
LEMMA SortedMore ==
  ASSUME NEW q, NEW R, NEW T, R \subseteq T, Sorted(q, R) PROVE Sorted(q, T)
BY DEF Sorted

\* ... and by every relation that holds of its elements where the other one does.
LEMMA SortedWithin ==
  ASSUME NEW q, NEW R, NEW T, Sorted(q, R),
         \A x, y \in Members(q) : <<x, y>> \in R => <<x, y>> \in T
  PROVE  Sorted(q, T)
BY DEF Sorted, Members

\* Two parts of a sorted sequence without its first element.
LEMMA SortedParts ==
  ASSUME NEW S, NEW q \in Seq(S), NEW k \in 1 .. Len(q), NEW R, Sorted(q, R)
  PROVE  \E a, b \in Seq(S) :
           /\ a = SubSeq(q, 2, k) /\ b = SubSeq(q, k + 1, Len(q))
           /\ Sorted(a, R) /\ Sorted(b, R)
           /\ \A x \in Members(a), y \in Members(b) : <<x, y>> \in R
           /\ Members(a) \cup Members(b) \subseteq Members(Tail(q))
<1> DEFINE n == Len(q)
<1>p. PICK a, b : a = SubSeq(q, 2, k) /\ b = SubSeq(q, k + 1, Len(q))
  OBVIOUS
<1>1. n \in Nat /\ k \in 1 .. n /\ \A i \in 1 .. n : q[i] \in S
  OBVIOUS
<1>2. /\ a \in Seq(S) /\ Len(a) = k - 1
      /\ \A i \in 1 .. k - 1 : i + 1 \in 1 .. n /\ i + 1 <= k /\ a[i] = q[i + 1]
  <2>1. \A i \in 2 .. k : q[i] \in S
    BY <1>1
  <2>2. /\ a \in Seq(S) /\ Len(a) = (IF 2 <= k THEN k - 2 + 1 ELSE 0)
        /\ \A i \in 1 .. k - 2 + 1 : a[i] = q[2 + i - 1]
    BY <1>p, <1>1, <2>1, SubSeqProperties
  <2>3. k - 2 + 1 = k - 1 /\ \A i \in 1 .. k - 1 : 2 + i - 1 = i + 1
    BY <1>1
  <2> QED
    BY <1>1, <2>2, <2>3
<1>3. /\ b \in Seq(S) /\ Len(b) = n - k
      /\ \A i \in 1 .. n - k : k + i \in 1 .. n /\ k < k + i /\ b[i] = q[k + i]
  <2>1. \A i \in k + 1 .. n : q[i] \in S
    BY <1>1
  <2>2. k + 1 \in Int /\ n \in Int
    BY <1>1
  <2>3. /\ b \in Seq(S) /\ Len(b) = (IF k + 1 <= n THEN n - (k + 1) + 1 ELSE 0)
        /\ \A i \in 1 .. n - (k + 1) + 1 : b[i] = q[(k + 1) + i - 1]
    BY <1>p, <2>1, <2>2, SubSeqProperties
  <2>4. n - (k + 1) + 1 = n - k /\ \A i \in 1 .. n - k : (k + 1) + i - 1 = k + i
    BY <1>1
  <2>5. \A i \in 1 .. n - k : k + i \in 1 .. n /\ k < k + i
    BY <1>1
  <2>6. Len(b) = n - k
    BY <1>1, <2>3
  <2>7. \A i \in 1 .. n - k : b[i] = q[k + i]
    BY <2>3, <2>4
  <2> QED
    BY <2>3, <2>5, <2>6, <2>7
<1>4. \A i, j \in 1 .. n : i < j => <<q[i], q[j]>> \in R
  BY DEF Sorted
<1>5. \A i \in 2 .. n : q[i] \in Members(Tail(q))
  <2>1. /\ Len(Tail(q)) = n - 1 /\ \A i \in 1 .. n - 1 : Tail(q)[i] = q[i + 1]
    BY <1>1, EmptySeq, HeadTailProperties
  <2>2. \A i \in 2 .. n : i - 1 \in 1 .. n - 1 /\ (i - 1) + 1 = i
    BY <1>1
  <2> QED
    BY <2>1, <2>2 DEF Members
<1> HIDE DEF n
<1>6. Sorted(a, R)
  <2> SUFFICES ASSUME NEW i \in 1 .. k - 1, NEW j \in 1 .. k - 1, i < j PROVE <<a[i], a[j]>> \in R
    BY <1>2 DEF Sorted
  <2>1. i + 1 < j + 1
    OBVIOUS
  <2> QED
    BY <1>2, <1>4, <2>1
<1>7. Sorted(b, R)
  <2> SUFFICES ASSUME NEW i \in 1 .. n - k, NEW j \in 1 .. n - k, i < j PROVE <<b[i], b[j]>> \in R
    BY <1>3 DEF Sorted
  <2>1. k + i < k + j
    BY <1>1
  <2> QED
    BY <1>3, <1>4, <2>1
<1>8. ASSUME NEW i \in 1 .. k - 1, NEW j \in 1 .. n - k
      PROVE  <<a[i], b[j]>> \in R
  <2>1. i + 1 < k + j
    BY <1>1
  <2> QED
    BY <1>2, <1>3, <1>4, <2>1
<1>9. \A i \in 1 .. k - 1 : a[i] \in Members(Tail(q))
  <2>1. \A i \in 1 .. k - 1 : i + 1 \in 2 .. n
    BY <1>1
  <2> QED
    BY <1>2, <1>5, <2>1
<1>10. \A i \in 1 .. n - k : b[i] \in Members(Tail(q))
  <2>1. \A i \in 1 .. n - k : k + i \in 2 .. n
    BY <1>1
  <2> QED
    BY <1>3, <1>5, <2>1
<1>11. Members(a) = {a[i] : i \in 1 .. k - 1} /\ Members(b) = {b[i] : i \in 1 .. n - k}
  BY <1>2, <1>3 DEF Members
<1>12. \A x \in Members(a), y \in Members(b) : <<x, y>> \in R
  BY <1>8, <1>11
<1>13. Members(a) \cup Members(b) \subseteq Members(Tail(q))
  BY <1>9, <1>10, <1>11
<1> QED
  BY <1>p, <1>2, <1>3, <1>6, <1>7, <1>12, <1>13

\* A sequence is its beginning and its rest.
LEMMA SplitSeq ==
  ASSUME NEW S, NEW q \in Seq(S), NEW j \in 0 .. Len(q)
  PROVE  /\ SubSeq(q, 1, j) \in Seq(S) /\ SubSeq(q, j + 1, Len(q)) \in Seq(S)
         /\ SubSeq(q, 1, j) \o SubSeq(q, j + 1, Len(q)) = q
<1> DEFINE n == Len(q)
           a == SubSeq(q, 1, j)
           b == SubSeq(q, j + 1, n)
<1> HIDE DEF n
<1>1. n \in Nat /\ j \in 0 .. n /\ (\A i \in 1 .. n : q[i] \in S)
      /\ 1 \in Int /\ j \in Int /\ j + 1 \in Int /\ n \in Int
  BY DEF n
<1>2. a \in Seq(S) /\ Len(a) = j /\ \A i \in 1 .. j : a[i] = q[i]
  <2>1. \A i \in 1 .. j : q[i] \in S
    BY <1>1
  <2>2. /\ a \in Seq(S) /\ Len(a) = (IF 1 <= j THEN j - 1 + 1 ELSE 0)
        /\ \A i \in 1 .. j - 1 + 1 : a[i] = q[1 + i - 1]
    BY <1>1, <2>1, SubSeqProperties
  <2>3. j - 1 + 1 = j /\ \A i \in 1 .. j : 1 + i - 1 = i
    BY <1>1
  <2> QED
    BY <1>1, <2>2, <2>3
<1>3. b \in Seq(S) /\ Len(b) = n - j /\ \A i \in 1 .. n - j : b[i] = q[j + i]
  <2>1. \A i \in j + 1 .. n : q[i] \in S
    BY <1>1
  <2>2. /\ b \in Seq(S) /\ Len(b) = (IF j + 1 <= n THEN n - (j + 1) + 1 ELSE 0)
        /\ \A i \in 1 .. n - (j + 1) + 1 : b[i] = q[(j + 1) + i - 1]
    BY <1>1, <2>1, SubSeqProperties
  <2>3. n - (j + 1) + 1 = n - j /\ \A i \in 1 .. n - j : (j + 1) + i - 1 = j + i
    BY <1>1
  <2> QED
    BY <1>1, <2>2, <2>3
<1> HIDE DEF a, b
<1>4. /\ Len(a \o b) = n
      /\ \A i \in 1 .. n : (a \o b)[i] = IF i <= j THEN a[i] ELSE b[i - j]
      /\ a \o b \in Seq(S)
  <2>1. /\ Len(a \o b) = Len(a) + Len(b)
        /\ \A i \in 1 .. Len(a) + Len(b) :
             (a \o b)[i] = IF i <= Len(a) THEN a[i] ELSE b[i - Len(a)]
        /\ a \o b \in Seq(S)
    BY <1>2, <1>3, ConcatProperties
  <2>2. Len(a) = j /\ Len(a) + Len(b) = n
    BY <1>1, <1>2, <1>3
  <2> QED
    BY <2>1, <2>2
<1>5. \A i \in 1 .. n : (a \o b)[i] = q[i]
  <2>1. \A i \in 1 .. n : ~ (i <= j) => i - j \in 1 .. n - j /\ j + (i - j) = i
    BY <1>1
  <2>2. \A i \in 1 .. n : i <= j => i \in 1 .. j
    BY <1>1
  <2> QED
    BY <1>2, <1>3, <1>4, <2>1, <2>2
<1>6. a \o b = q
  BY <1>4, <1>5, SeqEqual DEF n
<1> QED
  BY <1>2, <1>3, <1>6 DEF n, a, b
\* A set of numbers has a least one.
LEMMA LeastNat ==
  ASSUME NEW T, T \subseteq Nat, T # {}
  PROVE  \E x \in T : \A y \in T : x <= y
<1> DEFINE R == OpToRel(<, Nat)
<1>1. IsWellFoundedOn(R, Nat)
  BY NatLessThanWellFounded
<1>2. \A x, y \in Nat : <<y, x>> \in R <=> y < x
  BY DEF OpToRel
<1> HIDE DEF R
<1>3. PICK x \in T : \A y \in T : ~ (<<y, x>> \in R)
  BY <1>1, WFMin
<1>4. \A y \in T : x \in Nat /\ y \in Nat /\ ~ (y < x)
  BY <1>2, <1>3
<1>5. \A y \in T : x <= y
  BY <1>4
<1> QED
  BY <1>3, <1>5
=============================================================================
