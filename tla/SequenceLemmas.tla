--------------------------- MODULE SequenceLemmas ---------------------------
(***************************************************************************)
(* What the operations on the code's vectors, stacks and lists do to a     *)
(* sequence: its length, its elements, and whether one occurs twice.       *)
(***************************************************************************)
EXTENDS Integers, Lists, SequenceTheorems, FiniteSetTheorems, WellFoundedInduction, TLAPS

\* pop() and pop_back(), top() and back().
LEMMA FrontLast ==
    ASSUME NEW S, NEW s \in Seq(S), s # <<>>
    PROVE  /\ Front(s) \in Seq(S)
           /\ Len(Front(s)) = Len(s) - 1
           /\ Last(s) \in S
           /\ Len(s) \in Nat \ {0}
<1>1. Len(s) \in Nat \ {0}
  BY EmptySeq
<1> DEFINE n == Len(s) - 1
<1>2. n \in Nat /\ \A i \in 1 .. n : s[i] \in S
  BY <1>1, ElementOfSeq
<1>3. SubSeq(s, 1, n) \in Seq(S) /\ Len(SubSeq(s, 1, n)) = n
  <2> HIDE DEF n
  <2>1. /\ SubSeq(s, 1, n) \in Seq(S)
        /\ Len(SubSeq(s, 1, n)) = IF 1 <= n THEN n - 1 + 1 ELSE 0
    BY <1>2, SubSeqProperties
  <2> QED
    BY <1>2, <2>1
<1>4. s[Len(s)] \in S
  BY <1>1, ElementOfSeq
<1> QED
  BY <1>1, <1>3, <1>4 DEF Front, Last

\* erase() of a vector.
LEMMA RemoveAtProperties ==
    ASSUME NEW S, NEW s \in Seq(S), NEW i \in 1 .. Len(s)
    PROVE  RemoveAt(s, i) \in Seq(S) /\ Len(RemoveAt(s, i)) = Len(s) - 1
<1> DEFINE a == SubSeq(s, 1, i - 1)
           b == SubSeq(s, i + 1, Len(s))
<1>1. Len(s) \in Nat
  OBVIOUS
<1>2. \A k \in 1 .. (i - 1) : s[k] \in S
  BY <1>1, ElementOfSeq
<1>3. \A k \in (i + 1) .. Len(s) : s[k] \in S
  BY <1>1, ElementOfSeq
<1>4. a \in Seq(S) /\ Len(a) = i - 1
  BY <1>1, <1>2, SubSeqProperties
<1>5. b \in Seq(S) /\ Len(b) = Len(s) - i
  BY <1>1, <1>3, SubSeqProperties
<1>6. RemoveAt(s, i) = a \o b
  BY DEF RemoveAt
<1> HIDE DEF a, b
<1>7. (a \o b) \in Seq(S) /\ Len(a \o b) = Len(a) + Len(b)
  BY <1>4, <1>5, ConcatProperties
<1> QED
  BY <1>1, <1>4, <1>5, <1>6, <1>7

\* push() and push_back().
LEMMA AppendProps ==
    ASSUME NEW S, NEW s \in Seq(S), NEW e \in S
    PROVE  Append(s, e) \in Seq(S) /\ Len(Append(s, e)) = Len(s) + 1
OBVIOUS

\* No element occurs twice.
NoRepeat(s) == \A i, j \in 1 .. Len(s) : s[i] = s[j] => i = j

\* The elements of a sequence.
LEMMA Elements ==
    ASSUME NEW S, NEW s \in Seq(S)
    PROVE  /\ \A e : e \in ToSet(s) <=> \E i \in 1 .. Len(s) : s[i] = e
           /\ ToSet(s) \subseteq S
BY DEF ToSet

\* push() and push_back() add the element.
LEMMA AppendElements ==
    ASSUME NEW S, NEW s \in Seq(S), NEW e \in S
    PROVE  /\ ToSet(Append(s, e)) = ToSet(s) \cup {e}
           /\ NoRepeat(s) /\ e \notin ToSet(s) => NoRepeat(Append(s, e))
<1> DEFINE t == Append(s, e)
<1>1. /\ t \in Seq(S) /\ Len(t) = Len(s) + 1 /\ Len(s) \in Nat
      /\ \A i \in 1 .. Len(s) : t[i] = s[i]
      /\ t[Len(s) + 1] = e
  OBVIOUS
<1>2. /\ \A x : x \in ToSet(t) <=> \E i \in 1 .. Len(t) : t[i] = x
      /\ \A x : x \in ToSet(s) <=> \E i \in 1 .. Len(s) : s[i] = x
  BY <1>1, Elements
<1> HIDE DEF t
<1>3. ToSet(t) = ToSet(s) \cup {e}
  <2>1. \A i \in 1 .. Len(t) : i \in 1 .. Len(s) \/ i = Len(s) + 1
    BY <1>1
  <2>2. Len(s) + 1 \in 1 .. Len(t) /\ \A i \in 1 .. Len(s) : i \in 1 .. Len(t)
    BY <1>1
  <2> QED
    BY <1>1, <1>2, <2>1, <2>2
<1>4. ASSUME NoRepeat(s), e \notin ToSet(s)
      PROVE  NoRepeat(t)
  <2> SUFFICES ASSUME NEW i \in 1 .. Len(t), NEW j \in 1 .. Len(t), t[i] = t[j]
               PROVE  i = j
    BY DEF NoRepeat
  <2>1. (i \in 1 .. Len(s) \/ i = Len(s) + 1) /\ (j \in 1 .. Len(s) \/ j = Len(s) + 1)
    BY <1>1
  <2> QED
    BY <1>1, <1>2, <1>4, <2>1 DEF NoRepeat
<1> QED
  BY <1>3, <1>4 DEF t

\* pop() and pop_back() take the last one.
LEMMA FrontElements ==
    ASSUME NEW S, NEW s \in Seq(S), s # <<>>
    PROVE  /\ Last(s) \in ToSet(s)
           /\ ToSet(Front(s)) \subseteq ToSet(s)
           /\ NoRepeat(s) => /\ ToSet(Front(s)) = ToSet(s) \ {Last(s)}
                             /\ NoRepeat(Front(s))
<1> DEFINE t == Front(s)
           n == Len(s)
<1>1. n \in Nat \ {0} /\ t \in Seq(S) /\ Len(t) = n - 1
  BY FrontLast
<1>2. \A i \in 1 .. (n - 1) : t[i] = s[i]
  BY <1>1 DEF Front
<1>3. Last(s) = s[n]
  BY DEF Last
<1>4. /\ \A x : x \in ToSet(t) <=> \E i \in 1 .. Len(t) : t[i] = x
      /\ \A x : x \in ToSet(s) <=> \E i \in 1 .. n : s[i] = x
  BY <1>1, Elements
<1> HIDE DEF t, n
<1>5. n \in 1 .. n /\ \A i \in 1 .. n : i \in 1 .. Len(t) \/ i = n
  BY <1>1
<1>6. \A i \in 1 .. Len(t) : i \in 1 .. n /\ i # n
  BY <1>1
<1>7. Last(s) \in ToSet(s) /\ ToSet(t) \subseteq ToSet(s)
  BY <1>1, <1>2, <1>3, <1>4, <1>5, <1>6
<1>8. ASSUME NoRepeat(s)
      PROVE  ToSet(t) = ToSet(s) \ {Last(s)} /\ NoRepeat(t)
  <2>1. \A i, j \in 1 .. n : s[i] = s[j] => i = j
    BY <1>8 DEF NoRepeat, n
  <2>2. NoRepeat(t)
    BY <1>1, <1>2, <1>6, <2>1 DEF NoRepeat
  <2>3. \A x \in ToSet(t) : x # Last(s)
    BY <1>1, <1>2, <1>3, <1>4, <1>5, <1>6, <2>1
  <2>4. \A x \in ToSet(s) : x # Last(s) => x \in ToSet(t)
    BY <1>1, <1>2, <1>3, <1>4, <1>5
  <2> QED
    BY <1>7, <2>2, <2>3, <2>4
<1> QED
  BY <1>7, <1>8 DEF t

\* erase() of the element at k: the later ones move up.
LEMMA RemoveAtIndex ==
    ASSUME NEW S, NEW s \in Seq(S), NEW k \in 1 .. Len(s)
    PROVE  \A i \in 1 .. (Len(s) - 1) :
              RemoveAt(s, k)[i] = s[IF i < k THEN i ELSE i + 1]
<1> DEFINE a == SubSeq(s, 1, k - 1)
           b == SubSeq(s, k + 1, Len(s))
           t == RemoveAt(s, k)
           n == Len(s)
<1>1. n \in Nat /\ k \in 1 .. n
  OBVIOUS
<1>2. /\ a \in Seq(S) /\ Len(a) = k - 1 /\ \A i \in 1 .. (k - 1) : a[i] = s[i]
      /\ b \in Seq(S) /\ Len(b) = n - k /\ \A i \in 1 .. (n - k) : b[i] = s[k + i]
  <2>1. \A i \in 1 .. n : s[i] \in S
    OBVIOUS
  <2> QED
    BY <1>1, <2>1, SubSeqProperties
<1>3. t = a \o b
  BY DEF RemoveAt
<1>4. t \in Seq(S) /\ Len(t) = n - 1
  BY RemoveAtProperties
<1> HIDE DEF a, b, n
<1>5. ASSUME NEW i \in 1 .. (n - 1)
      PROVE  t[i] = s[IF i < k THEN i ELSE i + 1]
  <2>1. t[i] = IF i <= Len(a) THEN a[i] ELSE b[i - Len(a)]
    BY <1>1, <1>2, <1>3, <1>4, ConcatProperties
  <2>2. CASE i < k
    BY <1>1, <1>2, <2>1, <2>2
  <2>3. CASE ~(i < k)
    <3>1. i - Len(a) \in 1 .. (n - k) /\ k + (i - Len(a)) = i + 1
      BY <1>1, <1>2, <2>3
    <3> QED
      BY <1>1, <1>2, <2>1, <2>3, <3>1
  <2> QED
    BY <2>2, <2>3
<1> QED
  BY <1>5 DEF n, t

\* erase() of a vector takes one element.
LEMMA RemoveAtElements ==
    ASSUME NEW S, NEW s \in Seq(S), NEW k \in 1 .. Len(s)
    PROVE  /\ ToSet(RemoveAt(s, k)) \subseteq ToSet(s)
           /\ ToSet(s) \subseteq ToSet(RemoveAt(s, k)) \cup {s[k]}
           /\ NoRepeat(s) => /\ s[k] \notin ToSet(RemoveAt(s, k))
                             /\ NoRepeat(RemoveAt(s, k))
<1> DEFINE t == RemoveAt(s, k)
           n == Len(s)
<1>1. n \in Nat /\ k \in 1 .. n
  OBVIOUS
<1>4. t \in Seq(S) /\ Len(t) = n - 1
  BY RemoveAtProperties
<1>5. ASSUME NEW i \in 1 .. (n - 1)
      PROVE  t[i] = s[IF i < k THEN i ELSE i + 1]
  BY RemoveAtIndex
<1> HIDE DEF n
<1>6. /\ \A x : x \in ToSet(t) <=> \E i \in 1 .. Len(t) : t[i] = x
      /\ \A x : x \in ToSet(s) <=> \E i \in 1 .. n : s[i] = x
  BY <1>4, Elements DEF n
<1> HIDE DEF t
<1> DEFINE From(i) == IF i < k THEN i ELSE i + 1
<1>7. \A i \in 1 .. (n - 1) : From(i) \in 1 .. n /\ From(i) # k
  BY <1>1
<1>8. \A i, j \in 1 .. (n - 1) : From(i) = From(j) => i = j
  BY <1>1
<1>9. \A i \in 1 .. (n - 1) : t[i] = s[From(i)]
  BY <1>5
<1>10. \A j \in 1 .. n : j = k \/ \E i \in 1 .. (n - 1) : From(i) = j
  <2> SUFFICES ASSUME NEW j \in 1 .. n, j # k
               PROVE  \E i \in 1 .. (n - 1) : From(i) = j
    OBVIOUS
  <2>1. CASE j < k
    BY <1>1, <2>1
  <2>2. CASE j > k
    <3>1. j - 1 \in 1 .. (n - 1) /\ From(j - 1) = j
      BY <1>1, <2>2
    <3> QED
      BY <3>1
  <2> QED
    BY <1>1, <2>1, <2>2
<1> HIDE DEF From
<1>11. ToSet(t) \subseteq ToSet(s) /\ ToSet(s) \subseteq ToSet(t) \cup {s[k]}
  <2>1. ASSUME NEW x \in ToSet(s), x # s[k]
        PROVE  x \in ToSet(t)
    <3>1. PICK j \in 1 .. n : s[j] = x
      BY <1>6
    <3>2. PICK i \in 1 .. (n - 1) : From(i) = j
      BY <1>10, <2>1, <3>1
    <3> QED
      BY <1>4, <1>6, <1>9, <3>1, <3>2
  <2> QED
    BY <1>4, <1>6, <1>7, <1>9, <2>1
<1>12. ASSUME NoRepeat(s)
       PROVE  s[k] \notin ToSet(t) /\ NoRepeat(t)
  <2>1. \A i, j \in 1 .. n : s[i] = s[j] => i = j
    BY <1>12 DEF NoRepeat, n
  <2>2. s[k] \notin ToSet(t)
    <3> SUFFICES ASSUME s[k] \in ToSet(t)
                 PROVE  FALSE
      OBVIOUS
    <3>1. PICK i \in 1 .. (n - 1) : t[i] = s[k]
      BY <1>4, <1>6
    <3> QED
      BY <1>1, <1>7, <1>9, <2>1, <3>1
  <2>3. ASSUME NEW i \in 1 .. (n - 1), NEW j \in 1 .. (n - 1), t[i] = t[j]
        PROVE  i = j
    <3>1. s[From(i)] = s[From(j)]
      BY <1>9, <2>3
    <3>2. From(i) = From(j)
      BY <1>7, <2>1, <3>1
    <3> QED
      BY <1>8, <3>2
  <2> QED
    BY <1>4, <2>2, <2>3 DEF NoRepeat
<1> QED
  BY <1>11, <1>12 DEF t

\* Assigning to one place of a vector.
LEMMA ReplaceElements ==
    ASSUME NEW S, NEW s \in Seq(S), NEW k \in 1 .. Len(s), NEW e \in S
    PROVE  LET t == [s EXCEPT ![k] = e]
           IN  /\ ToSet(t) \subseteq ToSet(s) \cup {e}
               /\ NoRepeat(s) /\ e \notin ToSet(s) =>
                     NoRepeat(t) /\ s[k] \notin ToSet(t)
<1> DEFINE t == [s EXCEPT ![k] = e]
<1>1. /\ t \in Seq(S) /\ Len(t) = Len(s) /\ Len(s) \in Nat
      /\ t[k] = e /\ \A i \in 1 .. Len(s) : i # k => t[i] = s[i]
  BY ExceptSeq
<1>2. /\ \A x : x \in ToSet(t) <=> \E i \in 1 .. Len(t) : t[i] = x
      /\ \A x : x \in ToSet(s) <=> \E i \in 1 .. Len(s) : s[i] = x
  BY <1>1, Elements
<1> HIDE DEF t
<1>3. ToSet(t) \subseteq ToSet(s) \cup {e}
  BY <1>1, <1>2
<1>4. ASSUME NoRepeat(s), e \notin ToSet(s)
      PROVE  NoRepeat(t) /\ s[k] \notin ToSet(t)
  BY <1>1, <1>2, <1>4 DEF NoRepeat
<1> QED
  BY <1>3, <1>4 DEF t

\* erase() of an element, wherever it is.
LEMMA DroppedElements ==
    ASSUME NEW S, NEW s \in Seq(S), NEW e, NoRepeat(s)
    PROVE  /\ Dropped(s, e) \in Seq(S)
           /\ ToSet(Dropped(s, e)) = ToSet(s) \ {e}
           /\ NoRepeat(Dropped(s, e))
           /\ Len(Dropped(s, e)) = IF e \in ToSet(s) THEN Len(s) - 1 ELSE Len(s)
<1>1. CASE e \notin ToSet(s)
  BY <1>1 DEF Dropped
<1>2. CASE e \in ToSet(s)
  <2> DEFINE k == CHOOSE i \in DOMAIN s : s[i] = e
  <2>1. \E i \in 1 .. Len(s) : s[i] = e
    BY <1>2, Elements
  <2>2. k \in 1 .. Len(s) /\ s[k] = e
    BY <2>1
  <2>3. Dropped(s, e) = RemoveAt(s, k)
    BY <1>2 DEF Dropped
  <2> HIDE DEF k
  <2>4. RemoveAt(s, k) \in Seq(S) /\ Len(RemoveAt(s, k)) = Len(s) - 1
    BY <2>2, RemoveAtProperties
  <2>5. /\ ToSet(RemoveAt(s, k)) \subseteq ToSet(s)
        /\ ToSet(s) \subseteq ToSet(RemoveAt(s, k)) \cup {e}
        /\ e \notin ToSet(RemoveAt(s, k))
        /\ NoRepeat(RemoveAt(s, k))
    BY <2>2, RemoveAtElements
  <2>6. ToSet(RemoveAt(s, k)) = ToSet(s) \ {e}
    BY <2>5
  <2> QED
    BY <1>2, <2>3, <2>4, <2>5, <2>6
<1> QED
  BY <1>1, <1>2

\* push_front().
LEMMA ConsElements ==
    ASSUME NEW S, NEW s \in Seq(S), NEW e \in S
    PROVE  LET t == <<e>> \o s
           IN  /\ t \in Seq(S) /\ Len(t) = Len(s) + 1 /\ t # <<>>
               /\ t[1] = e /\ \A i \in 1 .. Len(s) : t[i + 1] = s[i]
               /\ ToSet(t) = ToSet(s) \cup {e}
               /\ NoRepeat(s) /\ e \notin ToSet(s) => NoRepeat(t)
<1> DEFINE t == <<e>> \o s
<1>1. /\ t \in Seq(S) /\ Len(t) = Len(s) + 1 /\ Len(s) \in Nat
      /\ t[1] = e /\ \A i \in 2 .. Len(t) : t[i] = s[i - 1]
  <2>1. <<e>> \in Seq(S) /\ Len(<<e>>) = 1 /\ <<e>>[1] = e
    OBVIOUS
  <2>2. /\ t \in Seq(S) /\ Len(t) = Len(<<e>>) + Len(s)
        /\ \A i \in 1 .. Len(<<e>>) + Len(s) :
              t[i] = IF i <= Len(<<e>>) THEN <<e>>[i] ELSE s[i - Len(<<e>>)]
    BY <2>1, ConcatProperties
  <2>3. Len(s) \in Nat
    OBVIOUS
  <2> HIDE DEF t
  <2> QED
    BY <2>1, <2>2, <2>3
<1>2. /\ \A x : x \in ToSet(t) <=> \E i \in 1 .. Len(t) : t[i] = x
      /\ \A x : x \in ToSet(s) <=> \E i \in 1 .. Len(s) : s[i] = x
  BY <1>1, Elements
<1> HIDE DEF t
<1>3. \A i \in 1 .. Len(s) : i + 1 \in 2 .. Len(t) /\ t[i + 1] = s[i]
  <2> SUFFICES ASSUME NEW i \in 1 .. Len(s)
               PROVE  i + 1 \in 2 .. Len(t) /\ t[i + 1] = s[i]
    OBVIOUS
  <2>1. i + 1 \in 2 .. Len(t) /\ (i + 1) - 1 = i
    BY <1>1
  <2> QED
    BY <1>1, <2>1
<1>4. \A i \in 1 .. Len(t) : i = 1 \/ (i \in 2 .. Len(t) /\ i - 1 \in 1 .. Len(s))
  BY <1>1
<1>5. t # <<>>
  BY <1>1, EmptySeq
<1>6. ToSet(t) = ToSet(s) \cup {e}
  <2>1. ASSUME NEW x \in ToSet(t)
        PROVE  x \in ToSet(s) \cup {e}
    BY <1>1, <1>2, <1>4
  <2>2. ASSUME NEW x \in ToSet(s)
        PROVE  x \in ToSet(t)
    <3>1. PICK i \in 1 .. Len(s) : s[i] = x
      BY <1>2
    <3>2. i + 1 \in 1 .. Len(t)
      BY <1>1
    <3> QED
      BY <1>2, <1>3, <3>1, <3>2
  <2>3. 1 \in 1 .. Len(t)
    BY <1>1
  <2> QED
    BY <1>1, <1>2, <2>1, <2>2, <2>3
<1>7. ASSUME NoRepeat(s), e \notin ToSet(s)
      PROVE  NoRepeat(t)
  <2> SUFFICES ASSUME NEW i \in 1 .. Len(t), NEW j \in 1 .. Len(t), t[i] = t[j]
               PROVE  i = j
    BY DEF NoRepeat
  <2>1. \A m \in 2 .. Len(t) : t[m] # e
    BY <1>1, <1>2, <1>4, <1>7
  <2>2. CASE i = 1 \/ j = 1
    BY <1>1, <1>4, <2>1, <2>2
  <2>3. CASE i # 1 /\ j # 1
    <3>1. s[i - 1] = s[j - 1] /\ i - 1 \in 1 .. Len(s) /\ j - 1 \in 1 .. Len(s)
      BY <1>1, <1>4, <2>3
    <3>2. i - 1 = j - 1
      BY <1>7, <3>1 DEF NoRepeat
    <3> QED
      BY <3>2
  <2> QED
    BY <2>2, <2>3
<1> QED
  BY <1>1, <1>3, <1>5, <1>6, <1>7 DEF t

\* A sequence in which nothing occurs twice is as long as it has elements.
LEMMA NoRepeatCardinality ==
    ASSUME NEW S, NEW s \in Seq(S), NoRepeat(s)
    PROVE  IsFiniteSet(ToSet(s)) /\ Cardinality(ToSet(s)) = Len(s)
<1>1. s \in [1 .. Len(s) -> ToSet(s)] /\ Len(s) \in Nat
  BY DEF ToSet
<1>2. \A x \in ToSet(s) : \E i \in 1 .. Len(s) : s[i] = x
  BY Elements
<1>3. s \in Bijection(1 .. Len(s), ToSet(s))
  BY <1>1, <1>2 DEF NoRepeat, Bijection, Injection, Surjection, IsInjective
<1>4. ExistsBijection(1 .. Len(s), ToSet(s))
  BY <1>3 DEF ExistsBijection
<1>5. Cardinality(ToSet(s)) = Len(s)
  BY <1>1, <1>4, FS_CountingElements
<1> QED
  BY <1>1, <1>4, <1>5, FS_NatBijection

\* pop_front() takes the first element.
LEMMA TailElements ==
    ASSUME NEW S, NEW s \in Seq(S), s # <<>>
    PROVE  /\ Head(s) \in ToSet(s) /\ Head(s) \in S /\ Tail(s) \in Seq(S)
           /\ Len(Tail(s)) = Len(s) - 1
           /\ ToSet(s) = ToSet(Tail(s)) \cup {Head(s)}
           /\ NoRepeat(s) => NoRepeat(Tail(s)) /\ Head(s) \notin ToSet(Tail(s))
<1> DEFINE t == Tail(s)
<1>1. /\ Len(s) \in Nat \ {0} /\ t \in Seq(S) /\ Len(t) = Len(s) - 1
      /\ \A i \in 1 .. Len(t) : t[i] = s[i + 1]
      /\ Head(s) = s[1] /\ s[1] \in S
  OBVIOUS
<1> HIDE DEF t
<1>2. /\ \A e : e \in ToSet(s) <=> \E i \in 1 .. Len(s) : s[i] = e
      /\ \A e : e \in ToSet(t) <=> \E i \in 1 .. Len(t) : t[i] = e
  BY <1>1, Elements
<1>3. 1 \in 1 .. Len(s) /\ s[1] \in ToSet(s)
  BY <1>1, <1>2
<1>4. ASSUME NEW e \in ToSet(t)
      PROVE  e \in ToSet(s)
  <2>1. PICK i \in 1 .. Len(t) : t[i] = e
    BY <1>2
  <2>2. i + 1 \in 1 .. Len(s) /\ s[i + 1] = e
    BY <1>1, <2>1
  <2> QED
    BY <1>2, <2>2
<1>5. ASSUME NEW e \in ToSet(s), e # s[1]
      PROVE  e \in ToSet(t)
  <2>1. PICK i \in 1 .. Len(s) : s[i] = e
    BY <1>2
  <2>2. i - 1 \in 1 .. Len(t) /\ t[i - 1] = e
    BY <1>1, <1>5, <2>1
  <2> QED
    BY <1>2, <2>2
<1>6. ASSUME NoRepeat(s)
      PROVE  NoRepeat(t) /\ s[1] \notin ToSet(t)
  <2>1. NoRepeat(t)
    BY <1>1, <1>6 DEF NoRepeat
  <2>2. \A i \in 1 .. Len(t) : t[i] # s[1]
    BY <1>1, <1>3, <1>6 DEF NoRepeat
  <2> QED
    BY <1>2, <2>1, <2>2
<1> QED
  BY <1>1, <1>3, <1>4, <1>5, <1>6 DEF t

\* An element that is in the sequence once is dropped at its place, and the
\* later ones move up.
LEMMA DroppedAt ==
    ASSUME NEW S, NEW s \in Seq(S), NoRepeat(s), NEW i \in 1 .. Len(s)
    PROVE  /\ Dropped(s, s[i]) = RemoveAt(s, i)
           /\ \A j \in 1 .. (Len(s) - 1) :
                 RemoveAt(s, i)[j] = IF j < i THEN s[j] ELSE s[j + 1]
<1>1. s[i] \in ToSet(s) /\ DOMAIN s = 1 .. Len(s) /\ Len(s) \in Nat
  BY Elements
<1>2. \A j \in DOMAIN s : s[j] = s[i] <=> j = i
  BY <1>1 DEF NoRepeat
<1>3. (CHOOSE j \in DOMAIN s : s[j] = s[i]) = i
  BY <1>1, <1>2
<1>4. Dropped(s, s[i]) = RemoveAt(s, i)
  BY <1>1, <1>3 DEF Dropped
<1>5. \A j \in 1 .. (Len(s) - 1) : RemoveAt(s, i)[j] = IF j < i THEN s[j] ELSE s[j + 1]
  BY RemoveAtIndex
<1> QED
  BY <1>4, <1>5

\* A set of natural numbers has a least one: what an induction rests on.
LEMMA LeastNatural ==
    ASSUME NEW T, T \subseteq Nat, T # {}
    PROVE  \E m \in T : \A y \in T : m <= y
<1> DEFINE R == OpToRel(<, Nat)
<1>1. IsWellFoundedOn(R, Nat)
  BY NatLessThanWellFounded
<1>2. \A x, y \in Nat : <<y, x>> \in R <=> y < x
  BY DEF OpToRel
<1> HIDE DEF R
<1>3. PICK x \in T : \A y \in T : ~ (<<y, x>> \in R)
  BY <1>1, WFMin
<1>4. ASSUME NEW y \in T
      PROVE  x <= y
  <2>1. ~ (y < x)
    BY <1>2, <1>3
  <2> QED
    BY <2>1
<1> QED
  BY <1>4
=============================================================================
