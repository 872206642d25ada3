-------------------------- MODULE SubsequenceLemmas --------------------------
(***************************************************************************)
(* Facts about the sequences the queues are made of: what appending,       *)
(* popping, removing one element and splitting in two do to a sequence's   *)
(* type, to the set of its elements and to its having no element twice.    *)
(***************************************************************************)
EXTENDS Integers, SequencesExt, Subsequences, FiniteSetTheorems, TLAPS

\* Pushing at the back (push_back).
LEMMA AppendFacts ==
    ASSUME NEW S, NEW s \in Seq(S), NEW e \in S
    PROVE  /\ Append(s, e) \in Seq(S)
           /\ Range(Append(s, e)) = Range(s) \cup {e}
           /\ IsInjective(s) /\ e \notin Range(s) => IsInjective(Append(s, e))
<1> DEFINE t == Append(s, e)
<1>1. /\ t \in Seq(S) /\ Len(s) \in Nat
      /\ DOMAIN s = 1..Len(s) /\ DOMAIN t = 1..(Len(s) + 1)
      /\ t[Len(s) + 1] = e
      /\ \A i \in 1..Len(s) : t[i] = s[i]
  OBVIOUS
<1> HIDE DEF t
<1>2. Range(t) = Range(s) \cup {e}
  <2>1. ASSUME NEW x \in Range(t) PROVE x \in Range(s) \cup {e}
    BY <1>1, <2>1 DEF Range
  <2>2. ASSUME NEW x \in Range(s) PROVE x \in Range(t)
    <3>1. PICK i \in DOMAIN s : s[i] = x
      BY <2>2 DEF Range
    <3>2. i \in DOMAIN t /\ t[i] = x
      BY <1>1, <3>1
    <3> QED BY <3>2 DEF Range
  <2>3. e \in Range(t)
    BY <1>1 DEF Range
  <2> QED BY <2>1, <2>2, <2>3
<1>3. IsInjective(s) /\ e \notin Range(s) => IsInjective(t)
  BY <1>1 DEF IsInjective, Range
<1> QED BY <1>1, <1>2, <1>3 DEF t

\* Popping at the front (pop_front).
LEMMA TailFacts ==
    ASSUME NEW S, NEW s \in Seq(S), s # <<>>
    PROVE  /\ Head(s) \in S /\ Head(s) \in Range(s) /\ Tail(s) \in Seq(S)
           /\ Range(s) = Range(Tail(s)) \cup {Head(s)}
           /\ IsInjective(s) => IsInjective(Tail(s)) /\ Head(s) \notin Range(Tail(s))
<1> DEFINE t == Tail(s)
           h == Head(s)
<1>1. /\ t \in Seq(S) /\ h \in S /\ h = s[1]
      /\ Len(s) \in Nat /\ Len(s) > 0
      /\ DOMAIN s = 1..Len(s) /\ DOMAIN t = 1..(Len(s) - 1)
      /\ \A i \in 1..(Len(s) - 1) : t[i] = s[i + 1]
  OBVIOUS
<1> HIDE DEF t, h
<1>2. h \in Range(s)
  BY <1>1 DEF Range
<1>3. ASSUME NEW x \in Range(t) PROVE x \in Range(s)
  <2>1. PICK i \in DOMAIN t : t[i] = x
    BY DEF Range
  <2>2. i + 1 \in DOMAIN s /\ s[i + 1] = x
    BY <1>1, <2>1
  <2> QED BY <2>2 DEF Range
<1>4. ASSUME NEW x \in Range(s) PROVE x \in Range(t) \cup {h}
  <2>1. PICK i \in DOMAIN s : s[i] = x
    BY DEF Range
  <2>2. i = 1 \/ (i - 1 \in DOMAIN t /\ t[i - 1] = x)
    BY <1>1, <2>1
  <2> QED BY <1>1, <2>1, <2>2 DEF Range
<1>5. IsInjective(s) => IsInjective(t) /\ h \notin Range(t)
  BY <1>1, SMTT(30) DEF IsInjective, Range
<1> QED BY <1>1, <1>2, <1>3, <1>4, <1>5 DEF t, h

\* Joining the back of a queue (append).
LEMMA ConcatFacts ==
    ASSUME NEW S, NEW s \in Seq(S), NEW t \in Seq(S)
    PROVE  /\ s \o t \in Seq(S)
           /\ Range(s \o t) = Range(s) \cup Range(t)
           /\ IsInjective(s) /\ IsInjective(t) /\ Range(s) \cap Range(t) = {}
                => IsInjective(s \o t)
<1> DEFINE u == s \o t
<1>1. /\ u \in Seq(S) /\ Len(s) \in Nat /\ Len(t) \in Nat
      /\ DOMAIN s = 1..Len(s) /\ DOMAIN t = 1..Len(t)
      /\ DOMAIN u = 1..(Len(s) + Len(t))
      /\ \A i \in 1..(Len(s) + Len(t)) :
           u[i] = IF i <= Len(s) THEN s[i] ELSE t[i - Len(s)]
  OBVIOUS
<1> HIDE DEF u
<1>2. ASSUME NEW x \in Range(u) PROVE x \in Range(s) \cup Range(t)
  <2>1. PICK i \in DOMAIN u : u[i] = x
    BY DEF Range
  <2>2. \/ i \in DOMAIN s /\ s[i] = x
        \/ i - Len(s) \in DOMAIN t /\ t[i - Len(s)] = x
    BY <1>1, <2>1
  <2> QED BY <2>2 DEF Range
<1>3. ASSUME NEW x \in Range(s) PROVE x \in Range(u)
  <2>1. PICK i \in DOMAIN s : s[i] = x
    BY DEF Range
  <2>2. i \in DOMAIN u /\ u[i] = x
    BY <1>1, <2>1
  <2> QED BY <2>2 DEF Range
<1>4. ASSUME NEW x \in Range(t) PROVE x \in Range(u)
  <2>1. PICK i \in DOMAIN t : t[i] = x
    BY DEF Range
  <2>2. i + Len(s) \in DOMAIN u /\ u[i + Len(s)] = x
    BY <1>1, <2>1
  <2> QED BY <2>2 DEF Range
<1>5. ASSUME IsInjective(s), IsInjective(t), Range(s) \cap Range(t) = {}
      PROVE  IsInjective(u)
  <2> SUFFICES ASSUME NEW a \in DOMAIN u, NEW b \in DOMAIN u, u[a] = u[b] PROVE a = b
    BY DEF IsInjective
  <2>1. ASSUME NEW i \in 1..Len(s), NEW k \in 1..Len(t) PROVE s[i] # t[k]
    BY <1>1, <1>5 DEF Range
  <2>2. CASE a <= Len(s) /\ b <= Len(s)
    BY <1>1, <1>5, <2>2 DEF IsInjective
  <2>3. CASE a > Len(s) /\ b > Len(s)
    <3>1. a - Len(s) \in DOMAIN t /\ b - Len(s) \in DOMAIN t /\ t[a - Len(s)] = t[b - Len(s)]
      BY <1>1, <2>3
    <3>2. a - Len(s) = b - Len(s)
      BY <1>5, <3>1 DEF IsInjective
    <3> QED BY <1>1, <3>2
  <2>4. CASE a <= Len(s) /\ b > Len(s)
    <3>1. a \in 1..Len(s) /\ b - Len(s) \in 1..Len(t) /\ s[a] = t[b - Len(s)]
      BY <1>1, <2>4
    <3> QED BY <2>1, <3>1
  <2>5. CASE a > Len(s) /\ b <= Len(s)
    <3>1. b \in 1..Len(s) /\ a - Len(s) \in 1..Len(t) /\ s[b] = t[a - Len(s)]
      BY <1>1, <2>5
    <3> QED BY <2>1, <3>1
  <2> QED BY <1>1, <2>2, <2>3, <2>4, <2>5
<1> QED BY <1>1, <1>2, <1>3, <1>4, <1>5 DEF u

\* Removing the element at one position.
LEMMA RemoveAtType ==
    ASSUME NEW S, NEW s \in Seq(S), NEW i \in DOMAIN s
    PROVE  RemoveAt(s, i) \in Seq(S)
<1>1. i \in 1..Len(s)
  OBVIOUS
<1>2. SubSeq(s, 1, i-1) \in Seq(S) /\ SubSeq(s, i+1, Len(s)) \in Seq(S)
  BY <1>1
<1> QED BY <1>2 DEF RemoveAt

\* The positions of some elements of a sequence.
Positions(I) == \E n \in Nat : I \subseteq 1..n

LEMMA PositionsIn ==
    ASSUME NEW S, NEW s \in Seq(S), NEW I, I \subseteq DOMAIN s
    PROVE  Positions(I)
<1>1. Len(s) \in Nat /\ DOMAIN s = 1..Len(s)
  OBVIOUS
<1> QED BY <1>1 DEF Positions

\* The increasing enumeration of a set of positions lists each of them once.
LEMMA AscendingLists ==
    ASSUME NEW I, Positions(I), NEW f \in Ascending(I)
    PROVE  /\ Cardinality(I) \in Nat
           /\ f \in [1..Cardinality(I) -> I]
           /\ IsInjective(f)
           /\ \A i \in I : \E k \in DOMAIN f : f[k] = i
<1> DEFINE c == Cardinality(I)
<1>1. PICK n \in Nat : I \subseteq 1..n
  BY DEF Positions
<1>2. IsFiniteSet(I)
  <2>1. IsFiniteSet(1..n)
    BY FS_Interval
  <2> QED BY <1>1, <2>1, FS_Subset
<1>3. c \in Nat
  BY <1>2, FS_CardinalityType
<1>4. f \in [1..c -> I] /\ \A a, b \in DOMAIN f : a < b => f[a] < f[b]
  BY DEF Ascending
<1>5. ASSUME NEW k \in 1..c PROVE f[k] \in Nat
  <2>1. f[k] \in I /\ I \subseteq 1..n
    BY <1>1, <1>4
  <2>2. f[k] \in 1..n
    BY <2>1
  <2> QED BY <2>2
<1> HIDE DEF c
<1>6. IsInjective(f)
  <2> SUFFICES ASSUME NEW a \in 1..c, NEW b \in 1..c, f[a] = f[b] PROVE a = b
    BY <1>4 DEF IsInjective
  <2>1. a < b \/ b < a \/ a = b
    BY <1>3
  <2>2. ~(a < b) /\ ~(b < a)
    BY <1>3, <1>4, <1>5
  <2> QED BY <2>1, <2>2
<1>7. f \in Injection(1..c, I)
  BY <1>4, <1>6 DEF Injection
<1>8. Cardinality(1..c) = c
  BY <1>3, FS_Interval
<1>9. f \in Surjection(1..c, I)
  BY <1>2, <1>7, <1>8, FS_Injection DEF c
<1>10. \A i \in I : \E k \in DOMAIN f : f[k] = i
  BY <1>4, <1>9 DEF Surjection
<1> QED BY <1>3, <1>4, <1>6, <1>10 DEF c

\* Picking the elements of a sequence at a set of positions, in their old
\* order, yields a sequence of just those elements.
LEMMA PickFacts ==
    ASSUME NEW S, NEW s \in Seq(S), NEW I \in SUBSET DOMAIN s, NEW f \in Ascending(I)
    PROVE  /\ Pick(s, f) \in Seq(S)
           /\ Range(Pick(s, f)) = {s[i] : i \in I}
           /\ IsInjective(s) => IsInjective(Pick(s, f))
<1> DEFINE c == Cardinality(I)
           p == Pick(s, f)
<1>1. Positions(I)
  BY PositionsIn
<1>2. /\ c \in Nat /\ f \in [1..c -> I] /\ IsInjective(f)
      /\ \A i \in I : \E k \in DOMAIN f : f[k] = i
  BY <1>1, AscendingLists
<1>3. DOMAIN p = 1..c /\ \A k \in 1..c : p[k] = s[f[k]] /\ p[k] \in S
  BY <1>2 DEF Pick
<1> HIDE DEF c
<1>4. p \in [1..c -> S]
  BY <1>2, <1>3 DEF Pick
<1> HIDE DEF p
<1>5. p \in Seq(S)
  BY <1>2, <1>4
<1>6. Range(p) = {s[i] : i \in I}
  <2>1. ASSUME NEW x \in Range(p) PROVE x \in {s[i] : i \in I}
    BY <1>2, <1>3 DEF Range
  <2>2. ASSUME NEW i \in I PROVE s[i] \in Range(p)
    BY <1>2, <1>3 DEF Range
  <2> QED BY <2>1, <2>2
<1>7. IsInjective(s) => IsInjective(p)
  BY <1>2, <1>3 DEF IsInjective
<1> QED BY <1>5, <1>6, <1>7 DEF p

\* A set without two different elements has at most one.
LEMMA AtMostOne ==
    ASSUME NEW S, \A x, y \in S : x = y
    PROVE  IsFiniteSet(S) /\ Cardinality(S) = IF S = {} THEN 0 ELSE 1
<1>1. CASE S = {}
  BY <1>1, FS_EmptySet
<1>2. CASE S # {}
  <2>1. PICK x : S = {x}
    BY <1>2
  <2> QED BY <1>2, <2>1, FS_Singleton
<1> QED BY <1>1, <1>2

\* The positions of the elements that belong to a set.
Where(s, T) == {i \in DOMAIN s : s[i] \in T}

LEMMA WhereFinite ==
    ASSUME NEW S, NEW s \in Seq(S), NEW T
    PROVE  IsFiniteSet(Where(s, T)) /\ Cardinality(Where(s, T)) \in Nat
<1>1. Len(s) \in Nat /\ DOMAIN s = 1..Len(s)
  OBVIOUS
<1>2. IsFiniteSet(1..Len(s))
  BY <1>1, FS_Interval
<1>3. Where(s, T) \in SUBSET (1..Len(s))
  BY <1>1 DEF Where
<1>4. IsFiniteSet(Where(s, T))
  BY <1>2, <1>3, FS_Subset
<1> QED BY <1>4, FS_CardinalityType

\* An element appended to a sequence is one more of its kind.
LEMMA WhereAppend ==
    ASSUME NEW S, NEW s \in Seq(S), NEW e \in S, NEW T
    PROVE  Cardinality(Where(Append(s, e), T)) =
             IF e \in T THEN Cardinality(Where(s, T)) + 1 ELSE Cardinality(Where(s, T))
<1> DEFINE n == Len(s) + 1
<1>1. /\ n \in Nat /\ n \notin DOMAIN s
      /\ DOMAIN Append(s, e) = DOMAIN s \cup {n}
      /\ Append(s, e)[n] = e
      /\ \A i \in DOMAIN s : Append(s, e)[i] = s[i]
  OBVIOUS
<1> HIDE DEF n
<1>2. Where(Append(s, e), T) = IF e \in T THEN Where(s, T) \cup {n} ELSE Where(s, T)
  BY <1>1 DEF Where
<1>3. n \notin Where(s, T)
  BY <1>1 DEF Where
<1>4. IsFiniteSet(Where(s, T))
  BY WhereFinite
<1> QED BY <1>2, <1>3, <1>4, FS_AddElement

\* The elements of a sequence after one is removed.
LEMMA RemoveAtFacts ==
    ASSUME NEW S, NEW s \in Seq(S), NEW i \in DOMAIN s
    PROVE  /\ RemoveAt(s, i) \in Seq(S) /\ Len(s) \in Nat /\ i \in 1..Len(s)
           /\ DOMAIN RemoveAt(s, i) = 1..(Len(s) - 1)
           /\ \A j \in 1..(Len(s) - 1) : RemoveAt(s, i)[j] = s[IF j < i THEN j ELSE j + 1]
<1>1. i \in 1..Len(s) /\ Len(s) \in Nat
  OBVIOUS
<1> DEFINE a == SubSeq(s, 1, i-1)
           b == SubSeq(s, i+1, Len(s))
<1>2. /\ a \in Seq(S) /\ Len(a) = i - 1 /\ \A j \in 1..(i-1) : a[j] = s[j]
  BY <1>1
<1>3. /\ b \in Seq(S) /\ Len(b) = Len(s) - i /\ \A j \in 1..(Len(s) - i) : b[j] = s[i + j]
  BY <1>1
<1> HIDE DEF a, b
<1>4. /\ a \o b \in Seq(S) /\ Len(a \o b) = Len(s) - 1
      /\ \A j \in 1..(Len(s) - 1) : (a \o b)[j] = IF j <= Len(a) THEN a[j] ELSE b[j - Len(a)]
  BY <1>1, <1>2, <1>3, SMTT(30)
<1>5. ASSUME NEW j \in 1..(Len(s) - 1) PROVE (a \o b)[j] = s[IF j < i THEN j ELSE j + 1]
  <2>1. CASE j < i
    BY <1>1, <1>2, <1>4, <2>1
  <2>2. CASE ~(j < i)
    <3>1. (a \o b)[j] = b[j - (i - 1)] /\ j - (i - 1) \in 1..(Len(s) - i)
      BY <1>1, <1>2, <1>4, <2>2
    <3>2. b[j - (i - 1)] = s[i + (j - (i - 1))] /\ i + (j - (i - 1)) = j + 1
      BY <1>1, <1>3, <3>1, SMTT(30)
    <3> QED BY <2>2, <3>1, <3>2
  <2> QED BY <2>1, <2>2
<1>6. RemoveAt(s, i) = a \o b
  BY DEF RemoveAt, a, b
<1>7. DOMAIN (a \o b) = 1..(Len(s) - 1)
  BY <1>4
<1> QED BY <1>1, <1>4, <1>5, <1>6, <1>7

\* An element removed from a sequence is one less of its kind.
LEMMA WhereRemoveAt ==
    ASSUME NEW S, NEW s \in Seq(S), NEW i \in DOMAIN s, NEW T
    PROVE  Cardinality(Where(RemoveAt(s, i), T)) =
             IF s[i] \in T THEN Cardinality(Where(s, T)) - 1 ELSE Cardinality(Where(s, T))
<1> DEFINE r == RemoveAt(s, i)
           A == Where(r, T)
           B == Where(s, T) \ {i}
           f == [j \in A |-> IF j < i THEN j ELSE j + 1]
<1>1. /\ Len(s) \in Nat /\ i \in 1..Len(s) /\ DOMAIN s = 1..Len(s) /\ DOMAIN r = 1..(Len(s) - 1)
      /\ \A j \in 1..(Len(s) - 1) : r[j] = s[IF j < i THEN j ELSE j + 1]
      /\ r \in Seq(S)
  BY RemoveAtFacts
<1> HIDE DEF r
<1>2. ASSUME NEW j \in A PROVE (IF j < i THEN j ELSE j + 1) \in B
  <2>1. j \in 1..(Len(s) - 1) /\ r[j] \in T
    BY <1>1 DEF Where
  <2>2. CASE j < i
    BY <1>1, <2>1, <2>2 DEF Where
  <2>3. CASE ~(j < i)
    BY <1>1, <2>1, <2>3 DEF Where
  <2> QED BY <2>2, <2>3
<1>3. A \subseteq Int
  BY <1>1 DEF Where
<1>4. ASSUME NEW b \in B PROVE \E j \in A : b = IF j < i THEN j ELSE j + 1
  <2>1. b \in 1..Len(s) /\ s[b] \in T /\ b # i
    BY <1>1 DEF Where
  <2>2. CASE b < i
    <3>1. b \in 1..(Len(s) - 1) /\ r[b] = s[b]
      BY <1>1, <2>1, <2>2
    <3>2. b \in A
      BY <1>1, <2>1, <3>1 DEF Where
    <3> QED BY <2>2, <3>2
  <2>3. CASE b > i
    <3>1. b - 1 \in 1..(Len(s) - 1) /\ ~(b - 1 < i) /\ (b - 1) + 1 = b
      BY <1>1, <2>1, <2>3
    <3>2. r[b - 1] = s[b]
      BY <1>1, <3>1
    <3>3. b - 1 \in A
      BY <1>1, <2>1, <3>1, <3>2 DEF Where
    <3> QED BY <3>1, <3>3
  <2> QED BY <1>1, <2>1, <2>2, <2>3
<1>5. IsFiniteSet(Where(s, T)) /\ IsFiniteSet(A)
  BY <1>1, WhereFinite
<1>6. /\ IsFiniteSet(B)
      /\ Cardinality(B) = IF s[i] \in T THEN Cardinality(Where(s, T)) - 1
                                        ELSE Cardinality(Where(s, T))
  BY <1>5, FS_RemoveElement DEF Where
<1> HIDE DEF A, B
<1>7. f \in [A -> B]
  BY <1>2
<1>8. f \in Injection(A, B)
  <2> SUFFICES ASSUME NEW a \in A, NEW b \in A, f[a] = f[b] PROVE a = b
    BY <1>7 DEF Injection, IsInjective
  <2>1. a \in Int /\ b \in Int /\ i \in Int
    BY <1>1, <1>3
  <2> QED BY <2>1
<1>9. f \in Surjection(A, B)
  BY <1>4, <1>7 DEF Surjection
<1>10. f \in Bijection(A, B)
  BY <1>8, <1>9 DEF Bijection
<1>11. Cardinality(A) = Cardinality(B)
  BY <1>5, <1>10, FS_Bijection DEF ExistsBijection
<1> QED BY <1>6, <1>11 DEF A, r

\* So is the head of a sequence.
LEMMA WhereTail ==
    ASSUME NEW S, NEW s \in Seq(S), s # <<>>, NEW T
    PROVE  Cardinality(Where(Tail(s), T)) =
             IF s[1] \in T THEN Cardinality(Where(s, T)) - 1 ELSE Cardinality(Where(s, T))
<1>1. /\ Len(s) \in Nat /\ 1 \in DOMAIN s /\ DOMAIN Tail(s) = 1..(Len(s) - 1)
      /\ \A j \in 1..(Len(s) - 1) : Tail(s)[j] = s[j + 1]
  OBVIOUS
<1>2. /\ DOMAIN RemoveAt(s, 1) = 1..(Len(s) - 1)
      /\ \A j \in 1..(Len(s) - 1) : RemoveAt(s, 1)[j] = s[IF j < 1 THEN j ELSE j + 1]
  BY <1>1, RemoveAtFacts
<1>3. \A j \in 1..(Len(s) - 1) : RemoveAt(s, 1)[j] = Tail(s)[j]
  BY <1>1, <1>2
<1>4. Where(Tail(s), T) = Where(RemoveAt(s, 1), T)
  BY <1>1, <1>2, <1>3 DEF Where
<1> QED BY <1>1, <1>4, WhereRemoveAt

\* Two sequences together hold as many of a kind as each does.
LEMMA WhereConcat ==
    ASSUME NEW S, NEW s \in Seq(S), NEW t \in Seq(S), NEW T
    PROVE  Cardinality(Where(s \o t, T)) = Cardinality(Where(s, T)) + Cardinality(Where(t, T))
<1> DEFINE n == Len(s)
           A == Where(s, T)
           C == Where(t, T)
           B == {i \in Where(s \o t, T) : i > n}
           f == [i \in B |-> i - n]
<1>1. /\ n \in Nat /\ Len(t) \in Nat /\ DOMAIN s = 1..n /\ DOMAIN t = 1..Len(t)
      /\ DOMAIN (s \o t) = 1..(n + Len(t))
      /\ \A i \in 1..(n + Len(t)) : (s \o t)[i] = IF i <= n THEN s[i] ELSE t[i - n]
  OBVIOUS
<1> HIDE DEF n
<1>2. Where(s \o t, T) = A \cup B /\ A \cap B = {}
  BY <1>1 DEF Where
<1>3. ASSUME NEW i \in B PROVE i - n \in C /\ i \in Int
  <2>1. i \in 1..(n + Len(t)) /\ i > n /\ (s \o t)[i] \in T
    BY <1>1 DEF Where
  <2>2. i - n \in 1..Len(t) /\ (s \o t)[i] = t[i - n]
    BY <1>1, <2>1
  <2> QED BY <1>1, <2>1, <2>2 DEF Where
<1>4. ASSUME NEW k \in C PROVE k + n \in B /\ (k + n) - n = k
  <2>1. k \in 1..Len(t) /\ t[k] \in T
    BY <1>1 DEF Where
  <2>2. /\ k + n \in 1..(n + Len(t)) /\ k + n > n /\ (k + n) - n = k
        /\ (s \o t)[k + n] = t[k]
    BY <1>1, <2>1
  <2> QED BY <1>1, <2>1, <2>2 DEF Where
<1>5. IsFiniteSet(A) /\ IsFiniteSet(C)
  BY WhereFinite
<1> HIDE DEF A, B, C
<1>6. f \in [B -> C]
  BY <1>3
<1>7. f \in Injection(B, C)
  <2>1. ASSUME NEW i \in B, NEW j \in B, f[i] = f[j] PROVE i = j
    <3>1. i - n = j - n /\ i \in Int /\ j \in Int
      BY <1>3, <2>1
    <3> QED BY <1>1, <3>1
  <2> QED BY <1>6, <2>1 DEF Injection, IsInjective
<1>8. \A k \in C : \E i \in B : f[i] = k
  BY <1>4
<1>9. f \in Bijection(B, C)
  BY <1>6, <1>7, <1>8 DEF Bijection, Surjection
<1> HIDE DEF f
<1>10. IsFiniteSet(B)
  BY <1>5, <1>7, FS_Injection
<1>11. Cardinality(B) = Cardinality(C)
  BY <1>9, <1>10, FS_Bijection DEF ExistsBijection
<1>12. Cardinality(A \cup B) = Cardinality(A) + Cardinality(B) - Cardinality(A \cap B)
  BY <1>5, <1>10, FS_Union
<1>13. Cardinality(A \cap B) = 0
  BY <1>2, FS_EmptySet
<1>14. Cardinality(A) \in Nat /\ Cardinality(B) \in Nat
  BY <1>5, <1>10, FS_CardinalityType
<1>15. Cardinality(A \cup B) = Cardinality(A) + Cardinality(C)
  BY <1>11, <1>12, <1>13, <1>14
<1> QED BY <1>2, <1>15 DEF A, C

\* The elements picked at a set of positions are as many of a kind as the
\* sequence has there.
LEMMA WherePick ==
    ASSUME NEW S, NEW s \in Seq(S), NEW I \in SUBSET DOMAIN s, NEW f \in Ascending(I), NEW T
    PROVE  Cardinality(Where(Pick(s, f), T)) = Cardinality(Where(s, T) \cap I)
<1> DEFINE A == Where(Pick(s, f), T)
           B == Where(s, T) \cap I
           g == [k \in A |-> f[k]]
<1>1. Positions(I)
  BY PositionsIn
<1>2. /\ f \in [1..Cardinality(I) -> I] /\ IsInjective(f)
      /\ \A i \in I : \E k \in DOMAIN f : f[k] = i
  BY <1>1, AscendingLists
<1>3. DOMAIN Pick(s, f) = DOMAIN f /\ \A k \in DOMAIN f : Pick(s, f)[k] = s[f[k]]
  BY DEF Pick
<1>4. A \subseteq DOMAIN f /\ \A k \in A : f[k] \in B
  BY <1>2, <1>3 DEF Where
<1>5. \A i \in B : \E k \in A : f[k] = i
  BY <1>2, <1>3 DEF Where
<1>6. IsFiniteSet(B)
  <2>1. IsFiniteSet(Where(s, T)) /\ B \in SUBSET Where(s, T)
    BY WhereFinite
  <2> QED BY <2>1, FS_Subset
<1> HIDE DEF A, B
<1>7. g \in Injection(A, B)
  BY <1>2, <1>4 DEF Injection, IsInjective
<1>8. g \in [A -> B] /\ \A i \in B : \E k \in A : g[k] = i
  BY <1>4, <1>5
<1>9. g \in Bijection(A, B)
  BY <1>7, <1>8 DEF Bijection, Surjection
<1> HIDE DEF g
<1>10. IsFiniteSet(A)
  BY <1>6, <1>7, FS_Injection
<1>11. Cardinality(A) = Cardinality(B)
  BY <1>9, <1>10, FS_Bijection DEF ExistsBijection
<1> QED BY <1>11 DEF A, B

=============================================================================
