------------------------------ MODULE DomProofs ------------------------------
(***************************************************************************)
(* Proofs about the browser environment: the node tree (DomTree) and the   *)
(* event dispatch (EventDispatch).                                         *)
(***************************************************************************)
EXTENDS DomTree, EventDispatch, SequenceTheorems, FiniteSetTheorems, WellFoundedInduction,
        TLAPS

(***************************************************************************)
(* Induction over data.  The theorems of the library take a predicate,     *)
(* which the provers cannot instantiate; stated with sets they can be used. *)
(***************************************************************************)
LEMMA LeastNumber ==
  ASSUME NEW T \in SUBSET Nat, T # {}
  PROVE  \E n \in T : \A m \in T : n <= m
<1> DEFINE R == OpToRel(<, Nat)
<1>1. IsWellFoundedOn(R, Nat)
  BY NatLessThanWellFounded
<1>2. \A m, n \in Nat : m < n => <<m, n>> \in R
  BY DEF OpToRel
<1> HIDE DEF R
<1>3. PICK n \in T : \A m \in T : ~(<<m, n>> \in R)
  BY <1>1, WFMin
<1>4. ASSUME NEW m \in T, m < n PROVE FALSE
  BY <1>2, <1>3, <1>4
<1>5. ASSUME NEW m \in T PROVE n <= m
  <2>1. m \in Nat /\ n \in Nat
    OBVIOUS
  <2>2. ~(m < n)
    BY <1>4
  <2> QED
    BY <2>1, <2>2
<1> QED
  BY <1>5

LEMMA SetInduction ==
  ASSUME NEW n \in Nat, NEW D, 0 \in D, \A k \in 1 .. n : k - 1 \in D => k \in D
  PROVE  \A k \in 0 .. n : k \in D
<1> DEFINE T == {k \in 0 .. n : k \notin D}
<1>1. SUFFICES ASSUME T # {} PROVE FALSE
  OBVIOUS
<1>2. T \in SUBSET Nat
  OBVIOUS
<1>3. PICK m \in T : \A k \in T : m <= k
  BY <1>1, <1>2, LeastNumber
<1>4. m \in 1 .. n /\ m - 1 \in 0 .. n
  BY <1>3
<1>5. m - 1 \in D
  BY <1>3, <1>4
<1> QED
  BY <1>3, <1>4, <1>5

(* What starts with a and takes the step F[k] to get its k-th value. *)
Iterates(g, n, a, F) == g[0] = a /\ \A k \in 1 .. n : g[k] = F[k][g[k - 1]]

LEMMA Recursion ==
  ASSUME NEW S, NEW n \in Nat, NEW a \in S, NEW F \in [1 .. n -> [S -> S]]
  PROVE  \E g \in [0 .. n -> S] : Iterates(g, n, a, F)
<1> DEFINE Upto(m, g) == Iterates(g, m, a, F)
           D == {m \in 0 .. n : \E g \in [0 .. m -> S] : Upto(m, g)}
<1>1. 0 \in D
  <2>1. Upto(0, [k \in 0 .. 0 |-> a])
    BY DEF Iterates
  <2>2. [k \in 0 .. 0 |-> a] \in [0 .. 0 -> S]
    OBVIOUS
  <2>3. 0 \in 0 .. n
    OBVIOUS
  <2>4. \E g \in [0 .. 0 -> S] : Upto(0, g)
    <3> HIDE DEF Upto
    <3> QED BY <2>1, <2>2
  <2> QED
    BY <2>3, <2>4
<1>2. ASSUME NEW m \in 1 .. n, m - 1 \in D PROVE m \in D
  <2>1. PICK g \in [0 .. m - 1 -> S] : Upto(m - 1, g)
    BY <1>2
  <2> DEFINE h == [k \in 0 .. m |-> IF k = m THEN F[m][g[m - 1]] ELSE g[k]]
  <2>2. g[m - 1] \in S /\ F[m][g[m - 1]] \in S
    OBVIOUS
  <2>3. h \in [0 .. m -> S]
    BY <2>2
  <2>4. h[0] = a
    BY <2>1 DEF Iterates
  <2>5. \A k \in 1 .. m : h[k] = F[k][h[k - 1]]
    BY <2>1 DEF Iterates
  <2> HIDE DEF h
  <2>6. Upto(m, h)
    BY <2>4, <2>5 DEF Iterates
  <2> QED
    BY <2>3, <2>6
<1>3. \A k \in 1 .. n : k - 1 \in D => k \in D
  BY <1>2
<1> HIDE DEF D
<1>4. \A k \in 0 .. n : k \in D
  BY <1>1, <1>3, SetInduction
<1> QED
  BY <1>4 DEF D

-----------------------------------------------------------------------------
(* Sequences. *)
LEMMA PushFacts ==
  ASSUME NEW S, NEW s \in Seq(S), NEW f \in S
  PROVE  /\ Append(s, f) \in Seq(S) /\ Len(Append(s, f)) = Len(s) + 1
         /\ \A i \in 1 .. Len(s) : Append(s, f)[i] = s[i]
         /\ Append(s, f)[Len(s) + 1] = f
  BY AppendProperties

LEMMA FrontFacts ==
  ASSUME NEW S, NEW s \in Seq(S), s # <<>>
  PROVE  /\ Front(s) \in Seq(S) /\ Len(Front(s)) = Len(s) - 1
         /\ \A i \in 1 .. Len(s) - 1 : Front(s)[i] = s[i]
         /\ Len(s) \in Nat \ {0} /\ Last(s) \in S /\ Last(s) = s[Len(s)]
<1>1. Len(s) \in Nat /\ Len(s) # 0 /\ \A i \in 1 .. Len(s) : s[i] \in S
  BY LenProperties, EmptySeq, ElementOfSeq
<1>2. \A i \in 1 .. Len(s) - 1 : s[i] \in S
  BY <1>1
<1> DEFINE n == Len(s) - 1
           f == SubSeq(s, 1, n)
<1>3. /\ f \in Seq(S)
      /\ Len(f) = IF 1 <= n THEN n - 1 + 1 ELSE 0
      /\ \A i \in 1 .. n - 1 + 1 : f[i] = s[1 + i - 1]
  BY <1>1, <1>2, SubSeqProperties
<1>4. Last(s) \in S /\ Last(s) = s[Len(s)]
  BY <1>1 DEF Last
<1>5. n \in Nat /\ n - 1 + 1 = n /\ \A i \in 1 .. n : 1 + i - 1 = i
  BY <1>1
<1> HIDE DEF f
<1> HIDE DEF n
<1>6. Len(f) = n
  <2>1. CASE 1 <= n
    BY <1>3, <1>5, <2>1
  <2>2. CASE n = 0
    BY <1>3, <1>5, <2>2
  <2> QED
    BY <1>5, <2>1, <2>2
<1>7. \A i \in 1 .. n : f[i] = s[i]
  BY <1>3, <1>5
<1> QED
  BY <1>1, <1>3, <1>4, <1>6, <1>7 DEF Front, f, n

LEMMA RemoveAtFacts ==
  ASSUME NEW S, NEW s \in Seq(S), NEW i \in 1 .. Len(s)
  PROVE  /\ RemoveAt(s, i) \in Seq(S) /\ Len(RemoveAt(s, i)) = Len(s) - 1
         /\ \A j \in 1 .. Len(s) - 1 :
              RemoveAt(s, i)[j] = IF j < i THEN s[j] ELSE s[j + 1]
<1> DEFINE n == Len(s)
           a == SubSeq(s, 1, i - 1)
           b == SubSeq(s, i + 1, n)
<1>1. n \in Nat /\ \A j \in 1 .. n : s[j] \in S
  BY LenProperties, ElementOfSeq
<1>2. a \in Seq(S) /\ Len(a) = i - 1 /\ \A j \in 1 .. i - 1 : a[j] = s[j]
  <2>1. \A j \in 1 .. i - 1 : s[j] \in S
    BY <1>1
  <2>2. /\ a \in Seq(S) /\ Len(a) = IF 1 <= i - 1 THEN (i - 1) - 1 + 1 ELSE 0
        /\ \A j \in 1 .. (i - 1) - 1 + 1 : a[j] = s[1 + j - 1]
    BY <1>1, <2>1, SubSeqProperties
  <2> HIDE DEF a
  <2> QED
    BY <1>1, <2>2
<1>3. b \in Seq(S) /\ Len(b) = n - i /\ \A j \in 1 .. n - i : b[j] = s[i + j]
  <2>1. \A j \in i + 1 .. n : s[j] \in S
    BY <1>1
  <2>2. /\ b \in Seq(S) /\ Len(b) = IF i + 1 <= n THEN n - (i + 1) + 1 ELSE 0
        /\ \A j \in 1 .. n - (i + 1) + 1 : b[j] = s[i + 1 + j - 1]
    BY <1>1, <2>1, SubSeqProperties
  <2> HIDE DEF b
  <2> QED
    BY <1>1, <2>2
<1>4. RemoveAt(s, i) = a \o b
  BY DEF RemoveAt
<1> HIDE DEF a, b
<1>5. /\ a \o b \in Seq(S) /\ Len(a \o b) = Len(a) + Len(b)
      /\ \A j \in 1 .. Len(a) + Len(b) :
           (a \o b)[j] = IF j <= Len(a) THEN a[j] ELSE b[j - Len(a)]
  BY <1>2, <1>3, ConcatProperties
<1>6. ASSUME NEW j \in 1 .. n - 1
      PROVE  (a \o b)[j] = IF j < i THEN s[j] ELSE s[j + 1]
  <2>0. j \in Int /\ i \in Int
    BY <1>1
  <2>1. j \in 1 .. Len(a) + Len(b)
    BY <1>1, <1>2, <1>3
  <2>2. CASE j < i
    BY <1>1, <1>2, <1>5, <2>1, <2>2
  <2>3. CASE ~(j < i)
    <3>1. j - (i - 1) \in 1 .. n - i /\ i + (j - (i - 1)) = j + 1 /\ ~(j <= i - 1)
      BY <1>1, <2>0, <2>3
    <3>2. (a \o b)[j] = b[j - (i - 1)]
      BY <1>2, <1>5, <2>1, <3>1
    <3>3. b[j - (i - 1)] = s[j + 1]
      BY <1>3, <3>1
    <3> QED
      BY <2>3, <3>2, <3>3
  <2> QED
    BY <2>2, <2>3
<1> QED
  BY <1>1, <1>2, <1>3, <1>4, <1>5, <1>6

-----------------------------------------------------------------------------
(***************************************************************************)
(* The node tree: lists of children.                                       *)
(***************************************************************************)
LEMMA InsertAtFacts ==
  ASSUME NEW S, NEW s \in Seq(S), NEW i \in 1 .. Len(s) + 1, NEW e \in S
  PROVE  /\ InsertAt(s, i, e) \in Seq(S)
         /\ ToSet(InsertAt(s, i, e)) = ToSet(s) \cup {e}
         /\ IsInjective(s) /\ e \notin ToSet(s) => IsInjective(InsertAt(s, i, e))
<1> DEFINE n == Len(s)
           a == SubSeq(s, 1, i - 1)
           b == SubSeq(s, i, n)
           r == InsertAt(s, i, e)
<1>1. n \in Nat /\ (\A j \in 1 .. n : s[j] \in S) /\ DOMAIN s = 1 .. n
  BY LenProperties, ElementOfSeq
<1>2. a \in Seq(S) /\ Len(a) = i - 1 /\ \A j \in 1 .. i - 1 : a[j] = s[j]
  <2>1. \A j \in 1 .. i - 1 : s[j] \in S
    BY <1>1
  <2>2. /\ a \in Seq(S) /\ Len(a) = IF 1 <= i - 1 THEN (i - 1) - 1 + 1 ELSE 0
        /\ \A j \in 1 .. (i - 1) - 1 + 1 : a[j] = s[1 + j - 1]
    BY <1>1, <2>1, SubSeqProperties
  <2> HIDE DEF a
  <2> QED
    BY <1>1, <2>2
<1>3. b \in Seq(S) /\ Len(b) = n - i + 1 /\ \A j \in 1 .. n - i + 1 : b[j] = s[i + j - 1]
  <2>1. \A j \in i .. n : s[j] \in S
    BY <1>1
  <2>2. /\ b \in Seq(S) /\ Len(b) = IF i <= n THEN n - i + 1 ELSE 0
        /\ \A j \in 1 .. n - i + 1 : b[j] = s[i + j - 1]
    BY <1>1, <2>1, SubSeqProperties
  <2> HIDE DEF b
  <2> QED
    BY <1>1, <2>2
<1>4. <<e>> \in Seq(S) /\ Len(<<e>>) = 1 /\ <<e>>[1] = e
  OBVIOUS
<1> DEFINE o == <<e>>
           c == a \o o
<1>5. r = c \o b
  BY DEF InsertAt
<1> HIDE DEF a, b, o
<1>6. /\ c \in Seq(S) /\ Len(c) = i
      /\ \A j \in 1 .. i : c[j] = IF j < i THEN s[j] ELSE e
  <2>1. /\ c \in Seq(S) /\ Len(c) = Len(a) + Len(o)
        /\ \A j \in 1 .. Len(a) + Len(o) :
             c[j] = IF j <= Len(a) THEN a[j] ELSE o[j - Len(a)]
    BY <1>2, <1>4, ConcatProperties DEF o
  <2>2. Len(a) + Len(o) = i
    BY <1>1, <1>2, <1>4 DEF o
  <2> HIDE DEF c
  <2>3. ASSUME NEW j \in 1 .. i PROVE c[j] = IF j < i THEN s[j] ELSE e
    <3>1. CASE j < i
      BY <1>1, <1>2, <2>1, <2>2, <3>1
    <3>2. CASE ~(j < i)
      <4>1. j = i /\ j - Len(a) = 1 /\ ~(j <= Len(a))
        BY <1>1, <1>2, <3>2
      <4>2. o[1] = e
        BY DEF o
      <4>3. c[j] = o[j - Len(a)]
        BY <2>1, <2>2, <4>1
      <4>4. c[j] = o[1]
        BY <4>1, <4>3
      <4> QED
        BY <3>2, <4>2, <4>4
    <3> QED
      BY <3>1, <3>2
  <2> QED
    BY <2>1, <2>2, <2>3
<1> HIDE DEF c, r
<1>7. /\ r \in Seq(S) /\ Len(r) = n + 1
      /\ \A j \in 1 .. n + 1 : r[j] = IF j < i THEN s[j] ELSE IF j = i THEN e ELSE s[j - 1]
  <2>1. /\ r \in Seq(S) /\ Len(r) = Len(c) + Len(b)
        /\ \A j \in 1 .. Len(c) + Len(b) :
             r[j] = IF j <= Len(c) THEN c[j] ELSE b[j - Len(c)]
    BY <1>3, <1>5, <1>6, ConcatProperties
  <2>2. Len(c) + Len(b) = n + 1
    BY <1>1, <1>3, <1>6
  <2>3. ASSUME NEW j \in 1 .. n + 1
        PROVE  r[j] = IF j < i THEN s[j] ELSE IF j = i THEN e ELSE s[j - 1]
    <3>1. CASE j <= i
      BY <1>1, <1>6, <2>1, <2>2, <3>1
    <3>2. CASE j > i
      <4>1. j - i \in 1 .. n - i + 1 /\ i + (j - i) - 1 = j - 1
        BY <1>1, <3>2
      <4>2. r[j] = b[j - i]
        BY <1>1, <1>6, <2>1, <2>2, <3>2
      <4> QED
        BY <1>1, <1>3, <3>2, <4>1, <4>2
    <3> QED
      BY <1>1, <3>1, <3>2
  <2> QED
    BY <2>1, <2>2, <2>3
<1>8. DOMAIN r = 1 .. n + 1
  BY <1>7, LenProperties
<1>9. ToSet(r) = ToSet(s) \cup {e}
  <2>1. ASSUME NEW x \in ToSet(r) PROVE x \in ToSet(s) \cup {e}
    <3>1. PICK j \in 1 .. n + 1 : x = r[j]
      BY <1>8 DEF ToSet
    <3>2. x = e \/ (j < i /\ x = s[j]) \/ (j > i /\ x = s[j - 1])
      BY <1>1, <1>7, <3>1
    <3>3. (j < i => j \in 1 .. n) /\ (j > i => j - 1 \in 1 .. n)
      BY <1>1
    <3> QED
      BY <1>1, <3>2, <3>3 DEF ToSet
  <2>2. ASSUME NEW x \in ToSet(s) PROVE x \in ToSet(r)
    <3>1. PICK j \in 1 .. n : x = s[j]
      BY <1>1 DEF ToSet
    <3>2. j < i => j \in 1 .. n + 1 /\ r[j] = x
      BY <1>1, <1>7, <3>1
    <3>3. ~(j < i) => j + 1 \in 1 .. n + 1 /\ r[j + 1] = x
      BY <1>1, <1>7, <3>1
    <3> QED
      BY <1>8, <3>2, <3>3 DEF ToSet
  <2>3. e \in ToSet(r)
    BY <1>1, <1>7, <1>8 DEF ToSet
  <2> QED
    BY <2>1, <2>2, <2>3
<1>10. ASSUME IsInjective(s), e \notin ToSet(s) PROVE IsInjective(r)
  <2>1. \A j, k \in 1 .. n : s[j] = s[k] => j = k
    BY <1>1, <1>10 DEF IsInjective
  <2>2. \A j \in 1 .. n : s[j] # e
    BY <1>1, <1>10 DEF ToSet
  <2>3. ASSUME NEW j \in 1 .. n + 1, NEW k \in 1 .. n + 1, r[j] = r[k] PROVE j = k
    <3>1. \A m \in 1 .. n + 1 :
            \/ m < i /\ m \in 1 .. n /\ r[m] = s[m]
            \/ m = i /\ r[m] = e
            \/ m > i /\ m - 1 \in 1 .. n /\ r[m] = s[m - 1]
      BY <1>1, <1>7
    <3> QED
      BY <1>1, <2>1, <2>2, <2>3, <3>1
  <2> QED
    BY <1>8, <2>3 DEF IsInjective
<1> QED
  BY <1>7, <1>9, <1>10 DEF r

LEMMA LeastOfSet ==
  ASSUME NEW I \in SUBSET Nat, I # {}
  PROVE  Min(I) \in I
<1>1. PICK n \in I : \A m \in I : n <= m
  BY LeastNumber
<1> QED
  BY <1>1 DEF Min

LEMMA RemoveFirstFacts ==
  ASSUME NEW S, NEW s \in Seq(S), NEW e
  PROVE  /\ RemoveFirst(s, e) \in Seq(S)
         /\ ToSet(RemoveFirst(s, e)) \subseteq ToSet(s)
         /\ ToSet(s) \ {e} \subseteq ToSet(RemoveFirst(s, e))
         /\ IsInjective(s) => IsInjective(RemoveFirst(s, e)) /\ e \notin ToSet(RemoveFirst(s, e))
<1> DEFINE n == Len(s)
           r == RemoveFirst(s, e)
<1>1. n \in Nat /\ (\A j \in 1 .. n : s[j] \in S) /\ DOMAIN s = 1 .. n
  BY LenProperties, ElementOfSeq
<1>2. CASE ~ \E j \in 1 .. Len(s) : s[j] = e
  <2>1. r = s
    BY <1>2 DEF RemoveFirst
  <2>2. e \notin ToSet(s)
    BY <1>1, <1>2 DEF ToSet
  <2> QED
    BY <2>1, <2>2
<1>3. CASE \E j \in 1 .. Len(s) : s[j] = e
  <2> DEFINE I == {j \in 1 .. Len(s) : s[j] = e}
             i == Min(I)
  <2>1. I # {} /\ I \in SUBSET Nat
    BY <1>3
  <2>2. i \in 1 .. n /\ s[i] = e
    BY <2>1, LeastOfSet
  <2>3. r = RemoveAt(s, i)
    BY <1>3, <2>1 DEF RemoveFirst, SelectInSeq
  <2> HIDE DEF i, r
  <2>4. /\ r \in Seq(S) /\ Len(r) = n - 1
        /\ \A j \in 1 .. n - 1 : r[j] = IF j < i THEN s[j] ELSE s[j + 1]
    BY <2>2, <2>3, RemoveAtFacts
  <2>5. DOMAIN r = 1 .. n - 1
    BY <2>4, LenProperties
  <2> HIDE DEF n
  <2>6. ToSet(r) \subseteq ToSet(s)
    <3>1. ASSUME NEW j \in 1 .. n - 1 PROVE r[j] \in ToSet(s)
      <4>1. j \in 1 .. n /\ j + 1 \in 1 .. n
        BY <1>1
      <4> QED
        BY <1>1, <2>4, <4>1 DEF ToSet
    <3> QED
      BY <2>5, <3>1 DEF ToSet
  <2>7. ToSet(s) \ {e} \subseteq ToSet(r)
    <3>1. ASSUME NEW j \in 1 .. n, s[j] # e PROVE s[j] \in ToSet(r)
      <4>1. j # i
        BY <2>2, <3>1
      <4>2. j < i => j \in 1 .. n - 1 /\ r[j] = s[j]
        BY <1>1, <2>2, <2>4
      <4>3. ~(j < i) => j - 1 \in 1 .. n - 1 /\ r[j - 1] = s[j]
        BY <1>1, <2>2, <2>4, <4>1
      <4> QED
        BY <2>5, <4>2, <4>3 DEF ToSet
    <3> QED
      BY <1>1, <3>1 DEF ToSet
  <2>8. ASSUME IsInjective(s) PROVE IsInjective(r) /\ e \notin ToSet(r)
    <3>1. \A j, k \in 1 .. n : s[j] = s[k] => j = k
      BY <1>1, <2>8 DEF IsInjective
    <3>2. \A m \in 1 .. n - 1 :
            \/ m < i /\ m \in 1 .. n /\ r[m] = s[m]
            \/ m >= i /\ m + 1 \in 1 .. n /\ r[m] = s[m + 1]
      BY <1>1, <2>2, <2>4
    <3>3. \A j, k \in 1 .. n - 1 : r[j] = r[k] => j = k
      BY <1>1, <2>2, <3>1, <3>2
    <3>4. \A j \in 1 .. n - 1 : r[j] # e
      BY <1>1, <2>2, <3>1, <3>2
    <3> QED
      BY <2>5, <3>3, <3>4 DEF IsInjective, ToSet
  <2> QED
    BY <2>4, <2>6, <2>7, <2>8 DEF r
<1> QED
  BY <1>2, <1>3

-----------------------------------------------------------------------------
(* The children of p. *)
Kids(s, p) == ToSet(s.kids[p])

LEMMA KidsTyped ==
  ASSUME NEW s, s.kids \in [Node -> Seq(Node)], NEW p \in Node
  PROVE  Kids(s, p) \subseteq Node
<1>1. s.kids[p] \in Seq(Node) /\ DOMAIN s.kids[p] = 1 .. Len(s.kids[p])
  BY LenProperties
<1> QED
  BY <1>1, ElementOfSeq DEF Kids, ToSet

LEMMA SizeOfTree == Cardinality(Node) \in Nat /\ IsFiniteSet(Node)
  BY NodeAssumption, FS_CardinalityType

(* A walk along childNodes visits a set that is closed under childNodes, and *)
(* nothing that is not a child of what it visited.                           *)
Closed(s, B) == \A m \in B : Kids(s, m) \subseteq B
Wider(s, B) == B \cup UNION {Kids(s, m) : m \in B}

LEMMA WiderFacts ==
  ASSUME NEW s, s.kids \in [Node -> Seq(Node)], NEW B \in SUBSET Node
  PROVE  Wider(s, B) \in SUBSET Node /\ (Closed(s, B) <=> Wider(s, B) = B)
  BY KidsTyped DEF Wider, Closed

LEMMA SubtreeFacts ==
  ASSUME NEW s, s.kids \in [Node -> Seq(Node)], NEW n \in Node
  PROVE  /\ Subtree(s, n) \subseteq Node /\ n \in Subtree(s, n)
         /\ Closed(s, Subtree(s, n))
         /\ \A m \in Subtree(s, n) \ {n} : \E q \in Subtree(s, n) : m \in Kids(s, q)
<1> DEFINE N == Cardinality(Node)
           G(g) == [k \in 0 .. Cardinality(Node) |->
                      IF k = 0 THEN {n}
                      ELSE LET S == g[k-1] IN S \cup UNION {ToSet(s.kids[m]) : m \in S}]
           F == [k \in 1 .. N |-> [X \in SUBSET Node |-> Wider(s, X)]]
<1>1. N \in Nat /\ IsFiniteSet(Node)
  BY SizeOfTree
<1>2. F \in [1 .. N -> [SUBSET Node -> SUBSET Node]]
  BY WiderFacts
<1>3. PICK g \in [0 .. N -> SUBSET Node] : Iterates(g, N, {n}, F)
  <2> HIDE DEF F, N
  <2> QED
    BY <1>1, <1>2, Recursion
<1>4. g = G(g)
  <2>1. ASSUME NEW j \in 0 .. Cardinality(Node) PROVE g[j] = G(g)[j]
    <3>1. CASE j = 0
      BY <3>1, <1>3 DEF Iterates
    <3>2. CASE j # 0
      <4>1. j \in 1 .. N /\ j - 1 \in 0 .. N
        BY <1>1, <3>2
      <4>2. g[j] = F[j][g[j - 1]] /\ g[j - 1] \in SUBSET Node
        <5> HIDE DEF N, F
        <5> QED
          BY <1>3, <4>1 DEF Iterates
      <4>3. F[j][g[j - 1]] = Wider(s, g[j - 1])
        BY <4>1, <4>2
      <4> QED
        BY <3>2, <4>2, <4>3 DEF Wider, Kids
    <3> QED
      BY <3>1, <3>2
  <2>2. g = [j \in 0 .. Cardinality(Node) |-> g[j]]
    BY <1>3
  <2> QED
    BY <2>1, <2>2
<1> DEFINE h == CHOOSE h : h = G(h)
<1>5. h = G(h)
  BY <1>4
<1>6. Subtree(s, n) = h[N]
  BY DEF Subtree
<1> HIDE DEF h
<1>7. h[0] = {n}
  BY <1>1, <1>5
<1>8. ASSUME NEW k \in 1 .. N PROVE h[k] = Wider(s, h[k - 1])
  <2>1. k \in 0 .. Cardinality(Node) /\ k # 0
    BY <1>1
  <2> QED
    BY <1>5, <2>1 DEF Wider, Kids
<1> DEFINE From(B) == \A m \in B \ {n} : \E q \in B : m \in Kids(s, q)
           D == {k \in 0 .. N : h[k] \subseteq Node /\ n \in h[k] /\ From(h[k])}
           E == {k \in 0 .. N : Closed(s, h[k]) \/ Cardinality(h[k]) >= k + 1}
<1>9. \A k \in 0 .. N : k \in D
  <2>1. 0 \in D
    BY <1>1, <1>7
  <2>2. ASSUME NEW k \in 1 .. N, k - 1 \in D PROVE k \in D
    <3> DEFINE B == h[k - 1]
    <3>1. B \subseteq Node /\ n \in B /\ From(B)
      BY <2>2
    <3>2. h[k] = Wider(s, B)
      BY <1>8
    <3> HIDE DEF B
    <3>3. h[k] \subseteq Node /\ n \in h[k]
      <4>1. Wider(s, B) \in SUBSET Node
        BY <3>1, WiderFacts
      <4>2. n \in Wider(s, B)
        BY <3>1 DEF Wider
      <4> QED
        BY <3>2, <4>1, <4>2
    <3>4. From(h[k])
      BY <3>1, <3>2 DEF Wider
    <3>5. k \in 0 .. N
      BY <1>1
    <3> QED
      BY <3>3, <3>4, <3>5
  <2>3. \A k \in 1 .. N : k - 1 \in D => k \in D
    BY <2>2
  <2> HIDE DEF D, N
  <2> QED
    BY <1>1, <2>1, <2>3, SetInduction
<1>10. \A k \in 0 .. N : k \in E
  <2>1. 0 \in E
    <3>1. Cardinality({n}) = 1
      BY FS_Singleton
    <3>2. Cardinality(h[0]) >= 0 + 1 /\ 0 \in 0 .. N
      BY <1>1, <1>7, <3>1
    <3> QED
      BY <3>2
  <2>2. ASSUME NEW k \in 1 .. N, k - 1 \in E PROVE k \in E
    <3> DEFINE B == h[k - 1]
    <3>1. k - 1 \in 0 .. N /\ k \in 0 .. N /\ k \in Nat
      BY <1>1
    <3>2. B \subseteq Node /\ h[k] \subseteq Node
      BY <1>9, <3>1
    <3>3. h[k] = Wider(s, B)
      BY <1>8
    <3>4. Closed(s, B) \/ Cardinality(B) >= k
      BY <2>2, <3>1
    <3> HIDE DEF B
    <3>5. CASE Closed(s, B)
      BY <3>1, <3>2, <3>3, <3>5, WiderFacts
    <3>6. CASE ~Closed(s, B) /\ Cardinality(B) >= k
      <4>1. PICK x \in h[k] : x \notin B
        <5>1. Wider(s, B) # B
          BY <3>2, <3>6, WiderFacts
        <5>2. B \subseteq Wider(s, B)
          BY DEF Wider
        <5> QED
          BY <3>3, <5>1, <5>2
      <4>2. IsFiniteSet(B) /\ IsFiniteSet(h[k])
        BY <1>1, <3>2, FS_Subset
      <4>3. Cardinality(B \cup {x}) = Cardinality(B) + 1
        BY <4>1, <4>2, FS_AddElement
      <4>4. B \cup {x} \subseteq h[k]
        BY <3>3, <4>1 DEF Wider
      <4>5. Cardinality(B \cup {x}) <= Cardinality(h[k])
        BY <4>2, <4>4, FS_Subset
      <4>6. Cardinality(B) \in Nat /\ Cardinality(h[k]) \in Nat
        BY <4>2, FS_CardinalityType
      <4>7. Cardinality(h[k]) >= k + 1
        BY <3>1, <3>6, <4>3, <4>5, <4>6
      <4> QED
        BY <3>1, <4>7
    <3> QED
      BY <3>4, <3>5, <3>6
  <2>3. \A k \in 1 .. N : k - 1 \in E => k \in E
    BY <2>2
  <2> HIDE DEF E, N
  <2> QED
    BY <1>1, <2>1, <2>3, SetInduction
<1>11. N \in 0 .. N
  BY <1>1
<1>12. Closed(s, h[N])
  <2>1. h[N] \subseteq Node
    BY <1>9, <1>11
  <2>2. Cardinality(h[N]) <= N /\ Cardinality(h[N]) \in Nat
    BY <1>1, <2>1, FS_Subset, FS_CardinalityType
  <2> QED
    BY <1>1, <1>10, <1>11, <2>2
<1> QED
  BY <1>6, <1>9, <1>11, <1>12

(* A walk along parentNode from n visits at least a set with n in which     *)
(* every parent is again.                                                   *)
Upward(s, U) == \A m \in U : s.parent[m] # None => s.parent[m] \in U

LEMMA AncestorsFacts ==
  ASSUME NEW s, s.parent \in [Node -> Node \cup {None}], NEW n \in Node
  PROVE  \E A \in SUBSET Node :
           n \in A /\ Upward(s, A) /\ A \subseteq Ancestors(s, n)
<1> DEFINE G(g) == [m \in Node |-> IF s.parent[m] = None THEN {m} ELSE {m} \cup g[s.parent[m]]]
           All(m) == {U \in SUBSET Node : m \in U /\ Upward(s, U)}
           a == [m \in Node |-> {x \in Node : \A U \in All(m) : x \in U}]
<1>1. a = G(a)
  <2>1. ASSUME NEW m \in Node PROVE a[m] = G(a)[m]
    <3>1. CASE s.parent[m] = None
      <4>1. {m} \in All(m)
        BY <3>1 DEF Upward
      <4> QED
        BY <3>1, <4>1
    <3>2. CASE s.parent[m] # None
      <4> DEFINE p == s.parent[m]
      <4>1. p \in Node
        BY <3>2
      <4>2. \A U \in All(m) : U \in All(p)
        BY <3>2, <4>1 DEF Upward
      <4>3. \A U \in All(p) : U \cup {m} \in All(m)
        BY DEF Upward
      <4>4. a[m] = {m} \cup a[p]
        BY <4>1, <4>2, <4>3
      <4> QED
        BY <3>2, <4>4
    <3> QED
      BY <3>1, <3>2
  <2> QED
    BY <2>1
<1> DEFINE h == CHOOSE h : h = G(h)
<1>2. h = G(h)
  <2> HIDE DEF a
  <2> QED
    BY <1>1
<1>3. Ancestors(s, n) = h[n]
  BY DEF Ancestors
<1> HIDE DEF h
<1>4. \A m \in Node : m \in h[m] /\ (s.parent[m] # None => h[s.parent[m]] \subseteq h[m])
  BY <1>2
<1> DEFINE A == {m \in Node : h[m] \subseteq h[n]}
<1>5. n \in A /\ Upward(s, A) /\ A \subseteq h[n]
  BY <1>4 DEF Upward
<1> QED
  BY <1>3, <1>5

-----------------------------------------------------------------------------
(* What the calls work on. *)
States ==
  [born : SUBSET Node, turned : SUBSET Elements,
   parent : [Node -> Parents \cup {None}], kids : [Node -> Seq(Node)],
   owner : [Node -> Holder \cup {None}], owned : [Holder -> SUBSET Node],
   live : SUBSET Holder, taskOf : [Holder -> Task \cup {None}],
   primary : [Task -> Holder \cup {None}], intact : BOOLEAN, hung : BOOLEAN]

LEMMA KindFacts ==
  /\ None \notin Node /\ Parents \subseteq Node /\ Document \subseteq Parents
  /\ Elements \subseteq Parents /\ Fragment \subseteq Parents
  /\ Holder \subseteq Parents /\ Document \subseteq Holder /\ Elements \subseteq Holder
  /\ Document \cap (Elements \cup Text \cup Comment \cup Fragment) = {}
  /\ Fragment \cap (Elements \cup Text \cup Comment) = {}
  BY NodeAssumption DEF Node, Parents, Elements, Holder

(* What exists, and the documents, which may be asked for before they do. *)
InUse(s) == s.born \cup Document

LEMMA StateTyped ==
  ASSUME NEW s \in States
  PROVE  /\ s.born \subseteq Node /\ s.parent \in [Node -> Parents \cup {None}]
         /\ s.parent \in [Node -> Node \cup {None}]
         /\ s.kids \in [Node -> Seq(Node)] /\ s.owner \in [Node -> Holder \cup {None}]
         /\ s.owned \in [Holder -> SUBSET Node] /\ s.live \subseteq Holder
         /\ s.taskOf \in [Holder -> Task \cup {None}]
         /\ s.primary \in [Task -> Holder \cup {None}]
         /\ s.turned \subseteq Elements /\ s.intact \in BOOLEAN /\ s.hung \in BOOLEAN
         /\ InUse(s) \subseteq Node
  BY KindFacts DEF States, InUse

(* Parents and children agree, everywhere, and nothing is below itself.     *)
ParentsList(s) == \A n \in Node : s.parent[n] # None => n \in Kids(s, s.parent[n])
KidsNamed(s) == \A p \in Node : \A c \in Kids(s, p) : s.parent[c] = p
Once(s) == \A p \in Node : IsInjective(s.kids[p])
Grounded(s) == \A U \in SUBSET Node : (\A m \in U : s.parent[m] \in U) => U = {}
Rooted(s) ==
  /\ \A n \in Document \cup Fragment : s.parent[n] = None
  /\ \A d \in Document : s.owner[d] = None
Linked(s) == ParentsList(s) /\ KidsNamed(s) /\ Once(s) /\ Grounded(s) /\ Rooted(s)

(* A node that is not in use has nothing. *)
Unused(s) ==
  \A n \in Node \ InUse(s) : s.parent[n] = None /\ s.kids[n] = <<>> /\ s.owner[n] = None

(* Ownership: a child has the owner of its parent.  What has an owner and    *)
(* children, or a parent, is in the list of its owner; only what is          *)
(* registered has one, and only documents are registered.                   *)
OwnerOf(s, p) == IF p \in Document THEN p ELSE s.owner[p]
OwnedBy(s) == \A d \in Holder : \A n \in s.owned[d] : s.owner[n] = d
Inherits(s, p, c) ==
  /\ s.owner[c] = OwnerOf(s, p)
  /\ s.owner[c] # None => c \in s.owned[s.owner[c]]
KidsOwned(s) == \A p \in Node : \A c \in Kids(s, p) : Inherits(s, p, c)
ElementsOwned(s) == \A n \in Elements : s.owner[n] # None => n \in s.owned[s.owner[n]]
OnlyLive(s) == \A d \in Holder \ s.live : s.owned[d] = {}
Sound(s) ==
  /\ Linked(s) /\ Unused(s) /\ s.live \subseteq Document
  /\ OwnedBy(s) /\ KidsOwned(s) /\ ElementsOwned(s) /\ OnlyLive(s)

(* What is registered is of the current task, and so is its primary.        *)
Registered(s) ==
  /\ \A d \in s.live : s.taskOf[d] = currentTaskId
  /\ \A t \in Task : s.primary[t] # None =>
       s.primary[t] \in s.live /\ s.taskOf[s.primary[t]] = t

Good == {s \in States : Registered(s) /\ Grounded(s) /\ (s.intact => Sound(s))}

LEMMA LessGrounded ==
  ASSUME NEW s, NEW r, Grounded(s), \A n \in Node : r.parent[n] \in {None, s.parent[n]}
  PROVE  Grounded(r)
<1> SUFFICES ASSUME NEW U \in SUBSET Node, \A m \in U : r.parent[m] \in U PROVE U = {}
  BY DEF Grounded
<1>1. \A m \in U : s.parent[m] \in U
  BY KindFacts
<1> QED
  BY <1>1 DEF Grounded

-----------------------------------------------------------------------------
LEMMA RegisterFacts ==
  ASSUME currentTaskId \in Task, NEW s \in States, NEW d \in Holder
  PROVE  LET r == Register(s, d)
         IN  /\ r \in States /\ d \in r.live
             /\ r.born = s.born /\ r.kids = s.kids /\ r.turned = s.turned
             /\ \A n \in Node : r.parent[n] \in {None, s.parent[n]}
             /\ r.intact => s.intact
             /\ Registered(s) => Registered(r)
             /\ Sound(s) /\ r.intact =>
                  /\ d \in Document /\ r.parent = s.parent /\ r.owner = s.owner
                  /\ r.owned = s.owned /\ Sound(r)
<1> DEFINE r == Register(s, d)
<1>1. CASE d \in s.live
  <2>1. r = s
    BY <1>1 DEF Register
  <2>2. Sound(s) => d \in Document
    BY <1>1 DEF Sound
  <2> HIDE DEF r
  <2> QED
    BY <1>1, <2>1, <2>2 DEF r
<1>2. CASE d \notin s.live
  <2>1. r = [s EXCEPT !.live = @ \cup {d}, !.taskOf[d] = currentTaskId,
                      !.owned[d] = {}, !.parent[d] = None, !.owner[d] = None,
                      !.primary[currentTaskId] = d, !.intact = @ /\ d \in Document]
    BY <1>2 DEF Register
  <2>2. d \in Node
    BY KindFacts
  <2>3. /\ r.born = s.born /\ r.kids = s.kids /\ r.turned = s.turned /\ r.hung = s.hung
        /\ r.owner = [s.owner EXCEPT ![d] = None]
        /\ r.live = s.live \cup {d} /\ r.taskOf = [s.taskOf EXCEPT ![d] = currentTaskId]
        /\ r.owned = [s.owned EXCEPT ![d] = {}] /\ r.parent = [s.parent EXCEPT ![d] = None]
        /\ r.primary = [s.primary EXCEPT ![currentTaskId] = d]
        /\ r.intact = (s.intact /\ d \in Document)
    BY <2>1 DEF States
  <2>4. r \in States
    <3>1. /\ r.live \subseteq Holder /\ r.taskOf \in [Holder -> Task \cup {None}]
          /\ r.owned \in [Holder -> SUBSET Node]
      BY <2>3, StateTyped
    <3>2. /\ r.parent \in [Node -> Parents \cup {None}]
          /\ r.owner \in [Node -> Holder \cup {None}]
      BY <2>2, <2>3, StateTyped
    <3>3. r.primary \in [Task -> Holder \cup {None}] /\ r.intact \in BOOLEAN
      BY <2>3, StateTyped
    <3> QED
      BY <2>1, <2>3, <3>1, <3>2, <3>3 DEF States
  <2> HIDE DEF r
  <2>5. ASSUME Registered(s) PROVE Registered(r)
    <3>1. \A x \in r.live : r.taskOf[x] = currentTaskId
      BY <2>3, <2>5, StateTyped DEF Registered
    <3>2. ASSUME NEW t \in Task, r.primary[t] # None
          PROVE  r.primary[t] \in r.live /\ r.taskOf[r.primary[t]] = t
      <4>1. CASE t = currentTaskId
        BY <2>3, <4>1, StateTyped
      <4>2. CASE t # currentTaskId
        <5>1. r.primary[t] = s.primary[t] /\ s.primary[t] \in s.live
              /\ s.taskOf[s.primary[t]] = t
          BY <2>3, <2>5, <3>2, <4>2, StateTyped DEF Registered
        <5>2. s.primary[t] # d /\ s.primary[t] \in Holder
          BY <1>2, <5>1, StateTyped
        <5> QED
          BY <2>3, <5>1, <5>2, StateTyped
      <4> QED
        BY <4>1, <4>2
    <3> QED
      BY <3>1, <3>2 DEF Registered
  <2>6. ASSUME Sound(s), d \in Document
        PROVE  r.parent = s.parent /\ r.owner = s.owner /\ r.owned = s.owned /\ Sound(r)
    <3>1. s.parent[d] = None /\ s.owner[d] = None /\ s.owned[d] = {}
      BY <1>2, <2>6, KindFacts DEF Sound, Linked, Rooted, OnlyLive
    <3>2. r.parent = s.parent /\ r.owner = s.owner /\ r.owned = s.owned
      <4>1. /\ s.parent \in [Node -> Parents \cup {None}] /\ s.owned \in [Holder -> SUBSET Node]
            /\ s.owner \in [Node -> Holder \cup {None}]
        BY StateTyped
      <4>2. [s.parent EXCEPT ![d] = None] = s.parent
        BY <2>2, <3>1, <4>1
      <4>3. [s.owned EXCEPT ![d] = {}] = s.owned
        BY <3>1, <4>1
      <4>4. [s.owner EXCEPT ![d] = None] = s.owner
        BY <2>2, <3>1, <4>1
      <4> QED
        BY <2>3, <4>2, <4>3, <4>4
    <3>3. Linked(r)
      BY <2>3, <2>6, <3>2 DEF Sound, Linked, ParentsList, KidsNamed, Once, Grounded, Rooted, Kids
    <3>4. Unused(r) /\ OwnedBy(r) /\ ElementsOwned(r) /\ OnlyLive(r)
      BY <2>3, <2>6, <3>2 DEF Sound, Unused, InUse, OwnedBy, ElementsOwned, OnlyLive
    <3>5. KidsOwned(r)
      BY <2>3, <2>6, <3>2 DEF Sound, KidsOwned, Inherits, OwnerOf, Kids
    <3>6. r.live \subseteq Document
      BY <2>3, <2>6 DEF Sound
    <3> QED
      BY <3>2, <3>3, <3>4, <3>5, <3>6 DEF Sound
  <2>7. \A n \in Node : r.parent[n] \in {None, s.parent[n]}
    BY <2>3, StateTyped
  <2>8. r.intact => s.intact /\ d \in Document
    BY <2>3
  <2>9. d \in r.live
    BY <2>3
  <2> QED
    BY <2>3, <2>4, <2>5, <2>6, <2>7, <2>8, <2>9 DEF r
<1> QED
  BY <1>1, <1>2

LEMMA RegisterOwnerFacts ==
  ASSUME currentTaskId \in Task, NEW s \in States, NEW d \in Holder \cup {None}
  PROVE  LET r == RegisterOwner(s, d)
         IN  /\ r \in States /\ (d # None => d \in r.live)
             /\ r.born = s.born /\ r.kids = s.kids /\ r.turned = s.turned
             /\ \A n \in Node : r.parent[n] \in {None, s.parent[n]}
             /\ r.intact => s.intact
             /\ Registered(s) => Registered(r)
             /\ Sound(s) /\ r.intact =>
                  /\ d \in Document \cup {None} /\ r.parent = s.parent /\ r.owner = s.owner
                  /\ r.owned = s.owned /\ Sound(r)
<1>1. CASE d = None
  <2>1. RegisterOwner(s, d) = s
    BY <1>1 DEF RegisterOwner
  <2> QED
    BY <1>1, <2>1
<1>2. CASE d # None
  <2>1. RegisterOwner(s, d) = Register(s, d) /\ d \in Holder
    BY <1>2 DEF RegisterOwner
  <2> QED
    BY <1>2, <2>1, RegisterFacts
<1> QED
  BY <1>1, <1>2

-----------------------------------------------------------------------------
(* Only the links differ. *)
SameOwners(s, r) ==
  /\ r.born = s.born /\ r.owner = s.owner /\ r.owned = s.owned
  /\ r.live = s.live /\ r.taskOf = s.taskOf /\ r.primary = s.primary
  /\ r.turned = s.turned /\ r.intact = s.intact
NowAlone(s, r, c) == r.parent = [s.parent EXCEPT ![c] = None]

(* A child leaves its parent. *)
Cut(s, p, c) == [s EXCEPT !.kids[p] = RemoveFirst(@, c), !.parent[c] = None]

LEMMA CutTyped ==
  ASSUME NEW s \in States, NEW p \in Node, NEW c \in Node
  PROVE  LET r == Cut(s, p, c)
         IN  /\ r \in States /\ SameOwners(s, r) /\ NowAlone(s, r, c)
             /\ r.kids = [s.kids EXCEPT ![p] = RemoveFirst(s.kids[p], c)]
<1>1. RemoveFirst(s.kids[p], c) \in Seq(Node)
  BY StateTyped, RemoveFirstFacts
<1> QED
  BY <1>1 DEF Cut, States, SameOwners, NowAlone

LEMMA CutSound ==
  ASSUME NEW s \in States, Sound(s), NEW p \in Node, NEW c \in Kids(s, p)
  PROVE  LET r == Cut(s, p, c)
         IN  Sound(r) /\ \A q \in Node : Kids(r, q) = Kids(s, q) \ {c}
<1> DEFINE r == Cut(s, p, c)
           k == RemoveFirst(s.kids[p], c)
<1>1. c \in Node /\ s.parent[c] = p
  BY KidsTyped, StateTyped DEF Sound, Linked, KidsNamed
<1>2. /\ r.born = s.born /\ r.owner = s.owner /\ r.owned = s.owned /\ r.live = s.live
      /\ r.parent = [s.parent EXCEPT ![c] = None]
      /\ r.kids = [s.kids EXCEPT ![p] = k]
  BY <1>1, CutTyped DEF SameOwners, NowAlone
<1>3. s.kids[p] \in Seq(Node) /\ IsInjective(s.kids[p])
  BY StateTyped DEF Sound, Linked, Once
<1>4. IsInjective(k) /\ ToSet(k) = ToSet(s.kids[p]) \ {c}
  BY <1>3, RemoveFirstFacts
<1> HIDE DEF r, k
<1>5. ASSUME NEW q \in Node PROVE Kids(r, q) = Kids(s, q) \ {c}
  <2>1. CASE q = p
    BY <1>2, <1>4, <2>1, StateTyped DEF Kids
  <2>2. CASE q # p
    <3>1. Kids(r, q) = Kids(s, q)
      BY <1>2, <2>2, StateTyped DEF Kids
    <3>2. c \notin Kids(s, q)
      BY <1>1, <2>2 DEF Sound, Linked, KidsNamed
    <3> QED
      BY <3>1, <3>2
  <2> QED
    BY <2>1, <2>2
<1>6. \A n \in Node : r.parent[n] = IF n = c THEN None ELSE s.parent[n]
  BY <1>2, StateTyped
<1>7. \A n \in Node : s.parent[n] # None => s.parent[n] \in Node
  BY StateTyped
<1>8. ParentsList(r)
  BY <1>5, <1>6, <1>7 DEF Sound, Linked, ParentsList
<1>9. KidsNamed(r)
  <2>1. \A q \in Node : Kids(s, q) \subseteq Node
    BY KidsTyped, StateTyped
  <2> QED
    BY <1>5, <1>6, <2>1 DEF Sound, Linked, KidsNamed
<1>10. Once(r)
  BY <1>2, <1>4, StateTyped DEF Sound, Linked, Once
<1>11. Grounded(r)
  BY <1>6, KindFacts DEF Sound, Linked, Grounded
<1>12. Rooted(r)
  BY <1>2, <1>6, KindFacts DEF Sound, Linked, Rooted
<1>13. Unused(r)
  <2>1. ASSUME NEW n \in Node \ InUse(s) PROVE r.kids[n] = <<>>
    <3>1. s.kids[n] = <<>>
      BY <2>1 DEF Sound, Unused, InUse
    <3>2. n # p
      BY <3>1 DEF Kids, ToSet
    <3> QED
      BY <1>2, <3>1, <3>2, StateTyped
  <2> QED
    BY <1>2, <1>6, <2>1 DEF Sound, Unused, InUse
<1>14. OwnedBy(r) /\ ElementsOwned(r) /\ OnlyLive(r)
  BY <1>2 DEF Sound, OwnedBy, ElementsOwned, OnlyLive
<1>15. KidsOwned(r) /\ r.live \subseteq Document
  BY <1>2, <1>5 DEF Sound, KidsOwned, Inherits, OwnerOf
<1>16. Sound(r)
  BY <1>8, <1>9, <1>10, <1>11, <1>12, <1>13, <1>14, <1>15 DEF Sound, Linked
<1> QED
  BY <1>5, <1>16 DEF r

(* The child without a parent, as detachFromParent leaves it. *)
LEMMA DetachFacts ==
  ASSUME NEW s \in States, NEW c \in Node
  PROVE  LET r == DetachFromParent(s, c)
         IN  /\ r \in States /\ SameOwners(s, r) /\ NowAlone(s, r, c)
             /\ Sound(s) => Sound(r) /\ \A q \in Node : c \notin Kids(r, q)
<1> DEFINE r == DetachFromParent(s, c)
           p == s.parent[c]
<1>1. CASE p = None
  <2>1. r = s
    BY <1>1 DEF DetachFromParent
  <2>2. s.parent = [s.parent EXCEPT ![c] = None]
    BY <1>1, StateTyped
  <2>3. ASSUME Sound(s), NEW q \in Node, c \in Kids(s, q) PROVE FALSE
    BY <1>1, <2>3, KindFacts DEF Sound, Linked, KidsNamed
  <2> HIDE DEF r
  <2> QED
    BY <2>1, <2>2, <2>3 DEF r, SameOwners, NowAlone
<1>2. ASSUME NEW x \in Node, x = p
      PROVE  /\ r \in States /\ SameOwners(s, r) /\ NowAlone(s, r, c)
             /\ Sound(s) => Sound(r) /\ \A q \in Node : c \notin Kids(r, q)
  <2>1. r = Cut(s, x, c)
    BY <1>2, KindFacts DEF DetachFromParent, Cut
  <2>2. Sound(s) => c \in Kids(s, x)
    BY <1>2, KindFacts DEF Sound, Linked, ParentsList
  <2> HIDE DEF r, p
  <2>3. r \in States /\ SameOwners(s, r) /\ NowAlone(s, r, c)
    BY <2>1, CutTyped
  <2>4. ASSUME Sound(s) PROVE Sound(r) /\ \A q \in Node : Kids(r, q) = Kids(s, q) \ {c}
    BY <2>1, <2>2, <2>4, CutSound
  <2> QED
    BY <2>3, <2>4
<1>3. p = None \/ p \in Node
  BY StateTyped
<1> QED
  BY <1>1, <1>2, <1>3

-----------------------------------------------------------------------------
(* A node without a parent gets one. *)
Put(s, p, c, at) == [s EXCEPT !.kids[p] = InsertAt(@, at, c), !.parent[c] = p]
Linking(s, r, p, c, at) ==
  /\ r.kids = [s.kids EXCEPT ![p] = InsertAt(s.kids[p], at, c)]
  /\ r.parent = [s.parent EXCEPT ![c] = p]

LEMMA PutTyped ==
  ASSUME NEW s \in States, NEW p \in Parents, NEW c \in Node, NEW at \in 1 .. Len(s.kids[p]) + 1
  PROVE  LET r == Put(s, p, c, at)
         IN  r \in States /\ SameOwners(s, r) /\ Linking(s, r, p, c, at)
<1>1. p \in Node
  BY KindFacts
<1>2. InsertAt(s.kids[p], at, c) \in Seq(Node)
  <2>1. s.kids[p] \in Seq(Node)
    BY <1>1, StateTyped
  <2> QED
    BY <2>1, InsertAtFacts
<1> QED
  BY <1>1, <1>2 DEF Put, States, SameOwners, Linking

LEMMA PutLinked ==
  ASSUME NEW s \in States, Linked(s), Unused(s), NEW p \in Parents \cap InUse(s),
         NEW c \in s.born \ (Document \cup Fragment), NEW at \in 1 .. Len(s.kids[p]) + 1,
         \A q \in Node : c \notin Kids(s, q),
         NEW A \in SUBSET Node, p \in A, c \notin A, Upward(s, A)
  PROVE  LET r == Put(s, p, c, at)
         IN  /\ Linked(r) /\ Unused(r)
             /\ \A q \in Node : Kids(r, q) = IF q = p THEN Kids(s, p) \cup {c} ELSE Kids(s, q)
<1> DEFINE r == Put(s, p, c, at)
           k == InsertAt(s.kids[p], at, c)
<1>1. p \in Node /\ c \in Node /\ c # p /\ None \notin Node
  BY KindFacts, StateTyped
<1>2. /\ r.born = s.born /\ r.owner = s.owner
      /\ r.parent = [s.parent EXCEPT ![c] = p] /\ r.kids = [s.kids EXCEPT ![p] = k]
  BY <1>1, PutTyped DEF SameOwners, Linking
<1>3. s.kids[p] \in Seq(Node) /\ IsInjective(s.kids[p]) /\ c \notin ToSet(s.kids[p])
  BY <1>1, StateTyped DEF Linked, Once, Kids
<1>4. IsInjective(k) /\ ToSet(k) = ToSet(s.kids[p]) \cup {c}
  BY <1>1, <1>3, InsertAtFacts
<1> HIDE DEF r, k
<1>5. \A q \in Node : Kids(r, q) = IF q = p THEN Kids(s, p) \cup {c} ELSE Kids(s, q)
  BY <1>1, <1>2, <1>4, StateTyped DEF Kids
<1>6. \A n \in Node : r.parent[n] = IF n = c THEN p ELSE s.parent[n]
  BY <1>2, StateTyped
<1>7. \A n \in Node : s.parent[n] # None => s.parent[n] \in Node
  BY StateTyped
<1>8. ParentsList(r)
  BY <1>1, <1>5, <1>6, <1>7 DEF Linked, ParentsList
<1>9. KidsNamed(r)
  <2>1. \A q \in Node : Kids(s, q) \subseteq Node
    BY KidsTyped, StateTyped
  <2> QED
    BY <1>1, <1>5, <1>6, <2>1 DEF Linked, KidsNamed
<1>10. Once(r)
  BY <1>2, <1>4, StateTyped DEF Linked, Once
<1>11. Grounded(r)
  <2> SUFFICES ASSUME NEW U \in SUBSET Node, \A m \in U : r.parent[m] \in U
               PROVE  U = {}
    BY DEF Grounded
  <2>1. \A V \in SUBSET Node : (\A m \in V : s.parent[m] \in V) => V = {}
    BY DEF Linked, Grounded
  <2>2. CASE c \notin U
    BY <1>6, <2>1, <2>2
  <2>3. CASE c \in U
    <3>1. p \in U \cap A
      BY <1>6, <2>3
    <3>2. \A m \in U \cap A : s.parent[m] \in U \cap A
      BY <1>1, <1>6 DEF Upward
    <3> QED
      BY <2>1, <3>1, <3>2
  <2> QED
    BY <2>2, <2>3
<1>12. Rooted(r)
  BY <1>2, <1>6, KindFacts DEF Linked, Rooted
<1>13. Unused(r)
  BY <1>2, <1>6, StateTyped DEF Unused, InUse
<1> QED
  BY <1>5, <1>8, <1>9, <1>10, <1>11, <1>12, <1>13 DEF Linked, r

-----------------------------------------------------------------------------
(* adoptOwnerDocument *)
Adopting(s, r, B, d) ==
  /\ r.born = s.born /\ r.parent = s.parent /\ r.kids = s.kids
  /\ r.live = s.live /\ r.taskOf = s.taskOf /\ r.primary = s.primary
  /\ r.intact = s.intact
  /\ \A m \in Node : r.owner[m] = IF m \in B THEN d ELSE s.owner[m]
  /\ \A x \in Holder :
       r.owned[x] = (s.owned[x] \ {m \in B : s.owner[m] = x /\ x # d})
                    \cup (IF x = d THEN B ELSE {})

LEMMA AdoptTyped ==
  ASSUME NEW s \in States, NEW c \in Node, NEW d \in Holder \cup {None}
  PROVE  LET r == AdoptOwnerDocument(s, c, d)
         IN  r \in States /\ Adopting(s, r, Subtree(s, c), d)
<1> DEFINE B == Subtree(s, c)
           left(x) == {m \in B : s.owner[m] = x /\ x # d}
           r == AdoptOwnerDocument(s, c, d)
<1>1. B \subseteq Node
  BY StateTyped, SubtreeFacts
<1> DEFINE w == [m \in Node |-> IF m \in B THEN d ELSE s.owner[m]]
           o == [x \in Holder |->
                   (s.owned[x] \ left(x)) \cup (IF x = d THEN B ELSE {})]
           u == s.turned \cup {x \in Elements : left(x) # {}}
           h == s.hung \/ Circles(s, B)
<1>2. r = [s EXCEPT !.owner = w, !.owned = o, !.turned = u, !.hung = h]
  BY DEF AdoptOwnerDocument
<1> HIDE DEF B
<1>3. w \in [Node -> Holder \cup {None}] /\ o \in [Holder -> SUBSET Node]
  BY <1>1, StateTyped
<1>4. /\ \A m \in Node : w[m] = IF m \in B THEN d ELSE s.owner[m]
      /\ \A x \in Holder : o[x] = (s.owned[x] \ left(x)) \cup (IF x = d THEN B ELSE {})
  OBVIOUS
<1>5. u \subseteq Elements /\ h \in BOOLEAN
  BY StateTyped DEF Circles
<1> HIDE DEF w, o, u, h, r
<1>6. /\ r.born = s.born /\ r.parent = s.parent /\ r.kids = s.kids
      /\ r.live = s.live /\ r.taskOf = s.taskOf /\ r.primary = s.primary
      /\ r.owner = w /\ r.owned = o /\ r.intact = s.intact
  BY <1>2 DEF States
<1>7. r \in States
  BY <1>2, <1>3, <1>5 DEF States
<1>8. Adopting(s, r, B, d)
  BY <1>4, <1>6 DEF Adopting
<1> QED
  BY <1>7, <1>8 DEF r, B

LEMMA AdoptSound ==
  ASSUME NEW s \in States, Linked(s), Unused(s), OwnedBy(s), ElementsOwned(s), OnlyLive(s),
         s.live \subseteq Document,
         NEW p \in Node, NEW c \in Kids(s, p), c \in s.born,
         \A q \in Node : \A x \in Kids(s, q) \ {c} : Inherits(s, q, x),
         NEW d \in Document \cup {None}, d = OwnerOf(s, p), d # None => d \in s.live
  PROVE  Sound(AdoptOwnerDocument(s, c, d))
<1> DEFINE B == Subtree(s, c)
           r == AdoptOwnerDocument(s, c, d)
<1>0. c \in Node /\ s.parent[c] = p
  BY KidsTyped, StateTyped DEF Linked, KidsNamed
<1>1. /\ B \subseteq Node /\ c \in B /\ Closed(s, B)
      /\ \A m \in B \ {c} : \E q \in B : m \in Kids(s, q)
  BY <1>0, StateTyped, SubtreeFacts
<1>2. d \in Holder \cup {None}
  BY KindFacts
<1>3. r \in States /\ Adopting(s, r, B, d)
  BY <1>0, <1>2, AdoptTyped
<1> HIDE DEF B, r
<1>4. \A m \in B \ {c} : s.parent[m] \in B
  BY <1>1 DEF Linked, KidsNamed
<1>5. p \notin B
  <2>1. ASSUME p \in B PROVE FALSE
    <3>1. \A m \in B : s.parent[m] \in B
      BY <1>0, <1>4, <2>1
    <3> QED
      BY <1>1, <3>1 DEF Linked, Grounded
  <2> QED
    BY <2>1
<1>6. \A m \in B : m \notin Document
  <2>1. \A m \in B : s.parent[m] # None
    BY <1>0, <1>1, <1>4, KindFacts
  <2> QED
    BY <2>1 DEF Linked, Rooted
<1>7. \A q \in Node : Kids(r, q) = Kids(s, q)
  BY <1>3 DEF Adopting, Kids
<1>8. Linked(r)
  <2>1. Rooted(r)
    BY <1>3, <1>6, KindFacts DEF Adopting, Linked, Rooted
  <2>2. ParentsList(r) /\ KidsNamed(r) /\ Once(r) /\ Grounded(r)
    BY <1>3 DEF Adopting, Linked, ParentsList, KidsNamed, Once, Grounded, Kids
  <2> QED
    BY <2>1, <2>2 DEF Linked
<1>9. Unused(r)
  <2>1. \A m \in B : m \in s.born
    <3>1. \A m \in B \ {c} : s.parent[m] # None
      BY <1>1, <1>4, KindFacts
    <3> QED
      BY <1>1, <1>6, <3>1 DEF Unused, InUse
  <2> QED
    BY <1>3, <2>1 DEF Adopting, Unused, InUse
<1>10. OwnedBy(r)
  <2>1. ASSUME NEW x \in Holder, NEW n \in r.owned[x] PROVE r.owner[n] = x
    <3>1. n \in Node
      BY <1>3, StateTyped
    <3>2. n \in s.owned[x] => s.owner[n] = x
      BY DEF OwnedBy
    <3> QED
      BY <1>3, <2>1, <3>1, <3>2 DEF Adopting
  <2> QED
    BY <2>1 DEF OwnedBy
<1>11. ASSUME NEW n \in Node, s.owner[n] # None => n \in s.owned[s.owner[n]], r.owner[n] # None
       PROVE  n \in r.owned[r.owner[n]]
  <2>1. CASE n \in B
    BY <1>2, <1>3, <1>11, <2>1 DEF Adopting
  <2>2. CASE n \notin B
    <3>1. r.owner[n] = s.owner[n] /\ s.owner[n] \in Holder
      BY <1>3, <1>11, <2>2, StateTyped DEF Adopting
    <3> QED
      BY <1>3, <1>11, <2>2, <3>1 DEF Adopting
  <2> QED
    BY <2>1, <2>2
<1>12. ElementsOwned(r)
  BY <1>11, KindFacts DEF ElementsOwned
<1>13. OnlyLive(r)
  <2>1. ASSUME NEW x \in Holder \ s.live PROVE r.owned[x] = {}
    <3>1. s.owned[x] = {} /\ x # d
      BY KindFacts DEF OnlyLive
    <3> QED
      BY <1>3, <3>1 DEF Adopting
  <2> QED
    BY <1>3, <2>1 DEF Adopting, OnlyLive
<1>14. KidsOwned(r)
  <2> SUFFICES ASSUME NEW q \in Node, NEW x \in Kids(s, q) PROVE Inherits(r, q, x)
    BY <1>7 DEF KidsOwned
  <2>0. x \in Node /\ s.parent[x] = q
    BY KidsTyped, StateTyped DEF Linked, KidsNamed
  <2>1. CASE x \in B
    <3>1. r.owner[x] = d /\ (d # None => x \in r.owned[d])
      BY <1>2, <1>3, <2>0, <2>1 DEF Adopting
    <3>2. OwnerOf(r, q) = d
      <4>1. CASE x = c
        <5>1. q = p /\ q \notin B
          BY <1>0, <1>5, <2>0, <4>1
        <5>2. r.owner[q] = s.owner[q]
          BY <1>3, <5>1 DEF Adopting
        <5> QED
          BY <5>1, <5>2 DEF OwnerOf
      <4>2. CASE x # c
        <5>1. q \in B /\ q \notin Document
          BY <1>4, <1>6, <2>0, <2>1, <4>2
        <5>2. r.owner[q] = d
          BY <1>3, <5>1 DEF Adopting
        <5> QED
          BY <5>1, <5>2 DEF OwnerOf
      <4> QED
        BY <4>1, <4>2
    <3> QED
      BY <3>1, <3>2 DEF Inherits
  <2>2. CASE x \notin B
    <3>1. q \notin B
      BY <1>1, <2>2 DEF Closed
    <3>2. x # c
      BY <1>1, <2>2
    <3>3. Inherits(s, q, x)
      BY <3>2
    <3>4. r.owner[x] = s.owner[x] /\ r.owner[q] = s.owner[q]
      BY <1>3, <2>0, <2>2, <3>1 DEF Adopting
    <3>5. r.owner[x] = OwnerOf(r, q)
      BY <3>3, <3>4 DEF Inherits, OwnerOf
    <3>6. r.owner[x] # None => x \in r.owned[r.owner[x]]
      BY <1>11, <2>0, <3>3 DEF Inherits
    <3> QED
      BY <3>5, <3>6 DEF Inherits
  <2> QED
    BY <2>1, <2>2
<1>15. r.live \subseteq Document
  BY <1>3 DEF Adopting
<1> QED
  BY <1>8, <1>9, <1>10, <1>12, <1>13, <1>14, <1>15 DEF Sound, r

-----------------------------------------------------------------------------
LEMMA SameRegistered ==
  ASSUME NEW s, NEW r, r.live = s.live, r.taskOf = s.taskOf, r.primary = s.primary,
         Registered(s)
  PROVE  Registered(r)
  BY DEF Registered

LEMMA OwnerTyped ==
  ASSUME NEW s \in States, NEW p \in Node
  PROVE  OwnerFor(s, p) \in Holder \cup {None}
  BY StateTyped, KindFacts DEF OwnerFor, IsDoc

(* The steps of insertNodeAt: register, detach, link, adopt. *)
Registers(s, p) == RegisterOwner(s, OwnerFor(s, p))
Detaches(s, p, c) == DetachFromParent(Registers(s, p), c)
At(s, p, c, i) ==
  IF i > Len(Detaches(s, p, c).kids[p]) THEN Len(Detaches(s, p, c).kids[p]) + 1 ELSE i
Links(s, p, c, i) == Put(Detaches(s, p, c), p, c, At(s, p, c, i))

LEMMA PlaceIs ==
  ASSUME NEW s, NEW p, NEW c, NEW i
  PROVE  Place(s, p, c, i) = AdoptOwnerDocument(Links(s, p, c, i), c, OwnerFor(Links(s, p, c, i), p))
  BY DEF Place, Links, At, Detaches, Registers, Put

LEMMA LinksFacts ==
  ASSUME currentTaskId \in Task, NEW s \in States, NEW p \in Parents, NEW c \in Node,
         NEW i \in Nat \ {0}
  PROVE  LET s0 == Registers(s, p)
             s1 == Detaches(s, p, c)
             at == At(s, p, c, i)
         IN  /\ s0 \in States /\ s1 \in States /\ at \in 1 .. Len(s1.kids[p]) + 1
             /\ s0.born = s.born /\ s0.turned = s.turned
             /\ \A n \in Node : s0.parent[n] \in {None, s.parent[n]}
             /\ OwnerFor(s, p) # None => OwnerFor(s, p) \in s0.live
             /\ s0.intact => s.intact
             /\ Registered(s) => Registered(s0)
             /\ Sound(s) /\ s0.intact =>
                  /\ OwnerFor(s, p) \in Document \cup {None} /\ s0.owner = s.owner
                  /\ s0.parent = s.parent /\ Sound(s0)
             /\ SameOwners(s0, s1) /\ NowAlone(s0, s1, c)
             /\ Sound(s0) => Sound(s1) /\ \A q \in Node : c \notin Kids(s1, q)
             /\ Links(s, p, c, i) \in States
             /\ SameOwners(s1, Links(s, p, c, i)) /\ Linking(s1, Links(s, p, c, i), p, c, at)
<1> DEFINE s0 == Registers(s, p)
           s1 == Detaches(s, p, c)
           at == At(s, p, c, i)
           r == Links(s, p, c, i)
<1>1. p \in Node
  BY KindFacts
<1>2. /\ s0 \in States /\ s0.born = s.born /\ s0.turned = s.turned
      /\ \A n \in Node : s0.parent[n] \in {None, s.parent[n]}
      /\ OwnerFor(s, p) # None => OwnerFor(s, p) \in s0.live
      /\ s0.intact => s.intact
      /\ Registered(s) => Registered(s0)
      /\ Sound(s) /\ s0.intact =>
           /\ OwnerFor(s, p) \in Document \cup {None} /\ s0.owner = s.owner
           /\ s0.parent = s.parent /\ Sound(s0)
  BY <1>1, OwnerTyped, RegisterOwnerFacts DEF Registers
<1>3. /\ s1 \in States /\ SameOwners(s0, s1) /\ NowAlone(s0, s1, c)
      /\ Sound(s0) => Sound(s1) /\ \A q \in Node : c \notin Kids(s1, q)
  <2>1. s1 = DetachFromParent(s0, c)
    BY DEF Detaches
  <2> HIDE DEF s0, s1
  <2> QED
    BY <1>2, <2>1, DetachFacts
<1>4. at \in 1 .. Len(s1.kids[p]) + 1
  <2>1. Len(s1.kids[p]) \in Nat
    BY <1>1, <1>3, StateTyped, LenProperties
  <2> HIDE DEF s1
  <2>2. at = IF i > Len(s1.kids[p]) THEN Len(s1.kids[p]) + 1 ELSE i
    BY DEF At, s1
  <2> HIDE DEF at
  <2> QED
    BY <2>1, <2>2
<1>5. r \in States /\ SameOwners(s1, r) /\ Linking(s1, r, p, c, at)
  <2>1. r = Put(s1, p, c, at)
    BY DEF Links
  <2> HIDE DEF s1, at, r
  <2> QED
    BY <1>3, <1>4, <2>1, PutTyped
<1> HIDE DEF s0, s1, at, r
<1> QED
  BY <1>2, <1>3, <1>4, <1>5 DEF s0, s1, at, r

LEMMA PlaceTyped ==
  ASSUME currentTaskId \in Task, NEW s \in States, NEW p \in Parents, NEW c \in Node,
         NEW i \in Nat \ {0}
  PROVE  LET r == Place(s, p, c, i)
         IN  /\ r \in States /\ r.born = s.born /\ (r.intact => s.intact)
             /\ Registered(s) => Registered(r)
<1> DEFINE s0 == Registers(s, p)
           s1 == Detaches(s, p, c)
           s2 == Links(s, p, c, i)
           r == Place(s, p, c, i)
<1>1. /\ s0.born = s.born /\ (Registered(s) => Registered(s0)) /\ (s0.intact => s.intact)
      /\ SameOwners(s0, s1) /\ SameOwners(s1, s2) /\ s2 \in States
  BY LinksFacts
<1>2. r = AdoptOwnerDocument(s2, c, OwnerFor(s2, p))
  BY PlaceIs
<1> HIDE DEF s0, s1, s2, r
<1>3. OwnerFor(s2, p) \in Holder \cup {None}
  BY <1>1, KindFacts, OwnerTyped
<1>4. r \in States /\ Adopting(s2, r, Subtree(s2, c), OwnerFor(s2, p))
  BY <1>1, <1>2, <1>3, AdoptTyped
<1>5. /\ r.born = s.born /\ r.live = s0.live /\ r.intact = s0.intact
      /\ r.taskOf = s0.taskOf /\ r.primary = s0.primary
  BY <1>1, <1>4 DEF Adopting, SameOwners
<1>6. Registered(s) => Registered(r)
  BY <1>1, <1>5, SameRegistered
<1> QED
  BY <1>1, <1>4, <1>5, <1>6 DEF r

(* No node gets below itself, in a damaged tree neither.                    *)
LEMMA PlaceGrounded ==
  ASSUME currentTaskId \in Task, NEW s \in States, Grounded(s), NEW p \in Parents,
         NEW c \in Node, NEW i \in Nat \ {0}, ~IsAncestor(s, c, p)
  PROVE  Grounded(Place(s, p, c, i))
<1> DEFINE s0 == Registers(s, p)
           s1 == Detaches(s, p, c)
           at == At(s, p, c, i)
           s2 == Links(s, p, c, i)
           r == Place(s, p, c, i)
<1>0. p \in Node /\ None \notin Node
  BY KindFacts
<1>1. /\ s0 \in States /\ s1 \in States /\ s2 \in States
      /\ \A n \in Node : s0.parent[n] \in {None, s.parent[n]}
      /\ NowAlone(s0, s1, c) /\ Linking(s1, s2, p, c, at)
  BY LinksFacts
<1>2. r = AdoptOwnerDocument(s2, c, OwnerFor(s2, p))
  BY PlaceIs
<1>3. PICK A \in SUBSET Node : p \in A /\ Upward(s, A) /\ A \subseteq Ancestors(s, p)
  BY <1>0, StateTyped, AncestorsFacts
<1>4. c \notin A
  BY <1>3 DEF IsAncestor
<1> HIDE DEF s0, s1, at, s2, r
<1>5. OwnerFor(s2, p) \in Holder \cup {None}
  BY <1>0, <1>1, OwnerTyped
<1>6. r.parent = s2.parent
  BY <1>1, <1>2, <1>5, AdoptTyped DEF Adopting
<1>7. /\ r.parent[c] = p
      /\ \A n \in Node \ {c} : r.parent[n] \in {None, s.parent[n]}
  BY <1>1, <1>6, StateTyped DEF NowAlone, Linking
<1>8. \A V \in SUBSET Node : (\A m \in V : s.parent[m] \in V) => V = {}
  BY DEF Grounded
<1>9. ASSUME NEW U \in SUBSET Node, \A m \in U : r.parent[m] \in U PROVE U = {}
  <2>1. \A m \in U \ {c} : s.parent[m] \in U
    BY <1>0, <1>7, <1>9
  <2>2. CASE c \notin U
    BY <1>8, <2>1, <2>2
  <2>3. CASE c \in U
    <3>1. p \in U \cap A
      BY <1>3, <1>7, <1>9, <2>3
    <3>2. \A m \in U \cap A : s.parent[m] \in U \cap A
      BY <1>0, <1>3, <1>4, <2>1 DEF Upward
    <3> QED
      BY <1>8, <3>1, <3>2
  <2> QED
    BY <2>2, <2>3
<1> QED
  BY <1>9 DEF Grounded, r

LEMMA PlaceSound ==
  ASSUME currentTaskId \in Task, NEW s \in States, Sound(s), NEW p \in Parents \cap InUse(s),
         NEW c \in s.born \ (Document \cup Fragment), NEW i \in Nat \ {0}, ~IsAncestor(s, c, p),
         Place(s, p, c, i).intact
  PROVE  Sound(Place(s, p, c, i))
<1> DEFINE s0 == Registers(s, p)
           s1 == Detaches(s, p, c)
           at == At(s, p, c, i)
           s2 == Links(s, p, c, i)
           d == OwnerFor(s2, p)
           r == Place(s, p, c, i)
<1>0. p \in Node /\ c \in Node
  BY KindFacts, StateTyped
<1>1. /\ s1 \in States /\ s0 \in States /\ s2 \in States
      /\ at \in 1 .. Len(s1.kids[p]) + 1
      /\ s0.born = s.born /\ s0.turned = s.turned
      /\ OwnerFor(s, p) # None => OwnerFor(s, p) \in s0.live
      /\ NowAlone(s0, s1, c)
      /\ SameOwners(s0, s1) /\ SameOwners(s1, s2) /\ Linking(s1, s2, p, c, at)
  BY <1>0, LinksFacts
<1>2. r = AdoptOwnerDocument(s2, c, d)
  BY PlaceIs
<1>3. s0.intact
  <2> HIDE DEF s0, s1, s2, at, d, r
  <2>1. d \in Holder \cup {None}
    BY <1>0, <1>1, OwnerTyped DEF d
  <2>2. r.intact = s2.intact
    BY <1>0, <1>1, <1>2, <2>1, AdoptTyped DEF Adopting
  <2> QED
    BY <1>1, <2>2 DEF SameOwners, r
\* Nothing was damaged, so p is not an element that became a document.
<1>4. /\ OwnerFor(s, p) \in Document \cup {None}
      /\ s0.owner = s.owner /\ s0.parent = s.parent /\ Sound(s0)
  BY <1>0, <1>3, LinksFacts
<1>5. Sound(s1) /\ \A q \in Node : c \notin Kids(s1, q)
  BY <1>0, <1>4, LinksFacts
<1>6. s2 = Put(s1, p, c, at)
  BY DEF Links
<1> HIDE DEF s0, s1, at, s2, d, r
<1>7. d = OwnerFor(s, p) /\ d = OwnerOf(s2, p)
  <2>1. s2.owner = s.owner /\ s2.turned = s.turned
    BY <1>1, <1>4 DEF SameOwners
  <2>2. d = OwnerFor(s, p)
    BY <2>1 DEF OwnerFor, IsDoc, d
  <2>3. p \notin Document => p \notin s.turned
    BY <1>0, <1>4, KindFacts DEF OwnerFor, IsDoc
  <2> QED
    BY <2>1, <2>2, <2>3 DEF OwnerFor, IsDoc, OwnerOf
<1>8. PICK A \in SUBSET Node : p \in A /\ Upward(s, A) /\ A \subseteq Ancestors(s, p)
  BY <1>0, StateTyped, AncestorsFacts
<1>9. c \notin A
  BY <1>8 DEF IsAncestor
<1>10. Upward(s1, A)
  <2>1. \A m \in Node : s1.parent[m] = IF m = c THEN None ELSE s.parent[m]
    BY <1>1, <1>4, StateTyped DEF NowAlone
  <2> QED
    BY <1>8, <1>9, <2>1 DEF Upward
<1>11. /\ Linked(s2) /\ Unused(s2)
       /\ \A q \in Node : Kids(s2, q) = IF q = p THEN Kids(s1, p) \cup {c} ELSE Kids(s1, q)
  <2>1. p \in Parents \cap InUse(s1) /\ c \in s1.born \ (Document \cup Fragment)
    BY <1>1 DEF SameOwners, InUse
  <2>2. Linked(s1) /\ Unused(s1)
    BY <1>5 DEF Sound
  <2> QED
    BY <1>1, <1>5, <1>6, <1>8, <1>9, <1>10, <2>1, <2>2, PutLinked
<1>12. OwnedBy(s2) /\ ElementsOwned(s2) /\ OnlyLive(s2) /\ s2.live \subseteq Document
  BY <1>1, <1>5 DEF Sound, OwnedBy, ElementsOwned, OnlyLive, SameOwners
<1>13. \A q \in Node : \A x \in Kids(s2, q) \ {c} : Inherits(s2, q, x)
  <2>1. \A q \in Node : \A x \in Kids(s1, q) : Inherits(s1, q, x)
    BY <1>5 DEF Sound, KidsOwned
  <2>2. s2.owner = s1.owner /\ s2.owned = s1.owned
    BY <1>1 DEF SameOwners
  <2> QED
    BY <1>11, <2>1, <2>2 DEF Inherits, OwnerOf
<1>14. c \in Kids(s2, p) /\ c \in s2.born
  BY <1>0, <1>1, <1>11 DEF SameOwners
<1>15. d \in Document \cup {None} /\ (d # None => d \in s2.live)
  BY <1>1, <1>4, <1>7 DEF SameOwners
<1>16. Sound(r)
  BY <1>0, <1>1, <1>2, <1>7, <1>11, <1>12, <1>13, <1>14, <1>15, AdoptSound
<1> QED
  BY <1>16 DEF r

-----------------------------------------------------------------------------
(* How a call on s ends. *)
Results(s) ==
  {r \in [ok : BOOLEAN, s : Good] : r.s.born = s.born /\ (r.s.intact => s.intact)}

LEMMA GoodIs ==
  ASSUME NEW s \in Good
  PROVE  s \in States /\ Registered(s) /\ Grounded(s) /\ (s.intact => Sound(s))
  BY DEF Good

LEMMA ResultIs ==
  ASSUME NEW s, NEW t \in Good, t.born = s.born, t.intact => s.intact
  PROVE  Returns(t) \in Results(s) /\ Throws(t) \in Results(s)
  BY DEF Results, Returns, Throws

LEMMA PlaceGood ==
  ASSUME currentTaskId \in Task, NEW s \in Good, NEW p \in Parents \cap InUse(s), NEW c \in Node,
         s.intact => c \in s.born \ (Document \cup Fragment),
         NEW i \in Nat \ {0}, ~IsAncestor(s, c, p)
  PROVE  LET r == Place(s, p, c, i)
         IN  r \in Good /\ r.born = s.born /\ (r.intact => s.intact)
<1> DEFINE r == Place(s, p, c, i)
<1>1. s \in States /\ Registered(s) /\ Grounded(s) /\ (s.intact => Sound(s))
  BY GoodIs
<1>2. r \in States /\ r.born = s.born /\ Registered(r) /\ (r.intact => s.intact)
  BY <1>1, PlaceTyped
<1>3. Grounded(r)
  BY <1>1, PlaceGrounded
<1>4. ASSUME r.intact PROVE Sound(r)
  <2>1. s.intact /\ Sound(s) /\ c \in s.born \ (Document \cup Fragment)
    BY <1>1, <1>2, <1>4
  <2> QED
    BY <1>1, <1>4, <2>1, PlaceSound
<1> QED
  BY <1>2, <1>3, <1>4 DEF Good

LEMMA ValidFacts ==
  ASSUME NEW s, NEW p, NEW c, Valid(s, p, c)
  PROVE  p \in Parents /\ c \notin Document
  BY KindFacts DEF Valid, Allowed, IsDoc

LEMMA AppendNodeGood ==
  ASSUME currentTaskId \in Task, NEW s \in Good, NEW p \in InUse(s), NEW c \in Node,
         s.intact => c \in s.born \ Fragment
  PROVE  AppendNode(s, p, c) \in Results(s)
<1>1. CASE p = c \/ ~Valid(s, p, c) \/ IsAncestor(s, c, p)
  BY <1>1, ResultIs DEF AppendNode
<1>2. CASE ~(p = c \/ ~Valid(s, p, c) \/ IsAncestor(s, c, p))
  <2> DEFINE i == Len(s.kids[p]) + 1
             r == Place(s, p, c, i)
  <2>1. AppendNode(s, p, c) = Returns(r)
    BY <1>2 DEF AppendNode
  <2>2. i \in Nat \ {0}
    BY GoodIs, StateTyped, LenProperties
  <2>3. p \in Parents /\ c \notin Document
    BY <1>2, ValidFacts
  <2>4. r \in Good /\ r.born = s.born /\ (r.intact => s.intact)
    <3> HIDE DEF i
    <3> QED
      BY <1>2, <2>2, <2>3, PlaceGood
  <2> HIDE DEF r
  <2> QED
    BY <2>1, <2>4, ResultIs
<1> QED
  BY <1>1, <1>2

LEMMA InsertNodeGood ==
  ASSUME currentTaskId \in Task, NEW s \in Good, NEW p \in InUse(s), NEW c \in Node, NEW b,
         s.intact => c \in s.born \ Fragment
  PROVE  InsertNode(s, p, c, b) \in Results(s)
<1> DEFINE no == \/ ~Contains(s.kids[p], b) \/ p = c \/ IsAncestor(s, c, p)
                 \/ ~Valid(s, p, c)
<1>1. CASE no
  BY <1>1, ResultIs DEF InsertNode
<1>2. CASE ~no
  <2> DEFINE I == {j \in 1 .. Len(s.kids[p]) : s.kids[p][j] = b}
             i == Min(I)
             r == Place(s, p, c, i)
  <2>1. I # {}
    BY <1>2 DEF Contains
  <2>2. InsertNode(s, p, c, b) = Returns(r)
    BY <1>2, <2>1 DEF InsertNode, SelectInSeq
  <2>3. i \in Nat \ {0}
    <3>1. I \in SUBSET Nat /\ 0 \notin I
      BY GoodIs, StateTyped, LenProperties
    <3> HIDE DEF I
    <3> QED
      BY <2>1, <3>1, LeastOfSet
  <2>4. p \in Parents /\ c \notin Document
    BY <1>2, ValidFacts
  <2>5. r \in Good /\ r.born = s.born /\ (r.intact => s.intact)
    <3> HIDE DEF i
    <3> QED
      BY <1>2, <2>3, <2>4, PlaceGood
  <2> HIDE DEF r
  <2> QED
    BY <2>2, <2>5, ResultIs
<1> QED
  BY <1>1, <1>2

(* A fragment gives its children away one by one. *)
LEMMA AppendToGood ==
  ASSUME currentTaskId \in Task, NEW s \in Good, NEW p \in InUse(s), NEW c \in s.born
  PROVE  AppendTo(s, p, c) \in Results(s)
<1>0. /\ s \in States /\ c \in Node /\ s.kids[c] \in Seq(Node)
      /\ s.intact => Sound(s)
  BY GoodIs, StateTyped
<1>1. CASE c \notin Fragment
  BY <1>0, <1>1, AppendNodeGood DEF AppendTo
<1> DEFINE no == p = c \/ ~Valid(s, p, c)
<1>2. CASE c \in Fragment /\ no
  BY <1>2, ResultIs DEF AppendTo
<1>3. CASE c \in Fragment /\ ~no
  <2> DEFINE n == Len(s.kids[c])
             R == Results(s)
             Next1(r, k) == IF r.ok THEN AppendNode(r.s, p, s.kids[c][k]) ELSE r
             G(g) == [k \in 0 .. Len(s.kids[c]) |->
                        IF k = 0 THEN Returns(s)
                        ELSE LET r == g[k-1]
                             IN  IF r.ok THEN AppendNode(r.s, p, s.kids[c][k]) ELSE r]
             F == [k \in 1 .. n |-> [r \in R |-> Next1(r, k)]]
  <2>1. n \in Nat /\ Returns(s) \in R /\ n \in 0 .. n
    BY <1>0, LenProperties, ResultIs
  <2>2. ASSUME NEW r \in R, NEW k \in 1 .. n PROVE Next1(r, k) \in R
    <3> DEFINE m == s.kids[c][k]
    <3>1. r.s \in Good /\ r.s.born = s.born /\ (r.s.intact => s.intact)
      BY DEF Results
    <3>2. m \in Node /\ m \in Kids(s, c)
      BY <1>0, ElementOfSeq, LenProperties DEF Kids, ToSet
    <3>3. ASSUME s.intact PROVE m \in s.born \ Fragment
      <4>1. s.parent[m] = c /\ c # None
        BY <1>0, <3>2, <3>3, KindFacts DEF Sound, Linked, KidsNamed
      <4> QED
        BY <1>0, <3>2, <3>3, <4>1 DEF Sound, Linked, Rooted, Unused, InUse
    <3> HIDE DEF m
    <3>4. AppendNode(r.s, p, m) \in Results(r.s)
      BY <3>1, <3>2, <3>3, AppendNodeGood DEF InUse
    <3>5. Results(r.s) \subseteq Results(s)
      BY <3>1 DEF Results
    <3> QED
      BY <3>4, <3>5 DEF m
  <2>3. F \in [1 .. n -> [R -> R]]
    <3> HIDE DEF R, n, Next1
    <3> QED
      BY <2>2
  <2>4. PICK g \in [0 .. n -> R] : Iterates(g, n, Returns(s), F)
    <3> HIDE DEF F, n, R
    <3> QED
      BY <2>1, <2>3, Recursion
  <2>5. g = G(g)
    <3>1. ASSUME NEW j \in 0 .. Len(s.kids[c]) PROVE g[j] = G(g)[j]
      <4>1. CASE j = 0
        BY <4>1, <2>4 DEF Iterates
      <4>2. CASE j # 0
        <5>1. j \in 1 .. n /\ j - 1 \in 0 .. n
          BY <2>1, <4>2
        <5>2. g[j] = F[j][g[j - 1]] /\ g[j - 1] \in R
          <6> HIDE DEF n, F, R
          <6> QED
            BY <2>4, <5>1 DEF Iterates
        <5>3. F[j][g[j - 1]] = Next1(g[j - 1], j)
          <6> HIDE DEF n, R, Next1
          <6> QED
            BY <5>1, <5>2
        <5> QED
          BY <4>2, <5>2, <5>3
      <4> QED
        BY <4>1, <4>2
    <3>2. g = [j \in 0 .. Len(s.kids[c]) |-> g[j]]
      BY <2>4
    <3> QED
      BY <3>1, <3>2
  <2> DEFINE h == CHOOSE h : h = G(h)
  <2>6. h = G(h)
    BY <2>5
  <2>7. AppendTo(s, p, c) = h[n]
    BY <1>3 DEF AppendTo
  <2> HIDE DEF h
  <2> DEFINE D == {k \in 0 .. n : h[k] \in R}
  <2>8. 0 \in D
    BY <2>1, <2>6
  <2>9. ASSUME NEW k \in 1 .. n, k - 1 \in D PROVE k \in D
    <3>1. k \in 0 .. Len(s.kids[c]) /\ k # 0 /\ k \in 0 .. n
      BY <2>1
    <3>2. h[k] = Next1(h[k - 1], k)
      BY <2>6, <3>1
    <3>3. h[k - 1] \in R
      BY <2>9
    <3>4. h[k] \in R
      <4> HIDE DEF R, n, Next1
      <4> QED
        BY <2>2, <3>2, <3>3
    <3> QED
      BY <3>1, <3>4
  <2>10. \A k \in 1 .. n : k - 1 \in D => k \in D
    BY <2>9
  <2>11. n \in D
    <3> HIDE DEF D
    <3> QED
      BY <2>1, <2>8, <2>10, SetInduction
  <2> QED
    BY <2>7, <2>11
<1> QED
  BY <1>1, <1>2, <1>3

LEMMA InsertIntoGood ==
  ASSUME currentTaskId \in Task, NEW s \in Good, NEW p \in InUse(s), NEW c \in s.born, NEW b
  PROVE  InsertInto(s, p, c, b) \in Results(s)
<1>0. /\ s \in States /\ c \in Node /\ s.kids[c] \in Seq(Node)
      /\ s.intact => Sound(s)
  BY GoodIs, StateTyped
<1>1. CASE c \notin Fragment
  BY <1>0, <1>1, InsertNodeGood DEF InsertInto
<1> DEFINE no == ~Contains(s.kids[p], b) \/ IsAncestor(s, c, p) \/ ~Valid(s, p, c)
<1>2. CASE c \in Fragment /\ no
  BY <1>2, ResultIs DEF InsertInto
<1>3. CASE c \in Fragment /\ ~no
  <2> DEFINE n == Len(s.kids[c])
             R == Results(s)
             Next1(r, k) == IF r.ok THEN InsertNode(r.s, p, s.kids[c][k], b) ELSE r
             G(g) == [k \in 0 .. Len(s.kids[c]) |->
                        IF k = 0 THEN Returns(s)
                        ELSE LET r == g[k-1]
                             IN  IF r.ok THEN InsertNode(r.s, p, s.kids[c][k], b) ELSE r]
             F == [k \in 1 .. n |-> [r \in R |-> Next1(r, k)]]
  <2>1. n \in Nat /\ Returns(s) \in R /\ n \in 0 .. n
    BY <1>0, LenProperties, ResultIs
  <2>2. ASSUME NEW r \in R, NEW k \in 1 .. n PROVE Next1(r, k) \in R
    <3> DEFINE m == s.kids[c][k]
    <3>1. r.s \in Good /\ r.s.born = s.born /\ (r.s.intact => s.intact)
      BY DEF Results
    <3>2. m \in Node /\ m \in Kids(s, c)
      BY <1>0, ElementOfSeq, LenProperties DEF Kids, ToSet
    <3>3. ASSUME s.intact PROVE m \in s.born \ Fragment
      <4>1. s.parent[m] = c /\ c # None
        BY <1>0, <3>2, <3>3, KindFacts DEF Sound, Linked, KidsNamed
      <4> QED
        BY <1>0, <3>2, <3>3, <4>1 DEF Sound, Linked, Rooted, Unused, InUse
    <3> HIDE DEF m
    <3>4. InsertNode(r.s, p, m, b) \in Results(r.s)
      BY <3>1, <3>2, <3>3, InsertNodeGood DEF InUse
    <3>5. Results(r.s) \subseteq Results(s)
      BY <3>1 DEF Results
    <3> QED
      BY <3>4, <3>5 DEF m
  <2>3. F \in [1 .. n -> [R -> R]]
    <3> HIDE DEF R, n, Next1
    <3> QED
      BY <2>2
  <2>4. PICK g \in [0 .. n -> R] : Iterates(g, n, Returns(s), F)
    <3> HIDE DEF F, n, R
    <3> QED
      BY <2>1, <2>3, Recursion
  <2>5. g = G(g)
    <3>1. ASSUME NEW j \in 0 .. Len(s.kids[c]) PROVE g[j] = G(g)[j]
      <4>1. CASE j = 0
        BY <4>1, <2>4 DEF Iterates
      <4>2. CASE j # 0
        <5>1. j \in 1 .. n /\ j - 1 \in 0 .. n
          BY <2>1, <4>2
        <5>2. g[j] = F[j][g[j - 1]] /\ g[j - 1] \in R
          <6> HIDE DEF n, F, R
          <6> QED
            BY <2>4, <5>1 DEF Iterates
        <5>3. F[j][g[j - 1]] = Next1(g[j - 1], j)
          <6> HIDE DEF n, R, Next1
          <6> QED
            BY <5>1, <5>2
        <5> QED
          BY <4>2, <5>2, <5>3
      <4> QED
        BY <4>1, <4>2
    <3>2. g = [j \in 0 .. Len(s.kids[c]) |-> g[j]]
      BY <2>4
    <3> QED
      BY <3>1, <3>2
  <2> DEFINE h == CHOOSE h : h = G(h)
  <2>6. h = G(h)
    BY <2>5
  <2>7. InsertInto(s, p, c, b) = h[n]
    BY <1>3 DEF InsertInto
  <2> HIDE DEF h
  <2> DEFINE D == {k \in 0 .. n : h[k] \in R}
  <2>8. 0 \in D
    BY <2>1, <2>6
  <2>9. ASSUME NEW k \in 1 .. n, k - 1 \in D PROVE k \in D
    <3>1. k \in 0 .. Len(s.kids[c]) /\ k # 0 /\ k \in 0 .. n
      BY <2>1
    <3>2. h[k] = Next1(h[k - 1], k)
      BY <2>6, <3>1
    <3>3. h[k - 1] \in R
      BY <2>9
    <3>4. h[k] \in R
      <4> HIDE DEF R, n, Next1
      <4> QED
        BY <2>2, <3>2, <3>3
    <3> QED
      BY <3>1, <3>4
  <2>10. \A k \in 1 .. n : k - 1 \in D => k \in D
    BY <2>9
  <2>11. n \in D
    <3> HIDE DEF D
    <3> QED
      BY <2>1, <2>8, <2>10, SetInduction
  <2> QED
    BY <2>7, <2>11
<1> QED
  BY <1>1, <1>2, <1>3

-----------------------------------------------------------------------------
(* Nothing about links and owners is different. *)
LEMMA SameSound ==
  ASSUME NEW s, NEW r, Sound(s), r.born = s.born, r.parent = s.parent, r.kids = s.kids,
         r.owner = s.owner, r.owned = s.owned, r.live = s.live
  PROVE  Sound(r)
<1>1. Linked(r)
  BY DEF Sound, Linked, ParentsList, KidsNamed, Once, Grounded, Rooted, Kids
<1>2. Unused(r) /\ OwnedBy(r) /\ ElementsOwned(r) /\ OnlyLive(r) /\ r.live \subseteq Document
  BY DEF Sound, Unused, InUse, OwnedBy, ElementsOwned, OnlyLive
<1>3. KidsOwned(r)
  BY DEF Sound, KidsOwned, Inherits, OwnerOf, Kids
<1> QED
  BY <1>1, <1>2, <1>3 DEF Sound

LEMMA RemoveGood ==
  ASSUME NEW s \in Good, NEW p \in InUse(s), NEW c
  PROVE  RemoveFrom(s, p, c) \in Results(s)
<1>1. CASE ~Contains(s.kids[p], c)
  BY <1>1, ResultIs DEF RemoveFrom
<1>2. CASE Contains(s.kids[p], c)
  <2> DEFINE r == Cut(s, p, c)
  <2>1. p \in Node /\ s \in States /\ Registered(s) /\ Grounded(s)
    BY GoodIs, StateTyped
  <2>2. c \in Kids(s, p) /\ c \in Node
    <3>1. c \in Kids(s, p)
      BY <1>2, <2>1, StateTyped, LenProperties DEF Contains, Kids, ToSet
    <3> QED
      BY <2>1, <3>1, StateTyped, KidsTyped
  <2>3. RemoveFrom(s, p, c) = Returns(r)
    BY <1>2 DEF RemoveFrom, Cut
  <2>4. r \in States /\ SameOwners(s, r) /\ NowAlone(s, r, c)
    BY <2>1, <2>2, CutTyped
  <2>5. ASSUME s.intact PROVE Sound(r)
    BY <2>1, <2>2, <2>5, GoodIs, CutSound
  <2> HIDE DEF r
  <2>6. Registered(r)
    BY <2>1, <2>4, SameRegistered DEF SameOwners
  <2>7. Grounded(r)
    <3>1. \A n \in Node : r.parent[n] \in {None, s.parent[n]}
      BY <2>1, <2>4, StateTyped DEF NowAlone
    <3> QED
      BY <2>1, <3>1, LessGrounded
  <2>8. r \in Good /\ r.born = s.born /\ (r.intact => s.intact)
    BY <2>4, <2>5, <2>6, <2>7 DEF Good, SameOwners
  <2> QED
    BY <2>3, <2>8, ResultIs
<1> QED
  BY <1>1, <1>2

LEMMA EmptiedGood ==
  ASSUME NEW s \in Good, NEW p \in InUse(s)
  PROVE  LET r == Emptied(s, p) IN r \in Good /\ r.born = s.born /\ r.owner = s.owner
<1> DEFINE r == Emptied(s, p)
           w == [m \in Node |-> IF m \in Kids(s, p) THEN None ELSE s.parent[m]]
<1>0. p \in Node /\ s \in States /\ Registered(s) /\ Grounded(s) /\ (s.intact => Sound(s))
  BY GoodIs, StateTyped
<1>1. w \in [Node -> Parents \cup {None}]
  BY <1>0, StateTyped
<1>2. r = [s EXCEPT !.parent = w, !.kids[p] = <<>>]
  BY DEF Emptied, Kids
<1>3. \A m \in Node : w[m] = IF m \in Kids(s, p) THEN None ELSE s.parent[m]
  OBVIOUS
<1> HIDE DEF w, r
<1>4. <<>> \in Seq(Node) /\ DOMAIN <<>> = {}
  OBVIOUS
<1>5. r \in States /\ SameOwners(s, r) /\ r.parent = w /\ r.kids = [s.kids EXCEPT ![p] = <<>>]
  BY <1>0, <1>1, <1>2, <1>4 DEF States, SameOwners
<1>6. Registered(r)
  BY <1>0, <1>5, SameRegistered DEF SameOwners
<1>7. Grounded(r)
  BY <1>0, <1>3, <1>5, LessGrounded
<1>8. ASSUME Sound(s) PROVE Sound(r)
  <2>1. \A q \in Node : r.kids[q] = IF q = p THEN <<>> ELSE s.kids[q]
    BY <1>0, <1>5, StateTyped
  <2>2. \A q \in Node : Kids(r, q) = IF q = p THEN {} ELSE Kids(s, q)
    BY <1>4, <2>1 DEF Kids, ToSet
  <2>3. \A n \in Node : r.parent[n] = IF n \in Kids(s, p) THEN None ELSE s.parent[n]
    BY <1>3, <1>5
  <2>4. \A n \in Node : s.parent[n] # None => s.parent[n] \in Node
    BY <1>0, StateTyped
  <2>5. ParentsList(r)
    BY <1>8, <2>2, <2>3, <2>4 DEF Sound, Linked, ParentsList
  <2>6. KidsNamed(r)
    <3>1. \A q \in Node : Kids(s, q) \subseteq Node
      BY <1>0, KidsTyped, StateTyped
    <3> QED
      BY <1>0, <1>8, <2>2, <2>3, <3>1 DEF Sound, Linked, KidsNamed
  <2>7. Once(r)
    BY <1>4, <1>8, <2>1 DEF Sound, Linked, Once, IsInjective
  <2>8. Rooted(r) /\ Unused(r)
    BY <1>5, <1>8, <2>1, <2>3, KindFacts DEF Sound, Linked, Rooted, Unused, InUse, SameOwners
  <2>9. OwnedBy(r) /\ ElementsOwned(r) /\ OnlyLive(r) /\ r.live \subseteq Document
    BY <1>5, <1>8 DEF Sound, OwnedBy, ElementsOwned, OnlyLive, SameOwners
  <2>10. KidsOwned(r)
    BY <1>5, <1>8, <2>2 DEF Sound, KidsOwned, Inherits, OwnerOf, SameOwners
  <2> QED
    BY <1>7, <2>5, <2>6, <2>7, <2>8, <2>9, <2>10 DEF Sound, Linked
<1> QED
  BY <1>0, <1>5, <1>6, <1>7, <1>8 DEF Good, SameOwners, r

-----------------------------------------------------------------------------
(* Registration, and what ensureElementState does to an element. *)
LEMMA RegisterGood ==
  ASSUME currentTaskId \in Task, NEW s \in Good, NEW d \in Holder \cup {None}
  PROVE  LET r == RegisterOwner(s, d)
         IN  /\ r \in Good /\ r.born = s.born /\ (r.intact => s.intact)
             /\ d # None => d \in r.live
             /\ r.intact => Sound(s) /\ d \in Document \cup {None}
<1> DEFINE r == RegisterOwner(s, d)
<1>1. s \in States /\ Registered(s) /\ Grounded(s) /\ (s.intact => Sound(s))
  BY GoodIs
<1>2. /\ r \in States /\ (d # None => d \in r.live) /\ r.born = s.born
      /\ \A n \in Node : r.parent[n] \in {None, s.parent[n]}
      /\ r.intact => s.intact
      /\ Registered(s) => Registered(r)
      /\ Sound(s) /\ r.intact => d \in Document \cup {None} /\ Sound(r)
  BY <1>1, RegisterOwnerFacts
<1> HIDE DEF r
<1>3. Grounded(r)
  BY <1>1, <1>2, LessGrounded
<1>4. r \in Good
  BY <1>1, <1>2, <1>3 DEF Good
<1> QED
  BY <1>1, <1>2, <1>4 DEF r

LEMMA TouchGood ==
  ASSUME currentTaskId \in Task, NEW s \in Good, NEW e \in Elements
  PROVE  LET r == Touch(s, e) IN r \in Good /\ r.born = s.born
<1> DEFINE d == s.owner[e]
           s0 == [s EXCEPT !.turned = @ \ {e}]
           s1 == RegisterOwner(s0, d)
           r == Touch(s, e)
<1>0. /\ e \in Node /\ s \in States /\ Registered(s) /\ Grounded(s)
      /\ s.intact => Sound(s)
  BY KindFacts, GoodIs
<1>1. d \in Holder \cup {None}
  BY <1>0, StateTyped
<1>2. /\ s0 \in States /\ s0.born = s.born /\ s0.parent = s.parent /\ s0.kids = s.kids
      /\ s0.owner = s.owner /\ s0.owned = s.owned /\ s0.live = s.live
      /\ s0.taskOf = s.taskOf /\ s0.primary = s.primary /\ s0.intact = s.intact
  BY <1>0 DEF States
<1>3. r = IF d = None THEN s1 ELSE [s1 EXCEPT !.owned[d] = @ \cup {e}]
  BY DEF Touch
<1> HIDE DEF s0
<1>4. Registered(s0) /\ Grounded(s0) /\ (s0.intact => Sound(s0))
  BY <1>0, <1>2, SameSound, SameRegistered DEF Grounded
<1>5. s0 \in Good
  BY <1>2, <1>4 DEF Good
<1>6. s1 \in Good /\ s1.born = s.born
  BY <1>1, <1>2, <1>5, RegisterGood
<1>7. s1.intact => /\ s1.owner = s.owner /\ s1.owned = s.owned /\ Sound(s)
                   /\ d \in Document \cup {None}
  <2>1. s1.intact => s0.intact
    BY <1>1, <1>2, RegisterOwnerFacts
  <2>2. s1.intact /\ Sound(s0) =>
          s1.owner = s0.owner /\ s1.owned = s0.owned /\ d \in Document \cup {None}
    BY <1>1, <1>2, RegisterOwnerFacts
  <2> HIDE DEF s1
  <2> QED
    BY <1>0, <1>2, <1>4, <2>1, <2>2
<1> HIDE DEF s1, r
<1>8. CASE d = None
  BY <1>3, <1>6, <1>8 DEF r
<1>9. CASE d # None
  <2>1. s1 \in States /\ Registered(s1) /\ Grounded(s1) /\ d \in Holder
    BY <1>1, <1>6, <1>9, GoodIs
  <2>2. [s1.owned EXCEPT ![d] = @ \cup {e}] \in [Holder -> SUBSET Node]
    BY <1>0, <2>1, StateTyped
  <2>3. /\ r \in States /\ r.born = s1.born /\ r.parent = s1.parent /\ r.kids = s1.kids
        /\ r.owner = s1.owner /\ r.live = s1.live /\ r.taskOf = s1.taskOf
        /\ r.primary = s1.primary /\ r.intact = s1.intact
        /\ r.owned = [s1.owned EXCEPT ![d] = @ \cup {e}]
    BY <1>3, <1>9, <2>1, <2>2 DEF States
  <2>4. Registered(r) /\ Grounded(r)
    BY <2>1, <2>3, SameRegistered DEF Grounded
  <2>5. ASSUME r.intact PROVE Sound(r)
    <3>1. Sound(s1)
      BY <1>6, <2>3, <2>5, GoodIs
    <3>2. e \in s1.owned[d]
      BY <1>7, <1>9, <2>3, <2>5 DEF Sound, ElementsOwned
    <3>3. r.owned = s1.owned
      <4>1. s1.owned \in [Holder -> SUBSET Node]
        BY <2>1, StateTyped
      <4>2. s1.owned[d] \cup {e} = s1.owned[d]
        BY <3>2
      <4>3. [s1.owned EXCEPT ![d] = s1.owned[d]] = s1.owned
        BY <4>1
      <4> QED
        BY <2>3, <4>2, <4>3
    <3> QED
      BY <2>3, <3>1, <3>3, SameSound
  <2> QED
    BY <1>6, <2>3, <2>4, <2>5 DEF Good, r
<1> QED
  BY <1>8, <1>9

-----------------------------------------------------------------------------
(* Creation. *)
NewBorn(s, n) == [s EXCEPT !.born = @ \cup {n}]

LEMMA NewBornGood ==
  ASSUME NEW s \in Good, NEW n \in Node
  PROVE  NewBorn(s, n) \in Good /\ NewBorn(s, n).born = s.born \cup {n}
<1> DEFINE r == NewBorn(s, n)
<1>0. s \in States /\ Registered(s) /\ Grounded(s) /\ (s.intact => Sound(s))
  BY GoodIs
<1>1. /\ r \in States /\ r.born = s.born \cup {n} /\ r.parent = s.parent /\ r.kids = s.kids
      /\ r.owner = s.owner /\ r.owned = s.owned /\ r.intact = s.intact
      /\ r.live = s.live /\ r.taskOf = s.taskOf /\ r.primary = s.primary
  BY <1>0 DEF NewBorn, States
<1> HIDE DEF r
<1>2. Registered(r) /\ Grounded(r)
  BY <1>0, <1>1, SameRegistered DEF Grounded
<1>3. ASSUME Sound(s) PROVE Sound(r)
  <2>1. Linked(r)
    BY <1>1, <1>3 DEF Sound, Linked, ParentsList, KidsNamed, Once, Grounded, Rooted, Kids
  <2>2. Unused(r) /\ OwnedBy(r) /\ ElementsOwned(r) /\ OnlyLive(r) /\ r.live \subseteq Document
    BY <1>1, <1>3 DEF Sound, Unused, InUse, OwnedBy, ElementsOwned, OnlyLive
  <2>3. KidsOwned(r)
    BY <1>1, <1>3 DEF Sound, KidsOwned, Inherits, OwnerOf, Kids
  <2> QED
    BY <2>1, <2>2, <2>3 DEF Sound
<1> QED
  BY <1>0, <1>1, <1>2, <1>3 DEF Good, r

(* A new node n that names d, and is owned by it or not. *)
Named(s, n, d) == [s EXCEPT !.born = @ \cup {n}, !.owner[n] = d]
Born(s, r, n, d, O) ==
  /\ r.born = s.born \cup {n} /\ r.parent = s.parent /\ r.kids = s.kids
  /\ r.owner = [s.owner EXCEPT ![n] = d]
  /\ r.live = s.live /\ r.taskOf = s.taskOf /\ r.primary = s.primary
  /\ r.intact = s.intact
  /\ \A x \in Holder : r.owned[x] = IF x \in O THEN s.owned[x] \cup {n} ELSE s.owned[x]

LEMMA BornGood ==
  ASSUME NEW s \in Good, NEW n \in Node \ (Document \cup s.born), NEW d \in Holder \cup {None},
         NEW O \in SUBSET Document, O \subseteq {d} \cap s.live,
         n \in Elements /\ d # None => d \in O,
         NEW r \in States, Born(s, r, n, d, O)
  PROVE  r \in Good /\ r.born = s.born \cup {n}
<1>0. s \in States /\ Registered(s) /\ Grounded(s) /\ (s.intact => Sound(s))
  BY GoodIs
<1>1. Registered(r) /\ Grounded(r)
  BY <1>0, SameRegistered DEF Born, Grounded
<1>2. ASSUME Sound(s) PROVE Sound(r)
  <2>1. s.parent[n] = None /\ s.kids[n] = <<>> /\ s.owner[n] = None
    BY <1>2 DEF Sound, Unused, InUse
  <2>2. \A q \in Node : n \notin Kids(s, q)
    BY <1>2, <2>1, KindFacts DEF Sound, Linked, KidsNamed
  <2>3. Kids(s, n) = {}
    BY <2>1 DEF Kids, ToSet
  <2>4. \A m \in Node : r.owner[m] = IF m = n THEN d ELSE s.owner[m]
    BY <1>0, StateTyped DEF Born
  <2>5. Linked(r)
    <3>1. Rooted(r)
      BY <1>2, <2>4, KindFacts DEF Sound, Linked, Rooted, Born
    <3> QED
      BY <1>2, <3>1 DEF Sound, Linked, ParentsList, KidsNamed, Once, Grounded, Kids, Born
  <2>6. Unused(r)
    BY <1>2, <2>4 DEF Sound, Unused, InUse, Born
  <2>7. OwnedBy(r)
    <3>1. ASSUME NEW x \in Holder, NEW m \in r.owned[x] PROVE r.owner[m] = x
      <4>1. m \in Node
        BY StateTyped
      <4>2. CASE m = n
        <5>1. n \notin s.owned[x]
          BY <1>2, <2>1, KindFacts DEF Sound, OwnedBy
        <5> QED
          BY <2>4, <3>1, <4>2, <5>1 DEF Born
      <4>3. CASE m # n
        <5>1. m \in s.owned[x]
          <6>1. r.owned[x] \subseteq s.owned[x] \cup {n}
            BY DEF Born
          <6> QED
            BY <3>1, <4>3, <6>1
        <5>2. s.owner[m] = x
          BY <1>2, <5>1 DEF Sound, OwnedBy
        <5> QED
          BY <2>4, <4>1, <4>3, <5>2
      <4> QED
        BY <4>2, <4>3
    <3> QED
      BY <3>1 DEF OwnedBy
  <2>8. ElementsOwned(r)
    <3>1. ASSUME NEW m \in Elements, r.owner[m] # None PROVE m \in r.owned[r.owner[m]]
      <4>1. m \in Node
        BY KindFacts
      <4>2. CASE m = n
        BY <2>4, <3>1, <4>1, <4>2 DEF Born
      <4>3. CASE m # n
        <5>1. r.owner[m] = s.owner[m] /\ s.owner[m] \in Holder
          BY <1>0, <2>4, <3>1, <4>1, <4>3, StateTyped
        <5>2. m \in s.owned[s.owner[m]]
          BY <1>2, <3>1, <5>1 DEF Sound, ElementsOwned
        <5> QED
          BY <5>1, <5>2 DEF Born
      <4> QED
        BY <4>2, <4>3
    <3> QED
      BY <3>1 DEF ElementsOwned
  <2>9. OnlyLive(r) /\ r.live \subseteq Document
    BY <1>2 DEF Sound, OnlyLive, Born
  <2>10. KidsOwned(r)
    <3> SUFFICES ASSUME NEW p \in Node, NEW c \in Kids(s, p) PROVE Inherits(r, p, c)
      BY DEF KidsOwned, Kids, Born
    <3>1. c # n /\ p # n /\ c \in Node
      BY <1>0, <2>2, <2>3, KidsTyped, StateTyped
    <3>2. Inherits(s, p, c)
      BY <1>2 DEF Sound, KidsOwned
    <3>3. r.owner[c] = s.owner[c] /\ r.owner[p] = s.owner[p] /\ s.owner[c] \in Holder \cup {None}
      BY <1>0, <2>4, <3>1, StateTyped
    <3> QED
      BY <3>2, <3>3 DEF Inherits, OwnerOf, Born
  <2> QED
    BY <2>5, <2>6, <2>7, <2>8, <2>9, <2>10 DEF Sound
<1> QED
  BY <1>0, <1>1, <1>2 DEF Good, Born

LEMMA NamedGood ==
  ASSUME NEW s \in Good, NEW n \in Node \ (Document \cup s.born), NEW d \in Holder \cup {None},
         n \notin Elements \/ d = None
  PROVE  Named(s, n, d) \in Good /\ Named(s, n, d).born = s.born \cup {n}
<1> DEFINE r == Named(s, n, d)
<1>1. s \in States
  BY GoodIs
<1>2. r \in States /\ Born(s, r, n, d, {})
  BY <1>1 DEF Named, States, Born
<1> HIDE DEF r
<1>3. r \in Good /\ r.born = s.born \cup {n}
  BY <1>2, BornGood
<1> QED
  BY <1>3 DEF r

LEMMA CreateGood ==
  ASSUME currentTaskId \in Task, NEW s \in Good, NEW n \in Elements \ s.born,
         NEW d \in Holder \cup {None}
  PROVE  Create(s, n, d) \in Good /\ Create(s, n, d).born = s.born \cup {n}
<1>0. n \in Node \ (Document \cup s.born) /\ s \in States
  BY KindFacts, GoodIs
<1>1. CASE d = None
  <2>1. Create(s, n, d) = Named(s, n, d)
    BY <1>1 DEF Create, RegisterOwner, Named
  <2> QED
    BY <1>0, <1>1, <2>1, NamedGood
<1>2. CASE d # None
  <2> DEFINE q == Register(s, d)
             m == Named(s, n, d)
             t == Register(m, d)
             r == Create(s, n, d)
  <2>1. d \in Holder /\ Registered(s) /\ Grounded(s) /\ (s.intact => Sound(s))
    BY <1>2, GoodIs
  <2>2. /\ m \in States /\ m.born = s.born \cup {n} /\ m.parent = s.parent
        /\ m.live = s.live /\ m.taskOf = s.taskOf /\ m.primary = s.primary
        /\ m.intact = s.intact
    BY <1>0, <2>1 DEF Named, States
  <2>3. r = [t EXCEPT !.owned[d] = @ \cup {n}]
    BY <1>2 DEF Create, RegisterOwner, Named
  <2>4. t.intact = q.intact
    <3>1. CASE d \in s.live
      BY <1>0, <2>1, <3>1 DEF Register, Named, States
    <3>2. CASE d \notin s.live
      BY <1>0, <2>1, <3>2 DEF Register, Named, States
    <3> QED
      BY <3>1, <3>2
  \* If d is a document, the order of the two steps does not matter.
  <2>5. ASSUME d # n
        PROVE  /\ t.born = q.born \cup {n} /\ t.owner = [q.owner EXCEPT ![n] = d]
               /\ t.parent = q.parent /\ t.kids = q.kids /\ t.owned = q.owned
               /\ t.live = q.live /\ t.taskOf = q.taskOf /\ t.primary = q.primary
    <3>1. CASE d \in s.live
      BY <1>0, <2>1, <2>5, <3>1 DEF Register, Named, States
    <3>2. CASE d \notin s.live
      <4>1. [[s.owner EXCEPT ![n] = d] EXCEPT ![d] = None]
              = [[s.owner EXCEPT ![d] = None] EXCEPT ![n] = d]
        BY <1>0, <2>1, <2>5, StateTyped
      <4>2. t.owner = [q.owner EXCEPT ![n] = d]
        BY <1>0, <2>1, <3>2, <4>1 DEF Register, Named, States
      <4>3. t.born = q.born \cup {n} /\ t.parent = q.parent /\ t.kids = q.kids
        BY <1>0, <2>1, <3>2 DEF Register, Named, States
      <4>4. /\ t.owned = q.owned /\ t.live = q.live
            /\ t.taskOf = q.taskOf /\ t.primary = q.primary
        BY <1>0, <2>1, <3>2 DEF Register, Named, States
      <4> QED
        BY <4>2, <4>3, <4>4
    <3> QED
      BY <3>1, <3>2
  <2>6. /\ q \in States /\ q.born = s.born /\ d \in q.live
        /\ q.intact => s.intact
        /\ Sound(s) /\ q.intact => d \in Document /\ Sound(q)
    BY <1>0, <2>1, RegisterFacts
  <2>7. /\ t \in States /\ t.born = m.born
        /\ \A x \in Node : t.parent[x] \in {None, m.parent[x]}
        /\ Registered(m) => Registered(t)
    BY <2>1, <2>2, RegisterFacts
  <2> HIDE DEF q, m, t, r
  <2>8. Registered(t) /\ Grounded(t)
    <3>1. Registered(m)
      BY <2>1, <2>2, SameRegistered
    <3>2. \A x \in Node : t.parent[x] \in {None, s.parent[x]}
      BY <2>2, <2>7
    <3> QED
      BY <2>1, <2>7, <3>1, <3>2, LessGrounded
  <2>9. [t.owned EXCEPT ![d] = @ \cup {n}] \in [Holder -> SUBSET Node]
    BY <1>0, <2>1, <2>7, StateTyped
  <2>10. /\ r \in States /\ r.born = t.born /\ r.owner = t.owner /\ r.parent = t.parent
         /\ r.kids = t.kids /\ r.live = t.live /\ r.taskOf = t.taskOf
         /\ r.primary = t.primary /\ r.intact = t.intact
         /\ r.owned = [t.owned EXCEPT ![d] = @ \cup {n}]
    BY <2>3, <2>7, <2>9 DEF States
  <2>11. Registered(r) /\ Grounded(r)
    BY <2>8, <2>10, SameRegistered DEF Grounded
  <2>12. ASSUME r.intact PROVE Sound(r)
    <3>1. q.intact /\ s.intact /\ d \in Document /\ Sound(q)
      BY <2>1, <2>4, <2>6, <2>10, <2>12
    <3>2. Registered(q) /\ Grounded(q)
      BY <1>0, <2>1, <3>1, RegisterFacts DEF q, Sound, Linked
    <3>3. q \in Good
      BY <2>6, <3>1, <3>2 DEF Good
    <3>4. d # n
      BY <1>0, <3>1
    <3>5. \A x \in Holder : r.owned[x] = IF x \in {d} THEN q.owned[x] \cup {n} ELSE q.owned[x]
      <4>1. q.owned \in [Holder -> SUBSET Node]
        BY <2>6, StateTyped
      <4>2. r.owned = [q.owned EXCEPT ![d] = @ \cup {n}]
        BY <2>5, <2>10, <3>4
      <4> QED
        BY <2>1, <4>1, <4>2
    <3>6. Born(q, r, n, d, {d})
      BY <2>4, <2>5, <2>10, <3>4, <3>5 DEF Born
    <3>7. /\ n \in Node \ (Document \cup q.born)
          /\ {d} \in SUBSET Document /\ {d} \subseteq {d} \cap q.live
      BY <1>0, <2>6, <3>1
    <3>8. r \in Good
      BY <2>1, <2>10, <3>3, <3>6, <3>7, BornGood
    <3> QED
      BY <2>12, <3>8, GoodIs
  <2>13. r \in Good /\ r.born = s.born \cup {n}
    BY <2>2, <2>7, <2>10, <2>11, <2>12 DEF Good
  <2> QED
    BY <2>13 DEF r
<1> QED
  BY <1>1, <1>2

-----------------------------------------------------------------------------
LEMMA DefaultTreeGood ==
  ASSUME currentTaskId \in Task, NEW s \in Good, NEW d \in Document,
         NEW h \in Html \ s.born
  PROVE  DefaultTree(s, d, h) \in Good
<1> DEFINE s1 == Register(s, d)
           s2 == Create(s1, h, d)
<1>1. s1 \in Good /\ s1.born = s.born
  <2>1. d \in Holder /\ s1 = RegisterOwner(s, d)
    BY KindFacts DEF RegisterOwner
  <2> QED
    BY <2>1, RegisterGood
<1> HIDE DEF s1
<1>2. h \in Elements \ s1.born /\ d \in Holder \cup {None}
  BY <1>1, KindFacts DEF Elements
<1>3. s2 \in Good /\ s2.born = s1.born \cup {h}
  BY <1>1, <1>2, CreateGood
<1> HIDE DEF s2
<1>4. AppendTo(s2, d, h) \in Results(s2)
  BY <1>1, <1>3, AppendToGood DEF InUse
<1>5. AppendTo(s2, d, h).s \in Good
  BY <1>4 DEF Results
<1> QED
  BY <1>1, <1>5 DEF DefaultTree, s1, s2

(* The text or comment of parsed HTML. *)
LEMMA AppendTextGood ==
  ASSUME currentTaskId \in Task, NEW s \in Good, NEW p \in Elements \cap s.born,
         NEW x \in (Text \cup Comment) \ s.born
  PROVE  AppendText(s, p, x) \in Good
<1> DEFINE d == IF s.owner[p] = None THEN p ELSE s.owner[p]
           t == Named(s, x, d)
<1>1. d \in Holder \cup {None}
  BY KindFacts, GoodIs, StateTyped
<1>2. x \in Node \ (Document \cup s.born) /\ x \notin Elements
  BY NodeAssumption DEF Node, Elements
<1>3. AppendText(s, p, x) = AppendTo(t, p, x).s
  BY DEF AppendText, Named
<1> HIDE DEF d
<1>4. t \in Good /\ t.born = s.born \cup {x}
  BY <1>1, <1>2, NamedGood
<1> HIDE DEF t
<1>5. AppendTo(t, p, x) \in Results(t)
  BY <1>4, AppendToGood DEF InUse
<1> QED
  BY <1>3, <1>5 DEF Results

-----------------------------------------------------------------------------
(* A document is cleared to be parsed again.  If that damages nothing, it    *)
(* owned its children and no more, and these had no children.               *)
Clearing(s, r, d, G) ==
  /\ r.born = s.born /\ r.live = s.live /\ r.taskOf = s.taskOf /\ r.primary = s.primary
  /\ r.kids = [s.kids EXCEPT ![d] = <<>>] /\ r.owned = [s.owned EXCEPT ![d] = {}]
  /\ \A n \in Node : r.parent[n] = IF n \in G THEN None ELSE s.parent[n]
  /\ \A n \in Node : r.owner[n] = IF n \in G /\ s.owner[n] = d THEN None ELSE s.owner[n]
  /\ r.intact => s.intact /\ \A n \in s.owned[d] : n \in Kids(s, d) /\ s.kids[n] = <<>>

Below(s, d) == UNION {Subtree(s, c) : c \in ToSet(s.kids[d])}

LEMMA ClearTyped ==
  ASSUME NEW s \in States, NEW d \in Document
  PROVE  LET r == ClearDocument(s, d)
         IN  r \in States /\ Clearing(s, r, d, Below(s, d))
<1> DEFINE G == Below(s, d)
           w == [n \in Node |-> IF n \in G THEN None ELSE s.parent[n]]
           o == [n \in Node |-> IF n \in G /\ s.owner[n] = d THEN None ELSE s.owner[n]]
           k == [s.kids EXCEPT ![d] = <<>>]
           l == [s.owned EXCEPT ![d] = {}]
           i == s.intact /\ \A n \in s.owned[d] : n \in ToSet(s.kids[d]) /\ s.kids[n] = <<>>
           h == s.hung \/ Circles(s, G)
           r == ClearDocument(s, d)
<1>1. r = [s EXCEPT !.kids[d] = <<>>, !.owned[d] = {}, !.parent = w, !.owner = o,
                    !.intact = i, !.hung = h]
  BY DEF ClearDocument, Below
<1>2. d \in Node /\ d \in Holder
  BY KindFacts
<1> HIDE DEF G
<1>3. w \in [Node -> Parents \cup {None}] /\ o \in [Node -> Holder \cup {None}]
  BY StateTyped
<1>4. k \in [Node -> Seq(Node)] /\ l \in [Holder -> SUBSET Node]
  <2>1. <<>> \in Seq(Node)
    OBVIOUS
  <2> QED
    BY <1>2, <2>1, StateTyped
<1>5. i \in BOOLEAN /\ h \in BOOLEAN
  BY StateTyped DEF Circles
<1>6. /\ \A n \in Node : w[n] = IF n \in G THEN None ELSE s.parent[n]
      /\ \A n \in Node : o[n] = IF n \in G /\ s.owner[n] = d THEN None ELSE s.owner[n]
      /\ i => s.intact /\ \A n \in s.owned[d] : n \in Kids(s, d) /\ s.kids[n] = <<>>
  BY DEF Kids
<1> HIDE DEF w, o, i, h, r
<1>7. /\ r.born = s.born /\ r.live = s.live /\ r.taskOf = s.taskOf /\ r.primary = s.primary
      /\ r.kids = k /\ r.owned = l /\ r.parent = w /\ r.owner = o /\ r.intact = i
  BY <1>1, <1>2 DEF States
<1>8. r \in States
  BY <1>1, <1>2, <1>3, <1>4, <1>5, <1>7 DEF States
<1>9. Clearing(s, r, d, G)
  BY <1>6, <1>7 DEF Clearing
<1> QED
  BY <1>8, <1>9 DEF r, G

LEMMA ClearSound ==
  ASSUME NEW s \in States, Sound(s), NEW d \in Document,
         NEW r \in States, Clearing(s, r, d, Below(s, d)), r.intact
  PROVE  Sound(r)
<1> DEFINE K == Kids(s, d)
           G == Below(s, d)
<1>0. d \in Node /\ d # None /\ d \in Holder /\ None \notin Node
  BY KindFacts
<1>1. \A n \in s.owned[d] : n \in K /\ s.kids[n] = <<>>
  BY DEF Clearing
<1>2. /\ \A q \in Node : Kids(s, q) \subseteq Node
      /\ \A n \in Node : s.parent[n] \in Node \cup {None}
      /\ \A x \in Holder : s.owned[x] \subseteq Node
      /\ \A n \in Node : s.owner[n] \in Holder \cup {None}
  BY StateTyped, KidsTyped
<1>3. \A c \in K : c \in Node /\ s.parent[c] = d /\ s.owner[c] = d /\ c \in s.owned[d]
  BY <1>0, <1>2 DEF Sound, Linked, KidsNamed, KidsOwned, Inherits, OwnerOf
<1>4. \A c \in K : Kids(s, c) = {}
  BY <1>1, <1>3 DEF Kids, ToSet
<1>5. G = K
  <2>1. ASSUME NEW c \in K PROVE Subtree(s, c) = {c}
    <3> DEFINE B == Subtree(s, c)
    <3>1. /\ B \subseteq Node /\ c \in B
          /\ \A m \in B \ {c} : \E q \in B : m \in Kids(s, q)
      BY <1>3, StateTyped, SubtreeFacts
    <3> HIDE DEF B
    <3>2. \A m \in B \ {c} : s.parent[m] \in B /\ m \in Kids(s, s.parent[m])
      BY <3>1 DEF Sound, Linked, KidsNamed
    <3>3. \A m \in B \ {c} : s.parent[m] \in B \ {c}
      BY <1>4, <3>2
    <3>4. B \ {c} = {}
      BY <3>1, <3>3 DEF Sound, Linked, Grounded
    <3> QED
      BY <3>1, <3>4 DEF B
  <2> QED
    BY <2>1 DEF Below, Kids
<1> HIDE DEF G
<1>6. s.owned[d] = K
  BY <1>1, <1>3
<1> HIDE DEF K
<1>7. /\ r.born = s.born /\ r.live = s.live
      /\ \A n \in Node : r.parent[n] = IF n \in K THEN None ELSE s.parent[n]
      /\ \A n \in Node : r.owner[n] = IF n \in K THEN None ELSE s.owner[n]
  BY <1>3, <1>5 DEF Clearing, G
<1>8. /\ \A q \in Node : r.kids[q] = IF q = d THEN <<>> ELSE s.kids[q]
      /\ \A x \in Holder : r.owned[x] = IF x = d THEN {} ELSE s.owned[x]
  BY <1>0, StateTyped DEF Clearing
<1>9. \A q \in Node : Kids(r, q) = IF q = d THEN {} ELSE Kids(s, q)
  BY <1>8 DEF Kids, ToSet
\* The children of others are not cleared, and neither are their parents.
<1>10. ASSUME NEW p \in Node, NEW c \in Kids(r, p)
       PROVE  /\ c \in Node /\ c \in Kids(s, p) /\ p # d /\ s.parent[c] = p
              /\ c \notin K /\ p \notin K
  <2>1. p # d /\ c \in Kids(s, p)
    BY <1>9
  <2>2. c \in Node /\ s.parent[c] = p
    BY <1>2, <2>1 DEF Sound, Linked, KidsNamed
  <2> QED
    BY <1>3, <1>4, <2>1, <2>2
<1>11. ParentsList(r)
  <2>1. ASSUME NEW n \in Node, r.parent[n] # None PROVE n \in Kids(r, r.parent[n])
    <3>1. n \notin K /\ r.parent[n] = s.parent[n] /\ s.parent[n] \in Node
      BY <1>2, <1>7, <2>1
    <3>2. n \in Kids(s, s.parent[n])
      BY <2>1, <3>1 DEF Sound, Linked, ParentsList
    <3>3. s.parent[n] # d
      BY <3>1, <3>2 DEF K
    <3> QED
      BY <1>9, <3>1, <3>2, <3>3
  <2> QED
    BY <2>1 DEF ParentsList
<1>12. KidsNamed(r)
  BY <1>7, <1>10 DEF KidsNamed
<1>13. Once(r)
  BY <1>8 DEF Sound, Linked, Once, IsInjective
<1>14. Grounded(r)
  BY <1>7, LessGrounded DEF Sound, Linked
<1>15. Rooted(r) /\ Unused(r)
  BY <1>0, <1>7, <1>8, KindFacts DEF Sound, Linked, Rooted, Unused, InUse
<1>16. ASSUME NEW n \in Node, s.owner[n] # None => n \in s.owned[s.owner[n]], r.owner[n] # None
       PROVE  n \in r.owned[r.owner[n]]
  <2>1. n \notin K /\ r.owner[n] = s.owner[n] /\ s.owner[n] \in Holder
    BY <1>2, <1>7, <1>16
  <2>2. s.owner[n] # d
    BY <1>6, <1>16, <2>1
  <2> QED
    BY <1>8, <1>16, <2>1, <2>2
<1>17. ElementsOwned(r)
  BY <1>16, KindFacts DEF Sound, ElementsOwned
<1>18. OwnedBy(r)
  <2>1. ASSUME NEW x \in Holder, NEW n \in r.owned[x] PROVE r.owner[n] = x
    <3>1. x # d /\ n \in s.owned[x] /\ n \in Node
      BY <1>2, <1>8
    <3>2. s.owner[n] = x
      BY <3>1 DEF Sound, OwnedBy
    <3> QED
      BY <1>3, <1>7, <3>1, <3>2
  <2> QED
    BY <2>1 DEF OwnedBy
<1>19. KidsOwned(r)
  <2> SUFFICES ASSUME NEW p \in Node, NEW c \in Kids(r, p) PROVE Inherits(r, p, c)
    BY DEF KidsOwned
  <2>1. c \in Node /\ c \notin K /\ p \notin K /\ Inherits(s, p, c)
    BY <1>10 DEF Sound, KidsOwned
  <2>2. r.owner[c] = s.owner[c] /\ r.owner[p] = s.owner[p]
    BY <1>7, <2>1
  <2>3. r.owner[c] # None => c \in r.owned[r.owner[c]]
    BY <1>16, <2>1 DEF Inherits
  <2> QED
    BY <2>1, <2>2, <2>3 DEF Inherits, OwnerOf
<1>20. OnlyLive(r) /\ r.live \subseteq Document
  BY <1>7, <1>8 DEF Sound, OnlyLive
<1> QED
  BY <1>11, <1>12, <1>13, <1>14, <1>15, <1>17, <1>18, <1>19, <1>20 DEF Sound, Linked

LEMMA ClearGood ==
  ASSUME NEW s \in Good, NEW d \in Document
  PROVE  ClearDocument(s, d) \in Good /\ ClearDocument(s, d).born = s.born
<1> DEFINE r == ClearDocument(s, d)
<1>1. s \in States /\ Registered(s) /\ Grounded(s) /\ (s.intact => Sound(s))
  BY GoodIs
<1>2. r \in States /\ Clearing(s, r, d, Below(s, d))
  BY <1>1, ClearTyped
<1> HIDE DEF r
<1>3. r.born = s.born /\ Registered(r)
  BY <1>1, <1>2, SameRegistered DEF Clearing
<1>4. Grounded(r)
  BY <1>1, <1>2, LessGrounded DEF Clearing
<1>5. ASSUME r.intact PROVE Sound(r)
  BY <1>1, <1>2, <1>5, ClearSound DEF Clearing
<1> QED
  BY <1>2, <1>3, <1>4, <1>5 DEF Good, r

-----------------------------------------------------------------------------
(* The invariant. *)
DomInv ==
  /\ Now \in States /\ Registered(Now) /\ Grounded(Now) /\ (intact => Sound(Now))
  /\ currentTaskId \in Task

LEMMA NowFacts ==
  ASSUME DomInv
  PROVE  /\ Now \in Good /\ currentTaskId \in Task
         /\ Now.born = born /\ Now.kids = kids /\ Now.owner = owner
         /\ Now.primary = primary /\ Now.live = live /\ Now.intact = intact
         /\ owner \in [Node -> Holder \cup {None}] /\ born \subseteq Node
<1>1. Now \in States
  BY DEF DomInv
<1> QED
  BY <1>1 DEF DomInv, Good, Now, States

LEMMA NextState ==
  ASSUME currentTaskId \in Task, NEW s \in Good, Now' = s, currentTaskId' = currentTaskId
  PROVE  DomInv'
<1>1. s \in States /\ Registered(s) /\ Grounded(s) /\ (s.intact => Sound(s))
  BY GoodIs
<1>2. Registered(Now)'
  BY <1>1 DEF Registered
<1>3. intact' = s.intact
  BY DEF Now
<1>4. Now' \in States /\ Grounded(Now)' /\ (intact' => Sound(Now)')
  BY <1>1, <1>3 DEF Sound, Linked, ParentsList, KidsNamed, Once, Grounded, Rooted, Kids,
     Unused, OwnedBy, KidsOwned, InUse, Inherits, OwnerOf, ElementsOwned, OnlyLive
<1> QED
  BY <1>2, <1>4 DEF DomInv, States

LEMMA BecomesGood ==
  ASSUME currentTaskId \in Task, NEW s \in Good, Becomes(s)
  PROVE  DomInv'
<1> DEFINE r == [born |-> s.born, turned |-> s.turned, parent |-> s.parent, kids |-> s.kids,
                 owner |-> s.owner, owned |-> s.owned, live |-> s.live, taskOf |-> s.taskOf,
                 primary |-> s.primary, intact |-> s.intact, hung |-> FALSE]
<1>1. s \in States /\ Registered(s) /\ Grounded(s) /\ (s.intact => Sound(s))
  BY GoodIs
<1>2. Now' = r /\ currentTaskId' = currentTaskId
  BY DEF Now, Becomes
<1>3. /\ r \in States /\ r.born = s.born /\ r.parent = s.parent /\ r.kids = s.kids
      /\ r.owner = s.owner /\ r.owned = s.owned /\ r.live = s.live
      /\ r.taskOf = s.taskOf /\ r.primary = s.primary /\ r.intact = s.intact
  BY <1>1 DEF States
<1> HIDE DEF r
<1>4. Registered(r) /\ Grounded(r)
  BY <1>1, <1>3 DEF Registered, Grounded
<1>5. ASSUME Sound(s) PROVE Sound(r)
  BY <1>3, <1>5 DEF Sound, Linked, ParentsList, KidsNamed, Once, Grounded, Rooted, Kids,
     Unused, OwnedBy, KidsOwned, InUse, Inherits, OwnerOf, ElementsOwned, OnlyLive
<1>6. r \in Good
  BY <1>1, <1>3, <1>4, <1>5 DEF Good
<1> QED
  BY <1>2, <1>6, NextState

LEMMA BecomesResult ==
  ASSUME currentTaskId \in Task, NEW s, NEW r \in Results(s), Becomes(r.s)
  PROVE  DomInv'
<1>1. r.s \in Good
  BY DEF Results
<1> QED
  BY <1>1, BecomesGood

LEMMA TreeCalls ==
  ASSUME DomInv, NEW p \in born \cap Parents
  PROVE  /\ \A c \in born : AppendChild(p, c) => DomInv'
         /\ \A c \in ToSet(kids[p]) : RemoveChild(p, c) => DomInv'
         /\ \A c \in born, b \in ToSet(kids[p]) : InsertBefore(p, c, b) => DomInv'
         /\ \A c \in born, b \in ToSet(kids[p]) : ReplaceChild(p, c, b) => DomInv'
<1>1. Now \in Good /\ currentTaskId \in Task /\ Now.born = born
  BY NowFacts
<1>2. ASSUME NEW c \in born, AppendChild(p, c) PROVE DomInv'
  <2>1. AppendTo(Now, p, c) \in Results(Now)
    BY <1>1, AppendToGood DEF InUse
  <2> QED
    BY <1>1, <1>2, <2>1, BecomesResult DEF AppendChild
<1>3. ASSUME NEW c, RemoveChild(p, c) PROVE DomInv'
  <2>1. RemoveFrom(Now, p, c) \in Results(Now)
    BY <1>1, RemoveGood DEF InUse
  <2> QED
    BY <1>1, <1>3, <2>1, BecomesResult DEF RemoveChild
<1>4. ASSUME NEW c \in born, NEW b, InsertBefore(p, c, b) PROVE DomInv'
  <2>1. InsertInto(Now, p, c, b) \in Results(Now)
    BY <1>1, InsertIntoGood DEF InUse
  <2> QED
    BY <1>1, <1>4, <2>1, BecomesResult DEF InsertBefore
<1>5. ASSUME NEW c \in born, NEW b, ReplaceChild(p, c, b) PROVE DomInv'
  <2> DEFINE r == InsertInto(Now, p, c, b)
  <2>1. r \in Results(Now)
    BY <1>1, InsertIntoGood DEF InUse
  <2> HIDE DEF r
  <2>2. r.s \in Good /\ r.s.born = born
    BY <1>1, <2>1 DEF Results
  <2>3. RemoveFrom(r.s, p, b) \in Results(r.s)
    BY <2>2, RemoveGood DEF InUse
  <2>4. Becomes(IF r.ok THEN RemoveFrom(r.s, p, b).s ELSE r.s)
    BY <1>5 DEF ReplaceChild, r
  <2>5. CASE r.ok
    BY <1>1, <2>3, <2>4, <2>5, BecomesResult
  <2>6. CASE ~r.ok
    BY <1>1, <2>1, <2>4, <2>6, BecomesResult
  <2> QED
    BY <2>5, <2>6
<1> QED
  BY <1>2, <1>3, <1>4, <1>5

LEMMA TextCalls ==
  ASSUME DomInv
  PROVE  /\ \A p \in born : SetTextContent(p) => DomInv'
         /\ \A p \in born \cap Elements : TouchElement(p) => DomInv'
         /\ \A p \in born \cap Elements, e \in Element \cup {None},
              x \in Text \cup Comment \cup {None} : SetInnerHTML(p, e, x) => DomInv'
<1>1. Now \in Good /\ currentTaskId \in Task /\ Now.born = born /\ born \subseteq Node
  BY NowFacts
<1>2. ASSUME NEW p \in born, SetTextContent(p) PROVE DomInv'
  <2>1. Emptied(Now, p) \in Good
    BY <1>1, EmptiedGood DEF InUse
  <2> QED
    BY <1>1, <1>2, <2>1, BecomesGood DEF SetTextContent
<1>3. ASSUME NEW p \in born \cap Elements PROVE Touch(Now, p) \in Good /\ Touch(Now, p).born = born
  BY <1>1, TouchGood
<1>4. ASSUME NEW p \in born \cap Elements, TouchElement(p) PROVE DomInv'
  BY <1>1, <1>3, <1>4, BecomesGood DEF TouchElement
<1>5. ASSUME NEW p \in born \cap Elements, NEW e \in Element \cup {None},
             NEW x \in Text \cup Comment \cup {None}, SetInnerHTML(p, e, x)
      PROVE  DomInv'
  <2> DEFINE s0 == Touch(Now, p)
             s == Emptied(s0, p)
             t == Create(s, e, s.owner[p])
             s1 == IF e = None THEN s ELSE AppendTo(t, p, e).s
  <2>0. /\ e \in Unborn(Now, Element) \cup {None}
        /\ x \in Unborn(Now, Text \cup Comment) \cup {None}
        /\ Becomes(IF x = None THEN s1 ELSE AppendText(s1, p, x))
    BY <1>5 DEF SetInnerHTML
  <2> HIDE DEF s0
  <2>1. s0 \in Good /\ s0.born = born
    BY <1>3 DEF s0
  <2>2. s \in Good /\ s.born = born
    BY <2>1, EmptiedGood DEF InUse
  <2> HIDE DEF s
  <2>3. s1 \in Good /\ born \subseteq s1.born /\ s1.born \subseteq born \cup Element
    <3>1. CASE e = None
      BY <2>2, <3>1
    <3>2. CASE e # None
      <4>1. e \in Elements \ s.born /\ e \in Element
        BY <1>1, <2>0, <2>2, <3>2 DEF Unborn, Elements
      <4>2. s.owner[p] \in Holder \cup {None}
        BY <1>1, <2>2, GoodIs, StateTyped
      <4>3. t \in Good /\ t.born = born \cup {e}
        BY <1>1, <2>2, <4>1, <4>2, CreateGood
      <4>4. s1 = AppendTo(t, p, e).s
        BY <3>2
      <4> HIDE DEF t, s1
      <4>5. AppendTo(t, p, e) \in Results(t)
        BY <1>1, <4>3, AppendToGood DEF InUse
      <4> QED
        BY <4>1, <4>3, <4>4, <4>5 DEF Results
    <3> QED
      BY <3>1, <3>2
  <2> HIDE DEF s1
  <2>4. CASE x = None
    BY <1>1, <2>0, <2>3, <2>4, BecomesGood
  <2>5. CASE x # None
    <3>1. x \in (Text \cup Comment) \ s1.born
      BY <1>1, <2>0, <2>3, <2>5, NodeAssumption DEF Unborn
    <3>2. AppendText(s1, p, x) \in Good
      BY <1>1, <2>3, <3>1, AppendTextGood
    <3> QED
      BY <1>1, <2>0, <2>5, <3>2, BecomesGood
  <2> QED
    BY <2>4, <2>5
<1> QED
  BY <1>2, <1>4, <1>5

LEMMA CreationCalls ==
  ASSUME DomInv
  PROVE  /\ \A d \in born \cap Document, n \in Element : CreateElement(d, n) => DomInv'
         /\ \A d \in born \cap Document, n \in Text \cup Comment : CreateText(d, n) => DomInv'
         /\ \A d \in born \cap Document, n \in Fragment : CreateDocumentFragment(d, n) => DomInv'
         /\ \A n \in born, c \in Node : CloneNode(n, c) => DomInv'
<1>1. Now \in Good /\ currentTaskId \in Task /\ Now.born = born
  BY NowFacts
<1>2. ASSUME NEW d \in born \cap Document, NEW n \in Element, CreateElement(d, n) PROVE DomInv'
  <2>1. n \in Elements \ Now.born /\ Becomes(Create(Now, n, d))
    BY <1>2 DEF CreateElement, Unborn
  <2>2. Create(Now, n, d) \in Good
    BY <1>1, <2>1, CreateGood, KindFacts
  <2> QED
    BY <1>1, <2>1, <2>2, BecomesGood
<1>3. ASSUME NEW d \in born \cap Document, NEW n \in Text \cup Comment, CreateText(d, n)
      PROVE  DomInv'
  <2> DEFINE s == Register(Now, d)
  <2>0. d \in Holder /\ s = RegisterOwner(Now, d)
    BY KindFacts DEF RegisterOwner
  <2>1. s \in Good /\ s.born = born
    BY <1>1, <2>0, RegisterGood
  <2>2. n \notin born /\ Becomes(Named(s, n, d))
    BY <1>1, <1>3 DEF CreateText, Unborn, Named
  <2> HIDE DEF s
  <2>3. n \in Node \ (Document \cup s.born) /\ n \notin Elements
    BY <2>1, <2>2, NodeAssumption DEF Node, Elements
  <2>4. Named(s, n, d) \in Good
    BY <2>0, <2>1, <2>3, NamedGood
  <2> QED
    BY <1>1, <2>2, <2>4, BecomesGood
<1>4. ASSUME NEW d \in born \cap Document, NEW n \in Fragment, CreateDocumentFragment(d, n)
      PROVE  DomInv'
  <2>1. n \notin born /\ Becomes(Named(Now, n, d))
    BY <1>1, <1>4 DEF CreateDocumentFragment, Unborn, Named
  <2>2. n \in Node \ (Document \cup Now.born) /\ n \notin Elements
    BY <1>1, <2>1, KindFacts
  <2>3. Named(Now, n, d) \in Good
    BY <1>1, <2>2, NamedGood, KindFacts
  <2> QED
    BY <1>1, <2>1, <2>3, BecomesGood
<1>5. ASSUME NEW c \in Node, NEW n, CloneNode(n, c) PROVE DomInv'
  <2> DEFINE s == NewBorn(Now, c)
             r == [Now EXCEPT !.born = @ \cup {c},
                              !.turned = @ \cup (IF n \in @ THEN {c} ELSE {})]
  <2>1. /\ Becomes(r) /\ c \in Node
        /\ n \in Elements => c \in Elements
    BY <1>5, KindFacts, NodeAssumption DEF CloneNode, Unborn, Elements
  <2>2. s \in Good /\ s \in States /\ Now \in States
    BY <1>1, NewBornGood, GoodIs
  <2>3. n \in Now.turned => c \in Elements
    BY <2>1, <2>2, StateTyped
  <2>4. /\ r \in States /\ r.born = s.born /\ r.parent = s.parent /\ r.kids = s.kids
        /\ r.owner = s.owner /\ r.owned = s.owned /\ r.intact = s.intact
        /\ r.live = s.live /\ r.taskOf = s.taskOf /\ r.primary = s.primary
    BY <2>2, <2>3 DEF NewBorn, States
  <2> HIDE DEF r, s
  <2>5. r \in Good
    <3>1. Registered(s) /\ Grounded(s) /\ (s.intact => Sound(s))
      BY <2>2, GoodIs
    <3>2. Registered(r) /\ Grounded(r) /\ (r.intact => Sound(r))
      BY <2>4, <3>1, SameSound, SameRegistered DEF Grounded
    <3> QED
      BY <2>4, <3>2 DEF Good
  <2> QED
    BY <1>1, <2>1, <2>5, BecomesGood
<1> QED
  BY <1>2, <1>3, <1>4, <1>5

LEMMA DocumentCalls ==
  ASSUME DomInv, NEW d \in Document
  PROVE  /\ \A h \in Html : GetOrCreateTaskDocument(d, h) => DomInv'
         /\ \A e \in Elements \cup {None} : ParseHTMLUnsafe(d, e) => DomInv'
<1>1. Now \in Good /\ currentTaskId \in Task /\ Now.born = born
  BY NowFacts
<1> DEFINE n == NewBorn(Now, d)
<1>2. n \in Good /\ n.born = born \cup {d}
  BY <1>1, KindFacts, NewBornGood
<1>3. n = [Now EXCEPT !.born = @ \cup {d}]
  BY DEF NewBorn
<1>4. ASSUME NEW h \in Html, GetOrCreateTaskDocument(d, h) PROVE DomInv'
  <2>1. h \in Html /\ h \notin born
    BY <1>1, <1>4 DEF GetOrCreateTaskDocument, Unborn
  <2>2. CASE primary[currentTaskId] \in live
    <3>1. Becomes(DefaultTree(Now, d, h))
      BY <1>4, <2>2 DEF GetOrCreateTaskDocument
    <3>2. DefaultTree(Now, d, h) \in Good
      BY <1>1, <2>1, DefaultTreeGood
    <3> QED
      BY <1>1, <3>1, <3>2, BecomesGood
  <2>3. CASE primary[currentTaskId] \notin live
    <3>1. Becomes(DefaultTree(n, d, h))
      BY <1>3, <1>4, <2>3 DEF GetOrCreateTaskDocument
    <3> HIDE DEF n
    <3>2. h \notin n.born
      BY <1>2, <2>1, NodeAssumption DEF Node, Elements
    <3>3. DefaultTree(n, d, h) \in Good
      BY <1>1, <1>2, <2>1, <3>2, DefaultTreeGood
    <3> QED
      BY <1>1, <3>1, <3>3, BecomesGood
  <2> QED
    BY <2>2, <2>3
<1>5. ASSUME NEW e \in Elements \cup {None}, ParseHTMLUnsafe(d, e) PROVE DomInv'
  <2> DEFINE q == Register(n, d)
             s == ClearDocument(q, d)
             t == Create(s, e, d)
  <2>0. \/ Becomes(s)
        \/ e \in Elements \ born /\ Becomes(AppendTo(t, d, e).s)
    BY <1>1, <1>3, <1>5 DEF ParseHTMLUnsafe, Unborn
  <2> HIDE DEF n
  <2>1. q \in Good /\ q.born = born \cup {d}
    <3>1. d \in Holder /\ q = RegisterOwner(n, d)
      BY KindFacts DEF RegisterOwner
    <3> HIDE DEF q
    <3> QED
      BY <1>1, <1>2, <3>1, RegisterGood
  <2> HIDE DEF q
  <2>2. s \in Good /\ s.born = born \cup {d}
    BY <2>1, ClearGood
  <2> HIDE DEF s
  <2>3. CASE Becomes(s)
    BY <1>1, <2>2, <2>3, BecomesGood
  <2>4. CASE e \in Elements \ born /\ Becomes(AppendTo(t, d, e).s)
    <3>1. e \in Elements \ s.born /\ d \in Holder \cup {None}
      BY <2>2, <2>4, KindFacts
    <3>2. t \in Good /\ t.born = s.born \cup {e}
      BY <1>1, <2>2, <3>1, CreateGood
    <3> HIDE DEF t
    <3>3. AppendTo(t, d, e) \in Results(t)
      BY <1>1, <3>2, AppendToGood DEF InUse
    <3> QED
      BY <1>1, <2>4, <3>3, BecomesResult
  <2> QED
    BY <2>0, <2>3, <2>4
<1> QED
  BY <1>4, <1>5

-----------------------------------------------------------------------------
(* The end of the scopes whose documents are D: what they own, C, is cleared. *)
Cleared(s, D) == UNION {s.owned[d] : d \in D}
Released(s, r, D, C) ==
  /\ r.born = s.born /\ r.live = s.live \ D /\ r.taskOf = s.taskOf
  /\ \A n \in Node :
       /\ r.parent[n] = IF n \in C \cup D THEN None ELSE s.parent[n]
       /\ r.kids[n] = IF n \in C \cup D THEN <<>> ELSE s.kids[n]
       /\ r.owner[n] = IF n \in C THEN None ELSE s.owner[n]
  /\ \A d \in Holder : r.owned[d] = IF d \in D THEN {} ELSE s.owned[d]
  /\ \A t \in Task : r.primary[t] = IF s.primary[t] \in D THEN None ELSE s.primary[t]
  /\ r.intact => s.intact /\ \A n \in Node \ (C \cup D) : Kids(s, n) \cap C = {}

LEMMA ScopesTyped ==
  ASSUME NEW s \in States, NEW D \in SUBSET Document
  PROVE  LET r == ReleaseAll(s, D)
         IN  r \in States /\ r.hung = s.hung /\ Released(s, r, D, Cleared(s, D))
<1> DEFINE C == Cleared(s, D)
           parent1 == [n \in Node |-> IF n \in C \cup D THEN None ELSE s.parent[n]]
           kids1 == [n \in Node |-> IF n \in C \cup D THEN <<>> ELSE s.kids[n]]
           owner1 == [n \in Node |-> IF n \in C THEN None ELSE s.owner[n]]
           owned1 == [d \in Holder |-> IF d \in D THEN {} ELSE s.owned[d]]
           primary1 == [t \in Task |-> IF s.primary[t] \in D THEN None ELSE s.primary[t]]
           intact1 == s.intact /\ \A n \in Node \ (C \cup D) : Kids(s, n) \cap C = {}
           r == ReleaseAll(s, D)
<1>1. /\ parent1 \in [Node -> Parents \cup {None}] /\ kids1 \in [Node -> Seq(Node)]
      /\ owner1 \in [Node -> Holder \cup {None}] /\ owned1 \in [Holder -> SUBSET Node]
      /\ primary1 \in [Task -> Holder \cup {None}] /\ intact1 \in BOOLEAN
  <2> HIDE DEF C
  <2>1. <<>> \in Seq(Node)
    OBVIOUS
  <2> QED
    BY <2>1, StateTyped
<1>2. r = [s EXCEPT !.parent = parent1, !.kids = kids1, !.owner = owner1, !.owned = owned1,
                    !.live = @ \ D, !.primary = primary1, !.intact = intact1]
  BY DEF ReleaseAll, Cleared, Kids
<1>3. /\ \A n \in Node :
           /\ parent1[n] = IF n \in C \cup D THEN None ELSE s.parent[n]
           /\ kids1[n] = IF n \in C \cup D THEN <<>> ELSE s.kids[n]
           /\ owner1[n] = IF n \in C THEN None ELSE s.owner[n]
      /\ \A d \in Holder : owned1[d] = IF d \in D THEN {} ELSE s.owned[d]
      /\ \A t \in Task : primary1[t] = IF s.primary[t] \in D THEN None ELSE s.primary[t]
      /\ intact1 => s.intact /\ \A n \in Node \ (C \cup D) : Kids(s, n) \cap C = {}
  OBVIOUS
<1> HIDE DEF C, parent1, kids1, owner1, owned1, primary1, intact1, r
<1>4. /\ r.born = s.born /\ r.parent = parent1 /\ r.kids = kids1 /\ r.owner = owner1
      /\ r.owned = owned1 /\ r.live = s.live \ D /\ r.taskOf = s.taskOf
      /\ r.primary = primary1 /\ r.intact = intact1 /\ r.hung = s.hung
  BY <1>2 DEF States
<1>5. r \in States
  BY <1>1, <1>2 DEF States
<1>6. Released(s, r, D, C)
  BY <1>3, <1>4 DEF Released
<1> QED
  BY <1>4, <1>5, <1>6 DEF r, C

LEMMA ScopesSound ==
  ASSUME NEW s \in States, Sound(s), NEW D \in SUBSET Document,
         NEW r \in States, Released(s, r, D, Cleared(s, D)), r.intact
  PROVE  Sound(r)
<1> DEFINE C == Cleared(s, D)
           X == C \cup D
<1>1. \A n \in Node : n \in C <=> \E d \in D : n \in s.owned[d]
  BY DEF Cleared
<1>2. /\ r.born = s.born /\ r.live = s.live \ D
      /\ \A n \in Node :
           /\ r.parent[n] = IF n \in X THEN None ELSE s.parent[n]
           /\ r.kids[n] = IF n \in X THEN <<>> ELSE s.kids[n]
           /\ r.owner[n] = IF n \in C THEN None ELSE s.owner[n]
      /\ \A d \in Holder : r.owned[d] = IF d \in D THEN {} ELSE s.owned[d]
      /\ \A n \in Node \ X : Kids(s, n) \cap C = {}
  BY DEF Released
<1> HIDE DEF C
<1>3. /\ \A n \in Node : s.parent[n] \in Node \cup {None}
      /\ \A n \in Node : s.owner[n] \in Holder \cup {None}
      /\ \A q \in Node : Kids(s, q) \subseteq Node
      /\ \A d \in Holder : s.owned[d] \subseteq Node
      /\ D \subseteq Holder
  BY StateTyped, KidsTyped, KindFacts
\* What is owned by an ending document names it.
<1>4. \A n \in C \cap Node : s.owner[n] \in D /\ n \notin Document
  <2>1. ASSUME NEW n \in C \cap Node PROVE s.owner[n] \in D /\ n \notin Document
    <3>1. PICK d \in D : n \in s.owned[d]
      BY <1>1
    <3>2. s.owner[n] = d /\ d # None
      BY <3>1, KindFacts DEF Sound, OwnedBy
    <3> QED
      BY <3>2 DEF Sound, Linked, Rooted
  <2> QED
    BY <2>1
\* The children of what loses its children are those that lose their parent.
<1>5. ASSUME NEW p \in Node, NEW c \in Kids(s, p)
      PROVE  /\ p \in X <=> c \in C
             /\ c \in Node /\ c \notin Document \cup Fragment /\ s.parent[c] = p
             /\ Inherits(s, p, c)
  <2>1. c \in Node /\ s.parent[c] = p /\ p # None
    BY <1>3, KindFacts DEF Sound, Linked, KidsNamed
  <2>2. c \notin Document \cup Fragment
    BY <2>1 DEF Sound, Linked, Rooted
  <2>3. Inherits(s, p, c)
    BY DEF Sound, KidsOwned
  <2>4. ASSUME p \in X PROVE c \in C
    <3>1. s.owner[c] \in D
      <4>1. CASE p \in D
        BY <2>3, <4>1 DEF Inherits, OwnerOf
      <4>2. CASE p \in C
        BY <1>4, <2>3, <4>2 DEF Inherits, OwnerOf
      <4> QED
        BY <2>4, <4>1, <4>2
    <3>2. c \in s.owned[s.owner[c]]
      BY <2>3, <3>1, KindFacts DEF Inherits
    <3> QED
      BY <1>1, <2>1, <3>1, <3>2
  <2>5. ASSUME c \in C PROVE p \in X
    BY <1>2, <2>5
  <2> QED
    BY <2>1, <2>2, <2>3, <2>4, <2>5
<1>6. \A q \in Node : Kids(r, q) = IF q \in X THEN {} ELSE Kids(s, q)
  <2>1. ToSet(<<>>) = {}
    BY DEF ToSet
  <2> HIDE DEF X
  <2> QED
    BY <1>2, <2>1 DEF Kids
<1>7. Linked(r)
  <2>1. ASSUME NEW n \in Node, r.parent[n] # None PROVE n \in Kids(r, r.parent[n])
    <3>1. n \notin X /\ r.parent[n] = s.parent[n] /\ s.parent[n] \in Node
      BY <1>2, <1>3, <2>1
    <3>2. n \in Kids(s, s.parent[n])
      BY <2>1, <3>1 DEF Sound, Linked, ParentsList
    <3> QED
      BY <1>5, <1>6, <3>1, <3>2
  <2>2. ASSUME NEW p \in Node, NEW c \in Kids(r, p) PROVE r.parent[c] = p
    <3>1. p \notin X /\ c \in Kids(s, p)
      BY <1>6, <2>2
    <3>2. c \in Node /\ c \notin X /\ s.parent[c] = p
      BY <1>5, <3>1
    <3> QED
      BY <1>2, <3>2
  <2> HIDE DEF X
  <2>3. Once(r)
    BY <1>2 DEF Sound, Linked, Once, IsInjective
  <2>4. Grounded(r)
    BY <1>2, LessGrounded DEF Sound, Linked
  <2>5. Rooted(r)
    BY <1>2, KindFacts DEF Sound, Linked, Rooted
  <2> QED
    BY <2>1, <2>2, <2>3, <2>4, <2>5 DEF Linked, ParentsList, KidsNamed
<1>8. Unused(r)
  BY <1>2 DEF Sound, Unused, InUse
<1>9. OwnedBy(r)
  <2> SUFFICES ASSUME NEW d \in Holder, NEW n \in r.owned[d] PROVE r.owner[n] = d
    BY DEF OwnedBy
  <2>1. d \notin D /\ n \in s.owned[d]
    BY <1>2
  <2>2. n \in Node /\ s.owner[n] = d
    BY <1>3, <2>1 DEF Sound, OwnedBy
  <2>3. n \notin C
    BY <1>4, <2>1, <2>2
  <2> QED
    BY <1>2, <2>2, <2>3
\* What keeps its owner keeps its place in the owner's list.
<1>10. ASSUME NEW n \in Node, s.owner[n] # None => n \in s.owned[s.owner[n]], r.owner[n] # None
       PROVE  n \in r.owned[r.owner[n]]
  <2>1. n \notin C /\ r.owner[n] = s.owner[n] /\ s.owner[n] \in Holder
    BY <1>2, <1>3, <1>10
  <2>2. s.owner[n] \notin D
    BY <1>1, <1>10, <2>1
  <2> QED
    BY <1>2, <1>10, <2>1, <2>2
<1>11. ElementsOwned(r)
  BY <1>10, KindFacts DEF Sound, ElementsOwned
<1>12. OnlyLive(r) /\ r.live \subseteq Document
  BY <1>2 DEF Sound, OnlyLive
<1>13. KidsOwned(r)
  <2> SUFFICES ASSUME NEW p \in Node, NEW c \in Kids(r, p) PROVE Inherits(r, p, c)
    BY DEF KidsOwned
  <2>1. p \notin X /\ c \in Kids(s, p)
    BY <1>6
  <2>2. c \in Node /\ c \notin C /\ Inherits(s, p, c)
    BY <1>5, <2>1
  <2>3. r.owner[c] = s.owner[c] /\ r.owner[p] = s.owner[p]
    BY <1>2, <2>1, <2>2
  <2>4. r.owner[c] # None => c \in r.owned[r.owner[c]]
    BY <1>10, <2>2 DEF Inherits
  <2> QED
    BY <2>2, <2>3, <2>4 DEF Inherits, OwnerOf
<1> QED
  BY <1>7, <1>8, <1>9, <1>11, <1>12, <1>13 DEF Sound

LEMMA ScopesGood ==
  ASSUME DomInv, NEW T, NEW t \in Task, EndScopes(T, t),
         \A d \in live : taskOf[d] \notin T => taskOf[d] = t
  PROVE  DomInv'
<1> DEFINE D == DocumentsOf(T)
           r == ReleaseAll(Now, D)
<1>1. Now \in States /\ Registered(Now) /\ Grounded(Now) /\ (intact => Sound(Now))
  BY DEF DomInv
<1>2. D \subseteq Document /\ \A d \in live \ D : taskOf[d] = t
  BY DEF DocumentsOf, EndScopes, Running
<1>3. /\ born' = r.born /\ turned' = r.turned /\ parent' = r.parent /\ kids' = r.kids
      /\ owner' = r.owner /\ owned' = r.owned /\ live' = r.live /\ intact' = r.intact
      /\ primary' = r.primary /\ currentTaskId' = t /\ taskOf' = taskOf
  BY DEF EndScopes
<1> HIDE DEF D
<1>4. r \in States /\ r.hung = Now.hung /\ Released(Now, r, D, Cleared(Now, D))
  BY <1>1, <1>2, ScopesTyped
<1> HIDE DEF r
<1>5. /\ r.taskOf = taskOf /\ r.live = live \ D /\ r.hung = FALSE
      /\ \A u \in Task : r.primary[u] = IF primary[u] \in D THEN None ELSE primary[u]
      /\ \A n \in Node : r.parent[n] \in {None, Now.parent[n]}
      /\ r.intact => intact
  BY <1>4 DEF Released, Now
<1>6. Now' = r
  BY <1>3, <1>4, <1>5 DEF Now, States
<1>7. Registered(Now)'
  <2>1. \A d \in r.live : r.taskOf[d] = t
    BY <1>2, <1>5
  <2>2. \A u \in Task : r.primary[u] # None => r.primary[u] \in r.live /\ r.taskOf[r.primary[u]] = u
    BY <1>1, <1>5 DEF Registered, Now
  <2> QED
    BY <1>3, <1>6, <2>1, <2>2 DEF Registered
<1>8. Grounded(r)
  BY <1>1, <1>5, LessGrounded
<1>9. ASSUME r.intact PROVE Sound(r)
  BY <1>1, <1>2, <1>4, <1>5, <1>9, ScopesSound
<1>10. Grounded(Now)' /\ (intact' => Sound(Now)')
  BY <1>3, <1>6, <1>8, <1>9 DEF Sound, Linked, ParentsList, KidsNamed, Once, Grounded, Rooted,
     Kids, Unused, OwnedBy, KidsOwned, InUse, Inherits, OwnerOf, ElementsOwned, OnlyLive
<1> QED
  BY <1>3, <1>4, <1>6, <1>7, <1>10 DEF DomInv, States

LEMMA ScopeCalls ==
  ASSUME DomInv, NEW t \in Task
  PROVE  (BeginTaskScope(t) => DomInv') /\ (EndTaskScope(t) => DomInv')
<1>1. \A d \in live : taskOf[d] = currentTaskId
  BY DEF DomInv, Registered, Now
<1>2. currentTaskId \in Task
  BY DEF DomInv
<1>3. ASSUME BeginTaskScope(t) PROVE DomInv'
  <2>1. \A d \in live : taskOf[d] \notin Task \ {t} => taskOf[d] = t
    BY <1>1, <1>2
  <2> QED
    BY <1>3, <2>1, ScopesGood DEF BeginTaskScope
<1>4. ASSUME EndTaskScope(t) PROVE DomInv'
  <2> DEFINE n == IF currentTaskId = t THEN DefaultTask ELSE currentTaskId
  <2>1. n \in Task
    BY <1>2, TaskAssumption
  <2>2. \A d \in live : taskOf[d] \notin {t} => taskOf[d] = n
    BY <1>1
  <2>3. EndScopes({t}, n)
    BY <1>4 DEF EndTaskScope
  <2> HIDE DEF n
  <2> QED
    BY <2>1, <2>2, <2>3, ScopesGood
<1> QED
  BY <1>3, <1>4

-----------------------------------------------------------------------------
LEMMA DomInit == Init => DomInv
<1> SUFFICES ASSUME Init PROVE DomInv
  OBVIOUS
<1>1. <<>> \in Seq(Node)
  OBVIOUS
<1>2. currentTaskId \in Task
  BY TaskAssumption DEF Init
<1>3. Now \in States
  BY <1>1 DEF Init, Now, States
<1>4. Registered(Now)
  BY DEF Init, Now, Registered
<1>5. /\ \A n \in Node : Now.parent[n] = None /\ Now.kids[n] = <<>> /\ Now.owner[n] = None
      /\ \A d \in Holder : Now.owned[d] = {}
      /\ Now.live = {}
  BY DEF Init, Now
<1>6. \A n \in Node : Kids(Now, n) = {}
  BY <1>5 DEF Kids, ToSet
<1>7. Grounded(Now)
  BY <1>5, KindFacts DEF Grounded
<1>8. Linked(Now)
  <2>1. Once(Now)
    BY <1>5 DEF Once, IsInjective
  <2>2. Rooted(Now)
    BY <1>5, KindFacts DEF Rooted
  <2> QED
    BY <1>5, <1>6, <1>7, <2>1, <2>2 DEF Linked, ParentsList, KidsNamed
<1>9. Unused(Now) /\ Now.live \subseteq Document
  BY <1>5 DEF Unused
<1>10. OwnedBy(Now) /\ ElementsOwned(Now) /\ OnlyLive(Now)
  BY <1>5, KindFacts DEF OwnedBy, ElementsOwned, OnlyLive
<1>11. KidsOwned(Now)
  BY <1>6 DEF KidsOwned
<1> QED
  BY <1>2, <1>3, <1>4, <1>7, <1>8, <1>9, <1>10, <1>11 DEF DomInv, Sound

LEMMA DomStep == DomInv /\ [Next]_vars => DomInv'
<1> SUFFICES ASSUME DomInv, [Next]_vars PROVE DomInv'
  OBVIOUS
<1>1. CASE UNCHANGED vars
  <2>1. Now' = Now /\ currentTaskId' = currentTaskId
    BY <1>1 DEF vars, Now
  <2>2. Now \in Good /\ currentTaskId \in Task
    BY NowFacts
  <2> QED
    BY <2>1, <2>2, NextState
<1>2. ASSUME NEW p \in born \cap Parents,
             \/ \E c \in born : AppendChild(p, c)
             \/ \E c \in ToSet(kids[p]) : RemoveChild(p, c)
             \/ \E c \in born, b \in ToSet(kids[p]) :
                  InsertBefore(p, c, b) \/ ReplaceChild(p, c, b)
      PROVE  DomInv'
  BY <1>2, TreeCalls
<1>3. ASSUME NEW p \in born, SetTextContent(p) PROVE DomInv'
  BY <1>3, TextCalls
<1>4. ASSUME NEW p \in born \cap Elements,
             \/ TouchElement(p)
             \/ \E e \in Element \cup {None}, x \in Text \cup Comment \cup {None} :
                  SetInnerHTML(p, e, x)
      PROVE  DomInv'
  BY <1>4, TextCalls
<1>5. ASSUME NEW d \in born \cap Document,
             \/ \E n \in Element : CreateElement(d, n)
             \/ \E n \in Text \cup Comment : CreateText(d, n)
             \/ \E n \in Fragment : CreateDocumentFragment(d, n)
      PROVE  DomInv'
  BY <1>5, CreationCalls
<1>6. ASSUME NEW n \in born, NEW c \in Node, CloneNode(n, c) PROVE DomInv'
  BY <1>6, CreationCalls
<1>7. ASSUME NEW d \in Document,
             \/ \E h \in Html : GetOrCreateTaskDocument(d, h)
             \/ \E e \in Elements \cup {None} : ParseHTMLUnsafe(d, e)
      PROVE  DomInv'
  BY <1>7, DocumentCalls
<1>8. ASSUME NEW t \in Task, BeginTaskScope(t) \/ EndTaskScope(t) PROVE DomInv'
  BY <1>8, ScopeCalls
<1>9. Ended => UNCHANGED vars
  BY DEF Ended
<1> QED
  BY <1>1, <1>2, <1>3, <1>4, <1>5, <1>6, <1>7, <1>8, <1>9 DEF Next

(* In every state, whatever nodes the scripts keep, the variables have their *)
(* types, the registered documents are the current task's, no node is its    *)
(* own ancestor, and until one of the three calls TreeLinks names, childNodes *)
(* and parentNode agree and owners own what names them.                      *)
THEOREM DomInvariant == Spec => []DomInv
<1>1. Init => DomInv
  BY DomInit
<1>2. DomInv /\ [Next]_vars => DomInv'
  BY DomStep
<1> QED
  BY <1>1, <1>2, PTL DEF Spec

(* Every call leaves the variables in their types: what parentNode names can *)
(* have children, what ownerDocument and window.document name can hold the   *)
(* state of a document, only elements change their nodeType, and the current *)
(* task has an id, after endTaskScope too.                                   *)
THEOREM DomTyped == Spec => []TypeOK
<1>1. DomInv => TypeOK
  BY DEF DomInv, TypeOK, Now, States
<1> QED
  BY <1>1, DomInvariant, PTL

(* The registered documents are the current task's, and every primary        *)
(* document is registered for its task: releaseStaleTaskScopes and           *)
(* releaseTaskScope leave no document of another task behind, whichever      *)
(* document a script that kept a node of an old task registers anew.         *)
THEOREM DomOneTask == Spec => []OneTask
<1>1. DomInv => OneTask
  BY DEF DomInv, Registered, OneTask, Now
<1> QED
  BY <1>1, DomInvariant, PTL

-----------------------------------------------------------------------------
(* S and the nodes whose parent is in it.                                    *)
OneMore(S) == S \cup {n \in Node : parent[n] \in S}

(* A walk along parentNode ends, in a damaged tree too: appendChild and       *)
(* insertBefore refuse an ancestor, and no other call gives a node a parent. *)
THEOREM DomWalksEnd == Spec => []WalksEnd
<1>1. ASSUME DomInv PROVE WalksEnd
  <2> DEFINE N == Cardinality(Node)
             Z == {n \in Node : parent[n] = None}
             G(g) == [k \in 0 .. Cardinality(Node) |->
                        IF k = 0 THEN {n \in Node : parent[n] = None}
                        ELSE LET S == g[k-1] IN S \cup {n \in Node : parent[n] \in S}]
             F == [k \in 1 .. N |-> [X \in SUBSET Node |-> OneMore(X)]]
  <2>1. N \in Nat /\ IsFiniteSet(Node)
    BY SizeOfTree
  <2>2. F \in [1 .. N -> [SUBSET Node -> SUBSET Node]]
    BY DEF OneMore
  <2>3. PICK g \in [0 .. N -> SUBSET Node] : Iterates(g, N, Z, F)
    <3>1. Z \in SUBSET Node
      OBVIOUS
    <3> HIDE DEF F, N, Z
    <3> QED
      BY <2>1, <2>2, <3>1, Recursion
  <2>4. g = G(g)
    <3>1. ASSUME NEW j \in 0 .. Cardinality(Node) PROVE g[j] = G(g)[j]
      <4>1. CASE j = 0
        BY <4>1, <2>3 DEF Iterates
      <4>2. CASE j # 0
        <5>1. j \in 1 .. N /\ j - 1 \in 0 .. N
          BY <2>1, <4>2
        <5>2. g[j] = F[j][g[j - 1]] /\ g[j - 1] \in SUBSET Node
          <6> HIDE DEF N, F
          <6> QED
            BY <2>3, <5>1 DEF Iterates
        <5>3. F[j][g[j - 1]] = OneMore(g[j - 1])
          BY <5>1, <5>2
        <5> QED
          BY <4>2, <5>2, <5>3 DEF OneMore
      <4> QED
        BY <4>1, <4>2
    <3>2. g = [j \in 0 .. Cardinality(Node) |-> g[j]]
      BY <2>3
    <3> QED
      BY <3>1, <3>2
  <2> DEFINE h == CHOOSE h : h = G(h)
  <2>5. h = G(h)
    BY <2>4
  <2>6. WalksEnd <=> h[N] = Node
    BY DEF WalksEnd
  <2> HIDE DEF h
  <2>7. h[0] = Z
    BY <2>1, <2>5
  <2>8. ASSUME NEW k \in 1 .. N PROVE h[k] = OneMore(h[k - 1])
    <3>1. k \in 0 .. Cardinality(Node) /\ k # 0
      BY <2>1
    <3> QED
      BY <2>5, <3>1 DEF OneMore
  <2>9. \A U \in SUBSET Node : (\A m \in U : parent[m] \in U) => U = {}
    BY <1>1 DEF DomInv, Grounded, Now
  <2>10. parent \in [Node -> Node \cup {None}] /\ None \notin Node
    BY <1>1, KindFacts DEF DomInv, Now, States
  \* While a walk from some node has not ended, one more ends with each step.
  <2>11. ASSUME NEW S \in SUBSET Node, Z \subseteq S, S # Node
         PROVE  \E m \in Node \ S : m \in OneMore(S)
    <3>1. Node \ S # {} /\ Node \ S \in SUBSET Node
      BY <2>11
    <3>2. PICK m \in Node \ S : parent[m] \notin Node \ S
      BY <2>9, <3>1
    <3>3. parent[m] \in S
      BY <2>10, <2>11, <3>2
    <3> QED
      BY <3>2, <3>3 DEF OneMore
  <2> DEFINE D == {k \in 0 .. N : /\ h[k] \subseteq Node /\ Z \subseteq h[k]
                                  /\ h[k] = Node \/ Cardinality(h[k]) >= k}
  <2>12. 0 \in D
    <3>1. IsFiniteSet(Z)
      BY <2>1, FS_Subset
    <3>2. Cardinality(Z) \in Nat
      BY <3>1, FS_CardinalityType
    <3> HIDE DEF N, Z
    <3>3. Z \subseteq Node
      BY DEF Z
    <3> QED
      BY <2>1, <2>7, <3>2, <3>3
  <2>13. ASSUME NEW k \in 1 .. N, k - 1 \in D PROVE k \in D
    <3> DEFINE S == h[k - 1]
    <3>1. S \subseteq Node /\ Z \subseteq S /\ (S = Node \/ Cardinality(S) >= k - 1)
      BY <2>13
    <3>2. h[k] = OneMore(S) /\ k \in 0 .. N /\ k \in Nat
      BY <2>1, <2>8
    <3> HIDE DEF S, Z, N
    <3>3. h[k] \subseteq Node /\ S \subseteq h[k]
      BY <3>1, <3>2 DEF OneMore
    <3>4. CASE S = Node
      BY <3>1, <3>2, <3>3, <3>4
    <3>5. CASE S # Node /\ Cardinality(S) >= k - 1
      <4>1. PICK m \in Node \ S : m \in h[k]
        BY <2>11, <3>1, <3>2, <3>5
      <4>2. IsFiniteSet(S) /\ IsFiniteSet(h[k])
        BY <2>1, <3>1, <3>3, FS_Subset
      <4>3. Cardinality(S \cup {m}) = Cardinality(S) + 1
        BY <4>1, <4>2, FS_AddElement
      <4>4. Cardinality(S \cup {m}) <= Cardinality(h[k])
        BY <3>3, <4>1, <4>2, FS_Subset
      <4>5. Cardinality(S) \in Nat /\ Cardinality(h[k]) \in Nat
        BY <4>2, FS_CardinalityType
      <4>6. Cardinality(h[k]) >= k
        BY <3>2, <3>5, <4>3, <4>4, <4>5
      <4> QED
        BY <3>1, <3>2, <3>3, <4>6
    <3> QED
      BY <3>1, <3>4, <3>5
  <2>14. \A k \in 1 .. N : k - 1 \in D => k \in D
    BY <2>13
  <2>15. N \in D
    <3> HIDE DEF D, N
    <3> QED
      BY <2>1, <2>12, <2>14, SetInduction
  <2>16. h[N] = Node
    <3>1. h[N] \subseteq Node /\ (h[N] = Node \/ Cardinality(h[N]) >= N)
      BY <2>15
    <3> HIDE DEF h
    <3>2. Cardinality(h[N]) <= Cardinality(Node) /\ Cardinality(h[N]) \in Nat
          /\ (Cardinality(h[N]) = Cardinality(Node) => h[N] = Node)
      BY <2>1, <3>1, FS_Subset, FS_CardinalityType
    <3> QED
      BY <2>1, <3>1, <3>2
  <2> QED
    BY <2>6, <2>16
<1> QED
  BY <1>1, DomInvariant, PTL

LEMMA SoundNow ==
  ASSUME intact, DomInv
  PROVE  /\ Sound(Now) /\ Now \in States
         /\ Now.parent = parent /\ Now.kids = kids /\ Now.owner = owner /\ Now.owned = owned
         /\ \A p \in Node : Kids(Now, p) = ToSet(kids[p])
  BY DEF DomInv, Now, Kids

(* What is below a node, and not that node, has its parent below it too.     *)
LEMMA BelowFacts ==
  ASSUME NEW s \in States, Linked(s), NEW n \in Node
  PROVE  /\ n \in Subtree(s, n) /\ Subtree(s, n) \subseteq Node
         /\ \A m \in Subtree(s, n) \ {n} :
              s.parent[m] \in Subtree(s, n) /\ m \in Kids(s, s.parent[m])
<1>1. /\ n \in Subtree(s, n) /\ Subtree(s, n) \subseteq Node
      /\ \A m \in Subtree(s, n) \ {n} : \E q \in Subtree(s, n) : m \in Kids(s, q)
  BY StateTyped, SubtreeFacts
<1> QED
  BY <1>1 DEF Linked, KidsNamed

(* Every walk to the root ends.  parentNode and childNodes agree, no child of *)
(* a document is listed twice, and no node is below itself, until a release  *)
(* clears children of a node it does not clear, a document with a tree is    *)
(* parsed again, or an element is registered: every other call, and these    *)
(* three in other cases, keep both sides of every link.                      *)
THEOREM DomTreeLinks == Spec => []TreeLinks
<1>1. ASSUME DomInv, intact PROVE LinksAgree
  <2>0. /\ Sound(Now) /\ Now \in States
        /\ Now.parent = parent /\ Now.kids = kids
        /\ \A p \in Node : Kids(Now, p) = ToSet(kids[p])
    BY <1>1, SoundNow
  <2>1. Linked(Now)
    BY <2>0 DEF Sound
  <2> HIDE DEF Now
  <2>2. \A n \in Node : parent[n] \in Node \cup {None}
    BY <2>0, StateTyped
  <2>3. ASSUME NEW n \in Node, parent[n] # None PROVE Contains(kids[parent[n]], n)
    <3>1. parent[n] \in Node
      BY <2>2, <2>3
    <3>2. n \in ToSet(kids[parent[n]]) /\ kids[parent[n]] \in Seq(Node)
      BY <2>0, <2>1, <2>3, <3>1, StateTyped DEF Linked, ParentsList
    <3> QED
      BY <3>2, LenProperties DEF Contains, ToSet
  <2>4. ASSUME NEW d \in Document, NEW p \in Subtree(Now, d)
        PROVE  (\A c \in ToSet(kids[p]) : parent[c] = p) /\ IsInjective(kids[p])
    <3>1. p \in Node
      BY <2>0, <2>1, BelowFacts, KindFacts
    <3> QED
      BY <2>0, <2>1, <3>1 DEF Linked, KidsNamed, Once
  <2>5. ASSUME NEW p \in Node, NEW c \in ToSet(kids[p]), p \in Subtree(Now, c) PROVE FALSE
    <3> DEFINE B == Subtree(Now, c)
    <3>1. c \in Node
      BY <2>0, KidsTyped, StateTyped
    <3>2. c \in B /\ B \subseteq Node /\ \A m \in B \ {c} : Now.parent[m] \in B
      BY <2>0, <2>1, <3>1, BelowFacts
    <3> HIDE DEF B
    <3>3. Now.parent[c] = p
      BY <2>0, <2>1 DEF Linked, KidsNamed
    <3>4. p \in B
      BY <2>5 DEF B
    <3>5. \A m \in B : Now.parent[m] \in B
      BY <3>2, <3>3, <3>4
    <3> QED
      BY <2>1, <3>2, <3>5 DEF Linked, Grounded
  <2> QED
    BY <2>3, <2>4, <2>5 DEF LinksAgree
<1>2. DomInv /\ WalksEnd => TreeLinks
  BY <1>1 DEF TreeLinks
<1> QED
  BY <1>2, DomInvariant, DomWalksEnd, PTL

(* A document's ownedNodes names the nodes that name it, and has all that     *)
(* hangs in it, until one of the three calls: releaseDocument then clears the *)
(* whole document, and no node of another one.                               *)
THEOREM DomOwners == Spec => []OwnersAgree
<1>1. ASSUME DomInv, intact PROVE OwnersAgree
  <2>0. /\ Sound(Now) /\ Now \in States
        /\ Now.parent = parent /\ Now.owner = owner /\ Now.owned = owned
    BY <1>1, SoundNow
  <2>1. Linked(Now) /\ OwnedBy(Now) /\ KidsOwned(Now)
    BY <2>0 DEF Sound
  <2> HIDE DEF Now
  <2>2. ASSUME NEW d \in Document PROVE \A n \in owned[d] : owner[n] = d
    BY <2>0, <2>1, KindFacts DEF OwnedBy
  <2>3. ASSUME NEW d \in Document, NEW m \in Subtree(Now, d) \ {d} PROVE m \in owned[d]
    <3> DEFINE B == Subtree(Now, d)
               U == {x \in B \ {d} : Now.owner[x] # d}
    <3>1. d \in Node /\ d # None
      BY KindFacts
    <3>2. B \subseteq Node /\ \A x \in B \ {d} : Now.parent[x] \in B /\ x \in Kids(Now, Now.parent[x])
      BY <2>0, <2>1, <3>1, BelowFacts
    <3> HIDE DEF B
    <3>3. \A x \in B \ {d} : Inherits(Now, Now.parent[x], x)
      BY <2>1, <3>2 DEF KidsOwned
    <3>4. ASSUME NEW x \in U PROVE Now.parent[x] \in U
      <4> DEFINE q == Now.parent[x]
      <4>1. x \in B \ {d} /\ q \in B /\ Inherits(Now, q, x) /\ Now.owner[x] # d
        BY <3>2, <3>3
      <4>2. OwnerOf(Now, q) # d
        BY <4>1 DEF Inherits
      <4>3. q # d
        BY <4>2 DEF OwnerOf
      <4>4. Now.owner[q] # d
        <5>1. CASE q \in Document
          BY <2>1, <3>1, <5>1 DEF Linked, Rooted
        <5>2. CASE q \notin Document
          BY <4>2, <5>2 DEF OwnerOf
        <5> QED
          BY <5>1, <5>2
      <4> QED
        BY <4>1, <4>3, <4>4
    <3>5. U \in SUBSET Node
      BY <3>2
    <3>6. U = {}
      <4> HIDE DEF U
      <4> QED
        BY <2>1, <3>4, <3>5 DEF Linked, Grounded
    <3>7. m \in B \ {d}
      BY <2>3 DEF B
    <3>8. Now.owner[m] = d /\ Inherits(Now, Now.parent[m], m)
      BY <3>3, <3>6, <3>7
    <3> QED
      BY <2>0, <3>1, <3>8 DEF Inherits
  <2> QED
    BY <2>2, <2>3 DEF OwnersAgree
<1>2. DomInv => OwnersAgree
  BY <1>1 DEF OwnersAgree
<1> QED
  BY <1>2, DomInvariant, PTL

-----------------------------------------------------------------------------
(***************************************************************************)
(* Event dispatch.                                                         *)
(***************************************************************************)
(* A list never holds a key twice, and what it is given by removal does not. *)
Unique(list) == \A i, j \in DOMAIN list : Key(list[i]) = Key(list[j]) => i = j

LEMMA WithoutFacts ==
  ASSUME NEW list \in Seq(Entry), Unique(list), NEW k
  PROVE  Without(list, k) \in Seq(Entry) /\ Unique(Without(list, k))
<1>1. CASE ~ \E i \in DOMAIN list : Key(list[i]) = k
  BY <1>1 DEF Without
<1>2. CASE \E i \in DOMAIN list : Key(list[i]) = k
  <2> DEFINE i == CHOOSE i \in DOMAIN list : Key(list[i]) = k
             r == RemoveAt(list, i)
  <2>1. i \in DOMAIN list
    BY <1>2
  <2>2. Without(list, k) = r
    BY <1>2 DEF Without
  <2>3. DOMAIN list = 1 .. Len(list) /\ Len(list) \in Nat
    BY LenProperties
  <2> HIDE DEF i
  <2>4. /\ r \in Seq(Entry) /\ Len(r) = Len(list) - 1
        /\ \A j \in 1 .. Len(list) - 1 : r[j] = IF j < i THEN list[j] ELSE list[j + 1]
    BY <2>1, <2>3, RemoveAtFacts
  <2> HIDE DEF r
  <2>5. ASSUME NEW j \in DOMAIN r, NEW m \in DOMAIN r, Key(r[j]) = Key(r[m])
        PROVE  j = m
    <3> DEFINE J == IF j < i THEN j ELSE j + 1
               M == IF m < i THEN m ELSE m + 1
    <3>1. j \in 1 .. Len(list) - 1 /\ m \in 1 .. Len(list) - 1
      BY <2>4, LenProperties
    <3>2. J \in 1 .. Len(list) /\ M \in 1 .. Len(list)
      BY <2>1, <2>3, <3>1
    <3>3. r[j] = list[J] /\ r[m] = list[M]
      BY <2>4, <3>1
    <3>4. J = M
      <4> HIDE DEF J, M
      <4> QED
        BY <2>3, <2>5, <3>2, <3>3 DEF Unique
    <3> QED
      BY <2>1, <2>3, <3>1, <3>4
  <2> QED
    BY <2>2, <2>4, <2>5 DEF Unique
<1> QED
  BY <1>1, <1>2

(* What a visit goes over is a list of listeners. *)
LEMMA WantedFacts ==
  ASSUME NEW f, NEW list \in Seq(Entry)
  PROVE  Wanted(f, list) \in Seq(Entry)
<1> DEFINE n == Len(list)
           S == Seq(Entry)
           W(l) == l.capture <=> f.stage \in {"capture", "target1"}
           G(g) == [j \in 0 .. Len(list) |->
                      IF j = 0 THEN <<>>
                      ELSE IF list[j].capture <=> f.stage \in {"capture", "target1"}
                           THEN Append(g[j-1], list[j]) ELSE g[j-1]]
           F == [k \in 1 .. n |-> [x \in S |-> IF W(list[k]) THEN Append(x, list[k]) ELSE x]]
<1>1. n \in Nat /\ <<>> \in S /\ \A k \in 1 .. n : list[k] \in Entry
  BY LenProperties, ElementOfSeq, EmptySeq
<1>2. F \in [1 .. n -> [S -> S]]
  <2>1. \A k \in 1 .. n, x \in S : Append(x, list[k]) \in S
    BY <1>1, AppendProperties
  <2> HIDE DEF S, W
  <2> QED
    BY <2>1
<1>3. PICK g \in [0 .. n -> S] : Iterates(g, n, <<>>, F)
  <2> HIDE DEF F, n, S
  <2> QED
    BY <1>1, <1>2, Recursion
<1>4. g = G(g)
  <2>1. ASSUME NEW j \in 0 .. Len(list) PROVE g[j] = G(g)[j]
    <3>1. CASE j = 0
      BY <3>1, <1>3 DEF Iterates
    <3>2. CASE j # 0
      <4>1. j \in 1 .. n /\ j - 1 \in 0 .. n
        BY <1>1, <3>2
      <4>2. g[j] = F[j][g[j - 1]] /\ g[j - 1] \in S
        <5> HIDE DEF n, S, F
        <5> QED
          BY <1>3, <4>1 DEF Iterates
      <4>3. F[j][g[j - 1]] = IF W(list[j]) THEN Append(g[j - 1], list[j]) ELSE g[j - 1]
        <5> HIDE DEF n, S, W
        <5> QED
          BY <4>1, <4>2
      <4> QED
        BY <3>2, <4>2, <4>3
    <3> QED
      BY <3>1, <3>2
  <2>2. g = [j \in 0 .. Len(list) |-> g[j]]
    BY <1>3
  <2> QED
    BY <2>1, <2>2
<1> DEFINE h == CHOOSE h : h = G(h)
<1>5. h = G(h)
  BY <1>4
<1>6. Wanted(f, list) = h[n]
  BY DEF Wanted
<1> HIDE DEF h
<1> DEFINE D == {k \in 0 .. n : h[k] \in S}
<1>7. 0 \in D
  BY <1>1, <1>5
<1>8. ASSUME NEW k \in 1 .. n, k - 1 \in D PROVE k \in D
  <2>0. k \in 0 .. Len(list) /\ k # 0
    BY <1>1
  <2>1. h[k] = IF W(list[k]) THEN Append(h[k - 1], list[k]) ELSE h[k - 1]
    BY <1>5, <2>0
  <2>2. h[k - 1] \in S /\ list[k] \in Entry
    BY <1>1, <1>8
  <2>3. Append(h[k - 1], list[k]) \in S
    BY <2>2, AppendProperties
  <2>4. h[k] \in S
    <3> HIDE DEF S, W
    <3> QED BY <2>1, <2>2, <2>3
  <2>5. k \in 0 .. n
    BY <1>1
  <2> QED
    BY <2>4, <2>5
<1>9. n \in D
  <2>1. \A k \in 1 .. n : k - 1 \in D => k \in D
    BY <1>8
  <2> HIDE DEF D
  <2>2. \A k \in 0 .. n : k \in D
    BY <1>1, <1>7, <2>1, SetInduction
  <2> QED
    BY <1>1, <2>2
<1> QED
  BY <1>6, <1>9

-----------------------------------------------------------------------------
(* What the actions do to the stack. *)

(* A dispatch that did not go on; what it owes may have been removed. *)
Same(f, g) ==
  /\ g.event = f.event /\ g.target = f.target /\ g.stage = f.stage /\ g.at = f.at
  /\ g.entries = f.entries /\ g.i = f.i /\ g.running = f.running
  /\ g.owed \subseteq f.owed /\ g.again = f.again

LEMMA SameIsSame == ASSUME NEW f PROVE Same(f, f)
  BY DEF Same

(* The frames below the top stay, the top becomes g. *)
TopBecomes(g) ==
  /\ stack # <<>> /\ stack' \in Seq(Frame) /\ Len(stack') = Len(stack)
  /\ \A i \in 1 .. Len(stack) - 1 : Same(stack[i], stack'[i])
  /\ Same(g, stack'[Len(stack)])

LEMMA DropFacts ==
  ASSUME NEW s \in Seq(Frame), NEW n, NEW k
  PROVE  /\ Drop(s, n, k) \in Seq(Frame) /\ Len(Drop(s, n, k)) = Len(s)
         /\ \A i \in 1 .. Len(s) : Same(s[i], Drop(s, n, k)[i])
<1> DEFINE d(i) == IF s[i].at = n THEN [s[i] EXCEPT !.owed = @ \ {k}] ELSE s[i]
           D == [i \in 1 .. Len(s) |-> d(i)]
<1>1. Len(s) \in Nat /\ DOMAIN s = 1 .. Len(s) /\ \A i \in 1 .. Len(s) : s[i] \in Frame
  BY LenProperties, ElementOfSeq
<1>2. ASSUME NEW i \in 1 .. Len(s) PROVE d(i) \in Frame /\ Same(s[i], d(i))
  BY <1>1 DEF Frame, Same
<1>3. Drop(s, n, k) = D
  BY <1>1 DEF Drop
<1> HIDE DEF d
<1>4. D \in Seq(Frame) /\ Len(D) = Len(s) /\ \A i \in 1 .. Len(s) : D[i] = d(i)
  BY <1>1, <1>2, IsASeq
<1> HIDE DEF D
<1> QED
  BY <1>2, <1>3, <1>4

LEMMA SetTopFacts ==
  ASSUME stack \in Seq(Frame), stack # <<>>, NEW g \in Frame
  PROVE  /\ Append(Front(stack), g) \in Seq(Frame)
         /\ Len(Append(Front(stack), g)) = Len(stack)
         /\ \A i \in 1 .. Len(stack) - 1 : Append(Front(stack), g)[i] = stack[i]
         /\ Append(Front(stack), g)[Len(stack)] = g
<1>1. /\ Front(stack) \in Seq(Frame) /\ Len(Front(stack)) = Len(stack) - 1
      /\ \A i \in 1 .. Len(stack) - 1 : Front(stack)[i] = stack[i]
      /\ Len(stack) \in Nat \ {0}
  BY FrontFacts
<1> DEFINE fr == Front(stack)
<1>2. /\ Append(fr, g) \in Seq(Frame) /\ Len(Append(fr, g)) = Len(fr) + 1
      /\ \A i \in 1 .. Len(fr) : Append(fr, g)[i] = fr[i]
      /\ Append(fr, g)[Len(fr) + 1] = g
  BY <1>1, PushFacts
<1>3. Len(fr) = Len(stack) - 1 /\ Len(fr) + 1 = Len(stack)
  BY <1>1
<1> HIDE DEF fr
<1>4. /\ Append(fr, g) \in Seq(Frame) /\ Len(Append(fr, g)) = Len(stack)
      /\ \A i \in 1 .. Len(stack) - 1 : Append(fr, g)[i] = fr[i]
      /\ Append(fr, g)[Len(stack)] = g
  BY <1>2, <1>3
<1> QED
  BY <1>1, <1>4 DEF fr

LEMMA TopFacts ==
  ASSUME EventTypeOK, stack # <<>>
  PROVE  /\ Len(stack) \in Nat \ {0} /\ Top = stack[Len(stack)] /\ Top \in Frame
         /\ DOMAIN stack = 1 .. Len(stack)
  BY FrontFacts, LenProperties DEF EventTypeOK, Top

LEMMA FramesAre ==
  ASSUME EventTypeOK
  PROVE  /\ Len(stack) \in Nat /\ DOMAIN stack = 1 .. Len(stack)
         /\ \A i \in DOMAIN stack : stack[i] \in Frame
  BY LenProperties, ElementOfSeq DEF EventTypeOK

LEMMA SetTopStep ==
  ASSUME EventTypeOK, stack # <<>>, NEW g \in Frame, SetTop(g)
  PROVE  TopBecomes(g)
<1>1. stack \in Seq(Frame) /\ stack' = Append(Front(stack), g)
  BY DEF EventTypeOK, SetTop
<1>2. /\ stack' \in Seq(Frame) /\ Len(stack') = Len(stack)
      /\ \A i \in 1 .. Len(stack) - 1 : stack'[i] = stack[i]
      /\ stack'[Len(stack)] = g
  BY <1>1, SetTopFacts
<1> QED
  BY <1>2, SameIsSame DEF TopBecomes

Called(f) == [f EXCEPT !.running = f.entries[f.i], !.owed = @ \ {Key(f.entries[f.i])}]
Returned(f) == [f EXCEPT !.i = @ + 1, !.running = Null]
Here(f) == [f EXCEPT !.stage = After(f)[1], !.at = After(f)[2]]
Copy(f) == Wanted(Here(f), listeners[After(f)[2]])
Entered(f) == [Here(f) EXCEPT !.entries = Copy(f), !.i = 1,
                 !.owed = {Key(l) : l \in ToSet(Copy(f))}]

(* A frame that goes on is a frame. *)
LEMMA FrameMoves ==
  ASSUME NEW f \in Frame, NEW st \in Stage, NEW at \in 1 .. Root + 1
  PROVE  [f EXCEPT !.stage = st, !.at = at] \in Frame
  BY DEF Frame

LEMMA FrameVisits ==
  ASSUME NEW f \in Frame, NEW list \in Seq(Entry), NEW o \in SUBSET (Fn \X BOOLEAN)
  PROVE  [f EXCEPT !.entries = list, !.i = 1, !.owed = o] \in Frame
<1>1. 1 \in Nat \ {0}
  OBVIOUS
<1> QED
  BY <1>1 DEF Frame

LEMMA FrameReturns ==
  ASSUME NEW f \in Frame
  PROVE  [f EXCEPT !.i = @ + 1, !.running = Null] \in Frame
<1>1. f.i + 1 \in Nat \ {0}
  BY DEF Frame
<1> QED
  BY <1>1 DEF Frame

LEMMA ListTyped ==
  ASSUME EventTypeOK, NEW n \in PathNode
  PROVE  listeners[n] \in Seq(Entry) /\ Unique(listeners[n])
  BY DEF EventTypeOK, Unique

LEMMA CallStep ==
  ASSUME EventTypeOK, Call
  PROVE  /\ TopBecomes(Called(Top)) /\ Called(Top) \in Frame
         /\ Called(Top).running \in Entry
<1>1. stack # <<>> /\ Pending(Top) /\ SetTop(Called(Top))
  BY DEF Call, Called, Entries
<1>2. Top \in Frame
  BY <1>1, TopFacts
<1>3. Top.entries \in Seq(Entry) /\ Top.i \in 1 .. Len(Top.entries)
  BY <1>1, <1>2, LenProperties DEF Frame, Pending, Entries
<1>4. Top.entries[Top.i] \in Entry
  BY <1>3, ElementOfSeq
<1>5. Called(Top) \in Frame /\ Called(Top).running = Top.entries[Top.i]
  BY <1>2, <1>4 DEF Frame, Called
<1> QED
  BY <1>1, <1>4, <1>5, SetTopStep

(* Where a dispatch is: it is on the path once it has begun, and at its     *)
(* target between the two halves of that.                                   *)
PlacedAt(f) ==
  /\ f.stage # "end"
  /\ f.stage = "begin" => f.running = Null /\ f.entries = <<>>
  /\ f.stage # "begin" => f.at \in PathNode
  /\ f.stage = "target1" => f.at = f.target
Placed == \A i \in DOMAIN stack : PlacedAt(stack[i])

LEMMA AfterFacts ==
  ASSUME NEW f \in Frame, f.stage # "begin" => f.at \in PathNode,
         f.stage = "target1" => f.at = f.target
  PROVE  /\ After(f)[1] \in Stage \ {"begin"} /\ After(f)[2] \in PathNode \cup {f.at}
         /\ After(f)[1] # "end" => After(f)[2] \in PathNode
         /\ After(f)[1] \in {"target1", "target2"} => After(f)[2] = f.target
         /\ After(f)[1] = "target2" => f.stage = "target1" /\ After(f)[2] = f.at
<1>1. /\ Root \in Nat \ {0} /\ f.at \in 1 .. Root + 1 /\ f.target \in 1 .. Root
      /\ f.stage \in Stage
  BY RootAssumption DEF Frame, PathNode
<1>2. CASE f.stage \in {"begin", "capture"}
  BY <1>1, <1>2 DEF After, PathNode, Stage
<1>3. CASE f.stage = "target1"
  BY <1>1, <1>3 DEF After, PathNode, Stage
<1>4. CASE f.stage \notin {"begin", "capture", "target1"}
  BY <1>1, <1>4 DEF After, PathNode, Stage
<1> QED
  BY <1>2, <1>3, <1>4

LEMMA KeyTyped == ASSUME NEW l \in Entry PROVE Key(l) \in Fn \X BOOLEAN
  BY DEF Key, Entry

LEMMA EnterStep ==
  ASSUME EventTypeOK, Placed, Enter
  PROVE  /\ TopBecomes(Entered(Top)) /\ Entered(Top) \in Frame
         /\ After(Top)[1] \in Stage \ {"begin", "end"} /\ After(Top)[2] \in PathNode
         /\ Copy(Top) \in Seq(Entry) /\ MayEnter(Top, After(Top)[1])
<1> DEFINE f == Top
           to == After(f)
<1>1. stack # <<>> /\ MayEnter(f, to[1]) /\ SetTop(Entered(f))
  BY DEF Enter, Entered, Here, Copy
<1>2. f \in Frame /\ f = stack[Len(stack)] /\ Len(stack) \in DOMAIN stack
  BY <1>1, TopFacts
<1>3. to[1] # "end"
  BY <1>1 DEF MayEnter
<1>4. to[1] \in Stage \ {"begin", "end"} /\ to[2] \in PathNode
  BY <1>2, <1>3, AfterFacts DEF Placed, PlacedAt
<1>5. Copy(f) \in Seq(Entry)
  BY <1>4, ListTyped, WantedFacts DEF Copy
<1>6. {Key(l) : l \in ToSet(Copy(f))} \subseteq Fn \X BOOLEAN
  <2>1. \A j \in DOMAIN Copy(f) : Copy(f)[j] \in Entry
    BY <1>5, ElementOfSeq, LenProperties
  <2> QED
    BY <2>1, KeyTyped DEF ToSet
<1>7. Entered(f) \in Frame
  <2>1. Here(f) \in Frame
    <3>1. to[2] \in 1 .. Root + 1 /\ to[1] \in Stage
      BY <1>4, RootAssumption DEF PathNode
    <3> QED
      BY <1>2, <3>1, FrameMoves DEF Here
  <2> QED
    BY <1>5, <1>6, <2>1, FrameVisits DEF Entered
<1> QED
  BY <1>1, <1>4, <1>5, <1>7, SetTopStep

LEMMA ReturnStep ==
  ASSUME EventTypeOK, ListenerReturns
  PROVE  TopBecomes(Returned(Top)) /\ Returned(Top) \in Frame
<1> DEFINE g == Returned(Top)
           done == Append(Front(stack), g)
<1>1. stack # <<>> /\ stack \in Seq(Frame)
  BY DEF ListenerReturns, EventTypeOK
<1>2. g \in Frame
  <2>1. Top \in Frame
    BY <1>1, TopFacts
  <2> QED
    BY <2>1, FrameReturns DEF Returned
<1>3. \/ stack' = done
      \/ \E n, k : stack' = Drop(done, n, k)
  BY DEF ListenerReturns, Returned
<1> HIDE DEF g
<1>4. /\ done \in Seq(Frame) /\ Len(done) = Len(stack)
      /\ \A i \in 1 .. Len(stack) - 1 : done[i] = stack[i]
      /\ done[Len(stack)] = g
  BY <1>1, <1>2, SetTopFacts
<1>5. Len(stack) \in Nat \ {0}
  BY <1>1, FrontFacts
<1> HIDE DEF done
<1>6. ASSUME stack' = done PROVE TopBecomes(g)
  BY <1>1, <1>4, <1>6, SameIsSame DEF TopBecomes
<1>7. ASSUME NEW n, NEW k, stack' = Drop(done, n, k) PROVE TopBecomes(g)
  <2>1. /\ stack' \in Seq(Frame) /\ Len(stack') = Len(stack)
        /\ \A i \in 1 .. Len(stack) : Same(done[i], stack'[i])
    BY <1>4, <1>7, DropFacts
  <2>2. Len(stack) \in 1 .. Len(stack) /\ 1 .. Len(stack) - 1 \subseteq 1 .. Len(stack)
    BY <1>5
  <2> QED
    BY <1>1, <1>4, <2>1, <2>2 DEF TopBecomes
<1> QED
  BY <1>2, <1>3, <1>6, <1>7 DEF g

New(n, e) ==
  [event |-> e, target |-> n, stage |-> "begin", at |-> Root + 1, entries |-> <<>>,
   i |-> 1, running |-> Null, owed |-> {}, again |-> FALSE]
Outside(f, e) == [f EXCEPT !.again = @ \/ f.event = e]

LEMMA OutsideFacts ==
  ASSUME NEW f \in Frame, NEW e
  PROVE  LET g == Outside(f, e)
         IN  /\ g.event = f.event /\ g.stage = f.stage /\ g.at = f.at
             /\ g.target = f.target /\ g.entries = f.entries /\ g.i = f.i
             /\ g.running = f.running /\ g.owed = f.owed
             /\ g.again = (f.again \/ f.event = e) /\ g.event \in Event
  BY DEF Outside, Frame

LEMMA DispatchStep ==
  ASSUME EventTypeOK, NEW n \in Target, NEW e \in Event, DispatchEvent(n, e)
  PROVE  /\ stack' \in Seq(Frame) /\ Len(stack') = Len(stack) + 1
         /\ \A i \in 1 .. Len(stack) : stack'[i] = Outside(stack[i], e)
         /\ stack'[Len(stack) + 1] = New(n, e)
<1> DEFINE out == [i \in 1 .. Len(stack) |-> Outside(stack[i], e)]
<1>1. /\ Len(stack) \in Nat /\ DOMAIN stack = 1 .. Len(stack)
      /\ \A i \in 1 .. Len(stack) : stack[i] \in Frame
  BY FramesAre
<1>2. \A i \in 1 .. Len(stack) : Outside(stack[i], e) \in Frame
  BY <1>1 DEF Outside, Frame
<1>3. /\ out \in Seq(Frame) /\ Len(out) = Len(stack)
      /\ \A i \in 1 .. Len(stack) : out[i] = Outside(stack[i], e)
  BY <1>1, <1>2, IsASeq
<1>4. New(n, e) \in Frame
  <2>1. n \in PathNode /\ Root + 1 \in 1 .. Root + 1 /\ <<>> \in Seq(Entry)
    BY ScriptAssumption, RootAssumption, EmptySeq
  <2>2. 1 \in Nat \ {0} /\ {} \in SUBSET (Fn \X BOOLEAN) /\ "begin" \in Stage
    BY DEF Stage
  <2> QED
    BY <2>1, <2>2 DEF New, Frame
<1>5. stack' = Append(out, New(n, e))
  BY <1>1 DEF DispatchEvent, Outside, New
<1> HIDE DEF out
<1> QED
  BY <1>3, <1>4, <1>5, PushFacts

(* What the actions do to the lists. *)
LEMMA ListsStep ==
  ASSUME EventTypeOK, Placed, [EventNext]_dispatchVars
  PROVE  /\ listeners' \in [PathNode -> Seq(Entry)]
         /\ \A n \in PathNode : Unique(listeners'[n])
<1>0. /\ listeners \in [PathNode -> Seq(Entry)]
      /\ \A n \in PathNode : Unique(listeners[n])
  BY DEF EventTypeOK, Unique
<1>1. ASSUME NEW n \in PathNode, NEW l \in Options, AddEventListener(n, l)
      PROVE  /\ listeners' \in [PathNode -> Seq(Entry)]
             /\ \A m \in PathNode : Unique(listeners'[m])
  <2> DEFINE a == Append(listeners[n], l)
  <2>1. l \in Entry /\ listeners[n] \in Seq(Entry) /\ Unique(listeners[n])
    BY <1>0, ScriptAssumption
  <2>2. /\ a \in Seq(Entry) /\ Len(a) = Len(listeners[n]) + 1
        /\ \A i \in 1 .. Len(listeners[n]) : a[i] = listeners[n][i]
        /\ a[Len(listeners[n]) + 1] = l
    BY <2>1, PushFacts
  <2>3. \A i \in DOMAIN listeners[n] : Key(listeners[n][i]) # Key(l)
    BY <1>1 DEF AddEventListener
  <2>4. listeners' = [listeners EXCEPT ![n] = a]
    BY <1>1 DEF AddEventListener
  <2> HIDE DEF a
  <2>5. Unique(a)
    <3>1. /\ DOMAIN a = 1 .. Len(listeners[n]) + 1 /\ Len(listeners[n]) \in Nat
          /\ DOMAIN listeners[n] = 1 .. Len(listeners[n])
      BY <2>1, <2>2, LenProperties
    <3>2. \A i \in 1 .. Len(listeners[n]) : Key(a[i]) # Key(l)
      BY <2>2, <2>3, <3>1
    <3>3. \A i, j \in 1 .. Len(listeners[n]) : Key(a[i]) = Key(a[j]) => i = j
      BY <2>1, <2>2, <3>1 DEF Unique
    <3> QED
      BY <2>2, <3>1, <3>2, <3>3 DEF Unique
  <2> QED
    BY <1>0, <2>2, <2>4, <2>5
<1>2. ASSUME NEW n \in PathNode, NEW k, listeners' = [listeners EXCEPT ![n] = Without(@, k)]
      PROVE  /\ listeners' \in [PathNode -> Seq(Entry)]
             /\ \A m \in PathNode : Unique(listeners'[m])
  <2>1. Without(listeners[n], k) \in Seq(Entry) /\ Unique(Without(listeners[n], k))
    BY <1>0, WithoutFacts
  <2> QED
    BY <1>0, <1>2, <2>1
<1>3. CASE UNCHANGED listeners
  BY <1>0, <1>3
<1>4. CASE ListenerReturns
  <2>1. CASE Top.running.once
    <3>1. Top = stack[Len(stack)] /\ Len(stack) \in DOMAIN stack /\ Top.running # Null
      BY <1>4, TopFacts DEF ListenerReturns
    <3>2. Top.at \in PathNode
      BY <3>1 DEF Placed, PlacedAt
    <3>3. listeners' = [listeners EXCEPT ![Top.at] = Without(@, Key(Top.running))]
      BY <1>4, <2>1 DEF ListenerReturns
    <3> QED
      BY <1>2, <3>2, <3>3
  <2> QED
    BY <1>3, <1>4, <2>1 DEF ListenerReturns
<1>5. ASSUME NEW n \in PathNode, NEW l, RemoveEventListener(n, Key(l))
      PROVE  /\ listeners' \in [PathNode -> Seq(Entry)]
             /\ \A m \in PathNode : Unique(listeners'[m])
  BY <1>2, <1>5 DEF RemoveEventListener
<1>6. CASE UNCHANGED dispatchVars
  BY <1>3, <1>6 DEF dispatchVars
<1> QED
  BY <1>1, <1>3, <1>4, <1>5, <1>6
     DEF EventNext, StopPropagation, DispatchEvent, Call, Enter, EndDispatch

-----------------------------------------------------------------------------
(* The invariant of the stack. *)

(* What waits for a dispatch inside it is a listener that runs. *)
Busy == \A i \in 1 .. Len(stack) - 1 : stack[i].running # Null

(* Of the dispatches of one event the innermost alone is not again. *)
AgainBelow ==
  \A i, j \in DOMAIN stack :
    i < j /\ stack[i].event = stack[j].event => stack[i].again

(* What a visit owes is ahead of it in its list. *)
Ahead(f) == IF f.running = Null THEN f.i ELSE f.i + 1
OwesAhead(f) == f.owed \subseteq {Key(f.entries[j]) : j \in Ahead(f) .. Len(f.entries)}
Owed == \A i \in DOMAIN stack : OwesAhead(stack[i])

Framed == Placed /\ Busy /\ AgainBelow /\ Owed

LEMMA SamePlaced ==
  ASSUME NEW f, NEW g, Same(f, g)
  PROVE  (PlacedAt(f) => PlacedAt(g)) /\ (OwesAhead(f) => OwesAhead(g))
  BY DEF Same, PlacedAt, OwesAhead, Ahead

(* The top goes on, with the event it had. *)
LEMMA TopStaysFramed ==
  ASSUME EventTypeOK, Framed, NEW g, TopBecomes(g),
         g.event = Top.event, g.again = Top.again, PlacedAt(g), OwesAhead(g)
  PROVE  Framed'
<1> DEFINE n == Len(stack)
           old(i) == IF i = n THEN g ELSE stack[i]
<1>1. /\ n \in Nat \ {0} /\ DOMAIN stack = 1 .. n /\ Top = stack[n]
      /\ stack' \in Seq(Frame) /\ Len(stack') = n
      /\ \A i \in 1 .. n - 1 : Same(stack[i], stack'[i])
      /\ Same(g, stack'[n])
  BY TopFacts DEF TopBecomes
<1>2. DOMAIN stack' = 1 .. n
  BY <1>1, LenProperties
<1> HIDE DEF n
<1>3. \A i \in 1 .. n : Same(old(i), stack'[i])
  BY <1>1
<1>4. \A i \in 1 .. n : PlacedAt(old(i)) /\ OwesAhead(old(i))
  BY <1>1 DEF Framed, Placed, Owed
<1>5. \A i \in 1 .. n : old(i).event = stack[i].event /\ old(i).again = stack[i].again
  BY <1>1
<1>6. \A i \in 1 .. n - 1 : i \in 1 .. n /\ old(i) = stack[i]
  BY <1>1
<1> HIDE DEF old
<1>7. Placed' /\ Owed'
  BY <1>2, <1>3, <1>4, SamePlaced DEF Placed, Owed
<1>8. AgainBelow'
  BY <1>1, <1>2, <1>3, <1>5 DEF AgainBelow, Same, Framed
<1>9. Busy'
  BY <1>1, <1>6 DEF Busy, Same, Framed, n
<1> QED
  BY <1>7, <1>8, <1>9 DEF Framed

LEMMA AllSameFramed ==
  ASSUME EventTypeOK, Framed, stack' \in Seq(Frame), Len(stack') = Len(stack),
         \A i \in 1 .. Len(stack) : Same(stack[i], stack'[i])
  PROVE  Framed'
<1>1. /\ Len(stack) \in Nat /\ DOMAIN stack = 1 .. Len(stack)
      /\ DOMAIN stack' = 1 .. Len(stack)
  BY FramesAre, LenProperties
<1>2. Placed' /\ Owed'
  BY <1>1, SamePlaced DEF Placed, Owed, Framed
<1>3. AgainBelow' /\ Busy'
  BY <1>1 DEF AgainBelow, Busy, Same, Framed
<1> QED
  BY <1>2, <1>3 DEF Framed

LEMMA CallFramed ==
  ASSUME EventTypeOK, Framed, Call
  PROVE  Framed'
<1> DEFINE f == Top
           g == Called(f)
           l == f.entries[f.i]
<1>1. TopBecomes(g) /\ stack # <<>> /\ f.running = Null /\ Pending(f) /\ g.running \in Entry
  BY CallStep DEF Call
<1>2. /\ f \in Frame /\ PlacedAt(f) /\ OwesAhead(f)
  <2>1. f = stack[Len(stack)] /\ Len(stack) \in DOMAIN stack
    BY <1>1, TopFacts
  <2> QED
    BY <1>1, <2>1, TopFacts DEF Framed, Placed, Owed
<1>3. /\ g.event = f.event /\ g.again = f.again /\ g.stage = f.stage /\ g.at = f.at
      /\ g.target = f.target /\ g.entries = f.entries /\ g.i = f.i /\ g.running = l
      /\ g.owed = f.owed \ {Key(l)}
  BY <1>2 DEF Called, Frame
<1>4. f.i \in Nat \ {0} /\ f.entries \in Seq(Entry) /\ f.i <= Len(f.entries)
  BY <1>1, <1>2 DEF Frame, Pending, Entries
<1>5. Len(<<>>) = 0 /\ Len(f.entries) \in Nat
  BY <1>4, EmptySeq, LenProperties
<1>6. PlacedAt(g)
  BY <1>2, <1>3, <1>4, <1>5 DEF PlacedAt
<1>7. OwesAhead(g)
  <2>1. l # Null
    BY <1>1, <1>3, NullAssumption
  <2>2. f.i .. Len(f.entries) = {f.i} \cup (f.i + 1 .. Len(f.entries))
    BY <1>4, <1>5
  <2>3. f.owed \subseteq {Key(f.entries[j]) : j \in f.i .. Len(f.entries)}
    BY <1>1, <1>2 DEF OwesAhead, Ahead
  <2>4. g.owed \subseteq {Key(f.entries[j]) : j \in f.i + 1 .. Len(f.entries)}
    BY <1>3, <2>2, <2>3
  <2> QED
    BY <1>3, <2>1, <2>4 DEF OwesAhead, Ahead
<1> QED
  BY <1>1, <1>3, <1>6, <1>7, TopStaysFramed

LEMMA EnterFramed ==
  ASSUME EventTypeOK, Framed, Enter
  PROVE  Framed'
<1> DEFINE f == Top
           to == After(f)
           g == Entered(f)
<1>1. /\ TopBecomes(g) /\ stack # <<>> /\ f.running = Null
      /\ to[1] \in Stage \ {"begin", "end"} /\ to[2] \in PathNode
      /\ Copy(f) \in Seq(Entry)
  BY EnterStep DEF Enter, Framed
<1>2. f \in Frame /\ PlacedAt(f)
  <2>1. f = stack[Len(stack)] /\ Len(stack) \in DOMAIN stack
    BY <1>1, TopFacts
  <2> QED
    BY <1>1, <2>1, TopFacts DEF Framed, Placed
<1>3. /\ g.event = f.event /\ g.again = f.again /\ g.stage = to[1] /\ g.at = to[2]
      /\ g.target = f.target /\ g.entries = Copy(f) /\ g.i = 1 /\ g.running = f.running
      /\ g.owed = {Key(l) : l \in ToSet(Copy(f))}
  BY <1>2 DEF Entered, Here, Frame
<1>4. to[1] = "target1" => to[2] = f.target
  BY <1>2, AfterFacts DEF PlacedAt
<1>5. PlacedAt(g)
  BY <1>1, <1>3, <1>4 DEF PlacedAt
<1>6. OwesAhead(g)
  <2>1. DOMAIN Copy(f) = 1 .. Len(Copy(f))
    BY <1>1, LenProperties
  <2>2. g.owed \subseteq {Key(Copy(f)[j]) : j \in 1 .. Len(Copy(f))}
    BY <1>3, <2>1 DEF ToSet
  <2> QED
    BY <1>1, <1>3, <2>2 DEF OwesAhead, Ahead
<1> QED
  BY <1>1, <1>3, <1>5, <1>6, TopStaysFramed

LEMMA ReturnFramed ==
  ASSUME EventTypeOK, Framed, ListenerReturns
  PROVE  Framed'
<1> DEFINE f == Top
           g == Returned(f)
<1>1. TopBecomes(g) /\ stack # <<>> /\ f.running # Null
  BY ReturnStep DEF ListenerReturns
<1>2. f \in Frame /\ PlacedAt(f) /\ OwesAhead(f)
  <2>1. f = stack[Len(stack)] /\ Len(stack) \in DOMAIN stack
    BY <1>1, TopFacts
  <2> QED
    BY <1>1, <2>1, TopFacts DEF Framed, Placed, Owed
<1>3. /\ g.event = f.event /\ g.again = f.again /\ g.stage = f.stage /\ g.at = f.at
      /\ g.target = f.target /\ g.entries = f.entries /\ g.i = f.i + 1 /\ g.running = Null
      /\ g.owed = f.owed
  BY <1>2 DEF Returned, Frame
<1>4. PlacedAt(g)
  BY <1>2, <1>3 DEF PlacedAt
<1>5. OwesAhead(g)
  BY <1>1, <1>2, <1>3 DEF OwesAhead, Ahead
<1> QED
  BY <1>1, <1>3, <1>4, <1>5, TopStaysFramed

LEMMA DispatchFramed ==
  ASSUME EventTypeOK, Framed, NEW n \in Target, NEW e \in Event, DispatchEvent(n, e)
  PROVE  Framed'
<1> DEFINE m == Len(stack)
<1>1. /\ stack' \in Seq(Frame) /\ Len(stack') = m + 1
      /\ \A i \in 1 .. m : stack'[i] = Outside(stack[i], e)
      /\ stack'[m + 1] = New(n, e)
  BY DispatchStep
<1>2. /\ m \in Nat /\ DOMAIN stack = 1 .. m /\ DOMAIN stack' = 1 .. m + 1
      /\ \A i \in 1 .. m : stack[i] \in Frame
  BY <1>1, FramesAre, LenProperties
<1>3. \A i \in 1 .. m : stack[i].running # Null
  <2>1. \A i \in 1 .. m - 1 : stack[i].running # Null
    BY DEF Framed, Busy
  <2>2. CASE m > 0
    <3>1. stack # <<>>
      BY <1>2, <2>2, EmptySeq
    <3>2. stack[m].running # Null
      BY <3>1, TopFacts DEF DispatchEvent, Script
    <3> QED
      BY <1>2, <2>1, <3>2
  <2> QED
    BY <1>2, <2>2
<1> HIDE DEF m
<1>4. ASSUME NEW i \in 1 .. m
      PROVE  LET g == stack'[i]
                 f == stack[i]
             IN  /\ g.event = f.event /\ g.stage = f.stage /\ g.at = f.at
                 /\ g.target = f.target /\ g.entries = f.entries /\ g.i = f.i
                 /\ g.running = f.running /\ g.owed = f.owed
                 /\ g.again = (f.again \/ f.event = e)
  <2>1. stack'[i] = Outside(stack[i], e) /\ stack[i] \in Frame
    BY <1>1, <1>2
  <2> QED
    BY <2>1, OutsideFacts
<1>5. ASSUME NEW i \in 1 .. m PROVE PlacedAt(stack'[i]) /\ OwesAhead(stack'[i])
  <2> DEFINE f == stack[i]
             g == stack'[i]
  <2>1. PlacedAt(f) /\ OwesAhead(f)
    BY <1>2 DEF Framed, Placed, Owed
  <2>2. /\ g.stage = f.stage /\ g.at = f.at /\ g.target = f.target /\ g.i = f.i
        /\ g.entries = f.entries /\ g.running = f.running /\ g.owed = f.owed
    BY <1>4
  <2> HIDE DEF f, g
  <2>3. PlacedAt(g) /\ OwesAhead(g)
    BY <2>1, <2>2 DEF PlacedAt, OwesAhead, Ahead
  <2> QED
    BY <2>3 DEF g
<1>6. PlacedAt(New(n, e)) /\ OwesAhead(New(n, e))
  BY DEF PlacedAt, OwesAhead, New
<1>7. Placed' /\ Owed'
  BY <1>1, <1>2, <1>5, <1>6 DEF Placed, Owed
<1>8. Busy'
  BY <1>1, <1>2, <1>3, <1>4 DEF Busy
<1>9. AgainBelow'
  <2> SUFFICES ASSUME NEW i \in 1 .. m + 1, NEW j \in 1 .. m + 1, i < j,
                      stack'[i].event = stack'[j].event
               PROVE  stack'[i].again
    BY <1>2 DEF AgainBelow
  <2>1. i \in 1 .. m
    BY <1>2
  <2>2. CASE j \in 1 .. m
    BY <1>2, <1>4, <2>1, <2>2 DEF Framed, AgainBelow
  <2>3. CASE j = m + 1
    <3>1. stack'[j].event = e
      BY <1>1, <2>3 DEF New
    <3>2. stack'[i].event = stack[i].event /\ stack'[i].again = (stack[i].again \/ stack[i].event = e)
      BY <1>4, <2>1
    <3> QED
      BY <3>1, <3>2
  <2> QED
    BY <1>2, <2>2, <2>3
<1> QED
  BY <1>7, <1>8, <1>9 DEF Framed

LEMMA EndFramed ==
  ASSUME EventTypeOK, Framed, EndDispatch
  PROVE  Framed'
<1>1. /\ stack' \in Seq(Frame) /\ Len(stack') = Len(stack) - 1
      /\ \A i \in 1 .. Len(stack) - 1 : stack'[i] = stack[i]
      /\ Len(stack) \in Nat \ {0}
  <2>1. stack \in Seq(Frame) /\ stack # <<>> /\ stack' = Front(stack)
    BY DEF EndDispatch, EventTypeOK
  <2> QED
    BY <2>1, FrontFacts
<1>2. DOMAIN stack' = 1 .. Len(stack) - 1 /\ DOMAIN stack = 1 .. Len(stack)
  BY <1>1, LenProperties, FramesAre
<1> QED
  BY <1>1, <1>2 DEF Framed, Placed, Owed, Busy, AgainBelow

LEMMA FramedStep ==
  ASSUME EventTypeOK, Framed, [EventNext]_dispatchVars
  PROVE  Framed'
<1>1. CASE UNCHANGED stack
  BY <1>1 DEF Framed, Placed, Busy, AgainBelow, Owed
<1>2. ASSUME NEW n \in PathNode, NEW l, RemoveEventListener(n, Key(l)) PROVE Framed'
  <2>1. stack \in Seq(Frame) /\ stack' = Drop(stack, n, Key(l))
    BY <1>2 DEF RemoveEventListener, EventTypeOK
  <2> QED
    BY <2>1, DropFacts, AllSameFramed
<1>3. CASE UNCHANGED dispatchVars
  BY <1>1, <1>3 DEF dispatchVars
<1> QED
  BY <1>1, <1>2, <1>3, CallFramed, EnterFramed, ReturnFramed, DispatchFramed, EndFramed
     DEF EventNext, AddEventListener, StopPropagation

-----------------------------------------------------------------------------
(* The invariant of the events. *)

(* The innermost dispatch of an event has told it where it is; and once     *)
(* the event was stopped in it, it goes to no other node.                   *)
Innermost(f) == ~f.again /\ f.stage # "begin"
NamedBy(f) ==
  /\ target[f.event] = f.target /\ currentTarget[f.event] = f.at
  /\ eventPhase[f.event] = PhaseOf(f.stage)
Told == \A i \in DOMAIN stack : Innermost(stack[i]) => NamedBy(stack[i])
StoppedHere(f) == stop[f.event] => stoppedAt[f.event] = f.at
Stops == \A i \in DOMAIN stack : Innermost(stack[i]) => StoppedHere(stack[i])

(* The same of the values after a step. *)
NamedAfter(f) ==
  /\ target'[f.event] = f.target /\ currentTarget'[f.event] = f.at
  /\ eventPhase'[f.event] = PhaseOf(f.stage)
StoppedAfter(f) == stop'[f.event] => stoppedAt'[f.event] = f.at

EventInv == EventTypeOK /\ Framed /\ Told /\ Stops

(* The types of the events' state. *)
EventTypes ==
  /\ target \in [Event -> PathNode \cup {Null}]
  /\ currentTarget \in [Event -> PathNode \cup {Null}]
  /\ eventPhase \in [Event -> 0 .. 3]
  /\ stop \in [Event -> BOOLEAN] /\ stopNow \in [Event -> BOOLEAN]
  /\ stoppedAt \in [Event -> PathNode \cup {Null}]

(* The innermost dispatch of an event that has one. *)
LEMMA OuterMost ==
  ASSUME EventTypeOK, NEW e, OnStack(e) # {}
  PROVE  /\ Max(OnStack(e)) \in OnStack(e)
         /\ \A i \in OnStack(e) : i <= Max(OnStack(e))
<1> DEFINE S == OnStack(e)
           T == {n \in Nat : \E i \in S : n = Len(stack) - i}
<1>1. Len(stack) \in Nat /\ \A i \in S : i \in 1 .. Len(stack)
  BY FramesAre DEF OnStack
<1>2. T \in SUBSET Nat /\ T # {}
  <2>1. PICK i \in S : TRUE
    OBVIOUS
  <2>2. Len(stack) - i \in T
    BY <1>1
  <2> QED
    BY <2>2
<1>3. PICK n \in T : \A m \in T : n <= m
  BY <1>2, LeastNumber
<1>4. PICK x \in S : n = Len(stack) - x
  BY <1>3
<1>5. ASSUME NEW i \in S PROVE x >= i
  <2>1. Len(stack) - i \in T
    BY <1>1
  <2>2. n <= Len(stack) - i
    BY <1>3, <2>1
  <2> QED
    BY <1>1, <1>4, <2>2
<1> HIDE DEF S, T
<1>6. Max(S) \in S /\ \A i \in S : Max(S) >= i
  BY <1>4, <1>5 DEF Max
<1> QED
  BY <1>1, <1>6 DEF S

LEMMA StopEvents ==
  ASSUME EventInv, NEW e \in Event, NEW now \in BOOLEAN, StopPropagation(e, now)
  PROVE  EventTypes' /\ Told' /\ Stops'
<1> DEFINE x == Max(OnStack(e))
<1>1. /\ x \in DOMAIN stack /\ stack[x].event = e
      /\ \A i \in DOMAIN stack : stack[i].event = e => i <= x
  BY OuterMost DEF StopPropagation, EventInv, OnStack
<1>2. DOMAIN stack = 1 .. Len(stack) /\ Len(stack) \in Nat
  BY FramesAre DEF EventInv
<1>3. stack[x].running # Null
  <2>1. CASE x = Len(stack)
    BY <1>1, <1>2, <2>1, TopFacts, EmptySeq DEF StopPropagation, Script, EventInv
  <2>2. CASE x # Len(stack)
    BY <1>1, <1>2, <2>2 DEF EventInv, Framed, Busy
  <2> QED
    BY <2>1, <2>2
<1>4. stack[x].at \in PathNode
  BY <1>1, <1>3 DEF EventInv, Framed, Placed, PlacedAt
<1>5. /\ stop' = [stop EXCEPT ![e] = TRUE]
      /\ stopNow' = [stopNow EXCEPT ![e] = @ \/ now]
      /\ stoppedAt' = [stoppedAt EXCEPT ![e] = IF stop[e] THEN @ ELSE stack[x].at]
      /\ UNCHANGED <<target, currentTarget, eventPhase, stack>>
  BY DEF StopPropagation
<1>6. EventTypes'
  BY <1>4, <1>5 DEF EventInv, EventTypeOK, EventTypes
<1>7. Told'
  BY <1>5 DEF EventInv, Told, Innermost, NamedBy
<1>8. ASSUME NEW i \in DOMAIN stack, Innermost(stack[i]) PROVE StoppedAfter(stack[i])
  <2>1. CASE stack[i].event = e
    <3>1. i = x
      <4>1. ~(i < x)
        BY <1>1, <1>8, <2>1 DEF EventInv, Framed, AgainBelow, Innermost
      <4> QED
        BY <1>1, <1>2, <2>1, <4>1
    <3>2. stoppedAt'[e] = IF stop[e] THEN stoppedAt[e] ELSE stack[x].at
      BY <1>5 DEF EventInv, EventTypeOK
    <3>3. stop[e] => stoppedAt[e] = stack[x].at
      BY <1>8, <2>1, <3>1 DEF EventInv, Stops, StoppedHere
    <3> HIDE DEF x
    <3> QED
      BY <1>5, <2>1, <3>1, <3>2, <3>3 DEF StoppedAfter
  <2>2. CASE stack[i].event # e
    <3>1. stack[i].event \in Event
      BY <1>2, FramesAre DEF EventInv, Frame
    <3>2. stop'[stack[i].event] = stop[stack[i].event]
          /\ stoppedAt'[stack[i].event] = stoppedAt[stack[i].event]
      BY <1>5, <2>2, <3>1 DEF EventInv, EventTypeOK
    <3> QED
      BY <1>5, <1>8, <3>2 DEF EventInv, Stops, StoppedHere, StoppedAfter
  <2> QED
    BY <2>1, <2>2
<1>9. Stops'
  BY <1>5, <1>8 DEF Stops, Innermost, StoppedHere, StoppedAfter
<1> QED
  BY <1>6, <1>7, <1>9

(* Steps that leave the events alone, and every dispatch where it is. *)
LEMMA SameEvents ==
  ASSUME EventInv, UNCHANGED <<eventVars, stoppedAt>>,
         DOMAIN stack' = DOMAIN stack,
         \A i \in DOMAIN stack :
           /\ stack'[i].event = stack[i].event /\ stack'[i].again = stack[i].again
           /\ stack'[i].stage = stack[i].stage /\ stack'[i].at = stack[i].at
           /\ stack'[i].target = stack[i].target
  PROVE  EventTypes' /\ Told' /\ Stops'
<1>1. EventTypes'
  BY DEF EventInv, EventTypeOK, EventTypes, eventVars
<1>2. ASSUME NEW i \in DOMAIN stack, Innermost(stack'[i])
      PROVE  NamedAfter(stack'[i]) /\ StoppedAfter(stack'[i])
  <2>1. Innermost(stack[i])
    BY <1>2 DEF Innermost
  <2>2. NamedBy(stack[i]) /\ StoppedHere(stack[i])
    BY <2>1 DEF EventInv, Told, Stops
  <2> QED
    BY <2>2 DEF NamedBy, StoppedHere, NamedAfter, StoppedAfter, eventVars
<1>3. Told' /\ Stops'
  <2> SUFFICES ASSUME NEW i \in DOMAIN stack', Innermost(stack'[i])
               PROVE  NamedAfter(stack'[i]) /\ StoppedAfter(stack'[i])
    BY DEF Told, Stops, NamedBy, StoppedHere, NamedAfter, StoppedAfter
  <2> QED
    BY <1>2
<1> QED
  BY <1>1, <1>3

LEMMA TopEvents ==
  ASSUME EventInv, UNCHANGED <<eventVars, stoppedAt>>, NEW g, TopBecomes(g),
         g.event = Top.event, g.again = Top.again, g.stage = Top.stage,
         g.at = Top.at, g.target = Top.target
  PROVE  EventTypes' /\ Told' /\ Stops'
<1>1. /\ Len(stack) \in Nat \ {0} /\ DOMAIN stack = 1 .. Len(stack)
      /\ Top = stack[Len(stack)] /\ DOMAIN stack' = 1 .. Len(stack)
  BY TopFacts, LenProperties DEF TopBecomes, EventInv
<1>2. ASSUME NEW i \in DOMAIN stack
      PROVE  /\ stack'[i].event = stack[i].event /\ stack'[i].again = stack[i].again
             /\ stack'[i].stage = stack[i].stage /\ stack'[i].at = stack[i].at
             /\ stack'[i].target = stack[i].target
  <2>1. CASE i = Len(stack)
    BY <1>1, <2>1 DEF TopBecomes, Same
  <2>2. CASE i # Len(stack)
    BY <1>1, <2>2 DEF TopBecomes, Same
  <2> QED
    BY <2>1, <2>2
<1> QED
  BY <1>1, <1>2, SameEvents

LEMMA CallEvents ==
  ASSUME EventInv, Call
  PROVE  EventTypes' /\ Told' /\ Stops'
<1>1. TopBecomes(Called(Top)) /\ UNCHANGED <<eventVars, stoppedAt>> /\ Top \in Frame
  BY CallStep, TopFacts DEF EventInv, Call
<1> DEFINE g == Called(Top)
<1>2. /\ g.event = Top.event /\ g.again = Top.again /\ g.stage = Top.stage
      /\ g.at = Top.at /\ g.target = Top.target
  BY <1>1 DEF Called, Frame
<1> HIDE DEF g
<1> QED
  BY <1>1, <1>2, TopEvents DEF g

LEMMA ReturnEvents ==
  ASSUME EventInv, ListenerReturns
  PROVE  EventTypes' /\ Told' /\ Stops'
<1>1. TopBecomes(Returned(Top)) /\ UNCHANGED <<eventVars, stoppedAt>> /\ Top \in Frame
  BY ReturnStep, TopFacts DEF EventInv, ListenerReturns
<1> DEFINE g == Returned(Top)
<1>2. /\ g.event = Top.event /\ g.again = Top.again /\ g.stage = Top.stage
      /\ g.at = Top.at /\ g.target = Top.target
  BY <1>1 DEF Returned, Frame
<1> HIDE DEF g
<1> QED
  BY <1>1, <1>2, TopEvents DEF g

LEMMA RemoveEvents ==
  ASSUME EventInv, NEW n, NEW k, RemoveEventListener(n, k)
  PROVE  EventTypes' /\ Told' /\ Stops'
<1>1. stack \in Seq(Frame) /\ stack' = Drop(stack, n, k) /\ UNCHANGED <<eventVars, stoppedAt>>
  BY DEF RemoveEventListener, EventInv, EventTypeOK
<1>2. /\ Len(stack') = Len(stack) /\ stack' \in Seq(Frame)
      /\ \A i \in 1 .. Len(stack) : Same(stack[i], stack'[i])
  BY <1>1, DropFacts
<1>3. DOMAIN stack = 1 .. Len(stack) /\ DOMAIN stack' = 1 .. Len(stack)
  BY <1>1, <1>2, LenProperties
<1> QED
  BY <1>1, <1>2, <1>3, SameEvents DEF Same

LEMMA DispatchEvents ==
  ASSUME EventInv, NEW n \in Target, NEW e \in Event, DispatchEvent(n, e)
  PROVE  EventTypes' /\ Told' /\ Stops'
<1> DEFINE m == Len(stack)
<1>1. /\ stack' \in Seq(Frame) /\ Len(stack') = m + 1
      /\ \A i \in 1 .. m : stack'[i] = Outside(stack[i], e)
      /\ stack'[m + 1] = New(n, e)
  BY DispatchStep DEF EventInv
<1>2. /\ m \in Nat /\ DOMAIN stack = 1 .. m /\ DOMAIN stack' = 1 .. m + 1
      /\ \A i \in 1 .. m : stack[i] \in Frame
  BY <1>1, FramesAre, LenProperties DEF EventInv
<1> HIDE DEF m
<1>3. /\ target' = [target EXCEPT ![e] = n]
      /\ currentTarget' = [currentTarget EXCEPT ![e] = n]
      /\ eventPhase' = [eventPhase EXCEPT ![e] = 2]
      /\ UNCHANGED stoppedAt
  BY DEF DispatchEvent
<1>4. /\ stop' \in [Event -> BOOLEAN] /\ stopNow' \in [Event -> BOOLEAN]
      /\ \A x \in Event \ {e} : stop'[x] = stop[x]
  BY DEF DispatchEvent, EventInv, EventTypeOK
<1>5. EventTypes'
  <2>1. n \in PathNode /\ 2 \in 0 .. 3
    BY ScriptAssumption
  <2>2. /\ target' \in [Event -> PathNode \cup {Null}]
        /\ currentTarget' \in [Event -> PathNode \cup {Null}]
    BY <1>3, <2>1 DEF EventInv, EventTypeOK
  <2>3. /\ eventPhase' \in [Event -> 0 .. 3]
        /\ stoppedAt' \in [Event -> PathNode \cup {Null}]
    BY <1>3, <2>1 DEF EventInv, EventTypeOK
  <2> QED
    BY <1>4, <2>2, <2>3 DEF EventTypes
<1>6. ASSUME NEW i \in DOMAIN stack', Innermost(stack'[i])
      PROVE  NamedAfter(stack'[i]) /\ StoppedAfter(stack'[i])
  <2>1. i \in 1 .. m
    BY <1>1, <1>2, <1>6 DEF Innermost, New
  <2> DEFINE f == stack[i]
             g == stack'[i]
  <2>2. /\ g.event = f.event /\ g.stage = f.stage /\ g.at = f.at
        /\ g.target = f.target /\ g.again = (f.again \/ f.event = e) /\ f.event \in Event
    <3>1. g = Outside(f, e) /\ f \in Frame
      BY <1>1, <1>2, <2>1
    <3> HIDE DEF f, g
    <3> QED
      BY <3>1, OutsideFacts
  <2>3. Innermost(f) /\ f.event # e
    BY <1>6, <2>2 DEF Innermost
  <2>4. NamedBy(f) /\ StoppedHere(f)
    BY <1>2, <2>1, <2>3 DEF EventInv, Told, Stops
  <2> HIDE DEF f, g
  <2>5. /\ target'[f.event] = target[f.event]
        /\ currentTarget'[f.event] = currentTarget[f.event]
        /\ eventPhase'[f.event] = eventPhase[f.event]
        /\ stop'[f.event] = stop[f.event] /\ stoppedAt'[f.event] = stoppedAt[f.event]
    BY <1>3, <1>4, <2>2, <2>3 DEF EventInv, EventTypeOK
  <2>6. NamedAfter(g) /\ StoppedAfter(g)
    BY <2>2, <2>4, <2>5 DEF NamedBy, StoppedHere, NamedAfter, StoppedAfter
  <2> QED
    BY <2>6 DEF g
<1> QED
  BY <1>5, <1>6 DEF Told, Stops, NamedBy, StoppedHere, NamedAfter, StoppedAfter

LEMMA EnterEvents ==
  ASSUME EventInv, Enter
  PROVE  EventTypes' /\ Told' /\ Stops'
<1> DEFINE f == Top
           to == After(f)
           g == Entered(f)
           m == Len(stack)
<1>1. /\ TopBecomes(g) /\ stack # <<>> /\ MayEnter(f, to[1])
      /\ to[1] \in Stage \ {"begin", "end"} /\ to[2] \in PathNode
  BY EnterStep DEF Enter, EventInv, Framed
<1>2. /\ f \in Frame /\ f = stack[m] /\ m \in Nat \ {0} /\ DOMAIN stack = 1 .. m
      /\ DOMAIN stack' = 1 .. m
  BY <1>1, TopFacts, LenProperties DEF EventInv, TopBecomes
<1>3. PlacedAt(f)
  BY <1>2 DEF EventInv, Framed, Placed
<1>4. f.event \in Event /\ f.target \in PathNode
  BY <1>2 DEF Frame
<1>5. /\ g.event = f.event /\ g.again = f.again /\ g.stage = to[1] /\ g.at = to[2]
      /\ g.target = f.target
  BY <1>2 DEF Entered, Here, Frame
<1>6. /\ to[1] \in {"target1", "target2"} => to[2] = f.target
      /\ to[1] = "target2" => f.stage = "target1" /\ to[2] = f.at
  BY <1>2, <1>3, AfterFacts DEF PlacedAt
<1>7. UNCHANGED <<stop, stopNow, stoppedAt>>
  BY DEF Enter
<1>8. \/ /\ to[1] = "target2" /\ UNCHANGED <<target, currentTarget, eventPhase>>
      \/ /\ to[1] # "target2"
         /\ target' = [target EXCEPT ![f.event] = f.target]
         /\ currentTarget' = [currentTarget EXCEPT ![f.event] = to[2]]
         /\ eventPhase' = [eventPhase EXCEPT ![f.event] = PhaseOf(to[1])]
  BY DEF Enter, NamesNode
<1>9. PhaseOf(to[1]) \in 0 .. 3 /\ PhaseOf("target1") = PhaseOf("target2")
  BY DEF PhaseOf
<1>10. EventTypes'
  <2> HIDE DEF f, g, to, m
  <2>1. CASE to[1] = "target2"
    BY <1>7, <1>8, <2>1 DEF EventInv, EventTypeOK, EventTypes
  <2>2. CASE to[1] # "target2"
    <3>1. target' \in [Event -> PathNode \cup {Null}]
      BY <1>4, <1>8, <2>2 DEF EventInv, EventTypeOK
    <3>2. currentTarget' \in [Event -> PathNode \cup {Null}]
      BY <1>1, <1>8, <2>2 DEF EventInv, EventTypeOK
    <3>3. eventPhase' \in [Event -> 0 .. 3]
      BY <1>8, <1>9, <2>2 DEF EventInv, EventTypeOK
    <3> QED
      BY <1>7, <3>1, <3>2, <3>3 DEF EventInv, EventTypeOK, EventTypes
  <2> QED
    BY <2>1, <2>2
<1>11. /\ Same(g, stack'[m]) /\ \A i \in 1 .. m - 1 : Same(stack[i], stack'[i])
  BY <1>1 DEF TopBecomes
<1> HIDE DEF f, g, to, m
<1>12. ASSUME Innermost(g) PROVE NamedAfter(g) /\ StoppedAfter(g)
  <2>1. CASE to[1] = "target2"
    <3>1. Innermost(f)
      BY <1>5, <1>6, <1>12, <2>1 DEF Innermost
    <3>2. NamedBy(f) /\ StoppedHere(f)
      BY <1>2, <3>1 DEF EventInv, Told, Stops
    <3> QED
      BY <1>5, <1>6, <1>7, <1>8, <1>9, <2>1, <3>2 DEF NamedBy, StoppedHere, NamedAfter, StoppedAfter
  <2>2. CASE to[1] # "target2"
    <3>1. ~stop[f.event]
      BY <1>1, <2>2 DEF MayEnter
    <3> QED
      BY <1>4, <1>5, <1>7, <1>8, <2>2, <3>1 DEF EventInv, EventTypeOK, NamedBy, StoppedHere, NamedAfter, StoppedAfter
  <2> QED
    BY <2>1, <2>2
<1>13. ASSUME NEW i \in 1 .. m - 1, Innermost(stack[i])
       PROVE  NamedAfter(stack[i]) /\ StoppedAfter(stack[i])
  <2>1. i \in DOMAIN stack /\ m \in DOMAIN stack /\ i < m
    BY <1>2
  <2>2. stack[i].event # f.event
    BY <1>2, <1>13, <2>1 DEF EventInv, Framed, AgainBelow, Innermost
  <2>3. NamedBy(stack[i]) /\ StoppedHere(stack[i]) /\ stack[i].event \in Event
    BY <1>13, <2>1, FramesAre DEF EventInv, Told, Stops, Frame
  <2>4. /\ target'[stack[i].event] = target[stack[i].event]
        /\ currentTarget'[stack[i].event] = currentTarget[stack[i].event]
        /\ eventPhase'[stack[i].event] = eventPhase[stack[i].event]
    BY <1>8, <2>2, <2>3 DEF EventInv, EventTypeOK
  <2> QED
    BY <1>7, <2>3, <2>4 DEF NamedBy, StoppedHere, NamedAfter, StoppedAfter
<1>14. ASSUME NEW i \in DOMAIN stack', Innermost(stack'[i])
       PROVE  NamedAfter(stack'[i]) /\ StoppedAfter(stack'[i])
  <2>1. CASE i = m
    BY <1>11, <1>12, <1>14, <2>1 DEF Same, Innermost, NamedBy, StoppedHere, NamedAfter, StoppedAfter
  <2>2. CASE i # m
    <3>1. i \in 1 .. m - 1
      BY <1>2, <2>2
    <3> QED
      BY <1>11, <1>13, <1>14, <3>1 DEF Same, Innermost, NamedBy, StoppedHere, NamedAfter, StoppedAfter
  <2> QED
    BY <2>1, <2>2
<1> QED
  BY <1>10, <1>14 DEF Told, Stops, NamedBy, StoppedHere, NamedAfter, StoppedAfter

(* The event of the dispatch that ended: what is left of it is again. *)
LEMMA EndEvents ==
  ASSUME EventInv, EndDispatch
  PROVE  EventTypes' /\ Told' /\ Stops'
<1> DEFINE m == Len(stack)
           e == Top.event
           last == OnStack(e) = {m}
<1>1. /\ stack # <<>> /\ stack \in Seq(Frame) /\ stack' = Front(stack)
      /\ currentTarget' = [currentTarget EXCEPT ![e] = Null]
      /\ eventPhase' = [eventPhase EXCEPT ![e] = 0]
      /\ target' = [target EXCEPT ![e] = IF last THEN Null ELSE @]
      /\ stop' = [stop EXCEPT ![e] = @ /\ ~last]
      /\ stopNow' = [stopNow EXCEPT ![e] = @ /\ ~last]
      /\ stoppedAt' = [stoppedAt EXCEPT ![e] = IF last THEN Null ELSE @]
  BY DEF EndDispatch, EventInv, EventTypeOK
<1>2. /\ stack' \in Seq(Frame) /\ Len(stack') = m - 1 /\ m \in Nat \ {0}
      /\ \A i \in 1 .. m - 1 : stack'[i] = stack[i]
  BY <1>1, FrontFacts
<1>3. /\ DOMAIN stack' = 1 .. m - 1 /\ DOMAIN stack = 1 .. m
      /\ Top = stack[m] /\ Top \in Frame
  BY <1>1, <1>2, TopFacts, LenProperties DEF EventInv
<1>4. e \in Event
  BY <1>3 DEF Frame
<1> HIDE DEF m, e, last
<1>5. EventTypes'
  <2>1. last \in BOOLEAN
    BY DEF last
  <2> QED
    BY <1>1, <1>4, <2>1 DEF EventInv, EventTypeOK, EventTypes
<1>6. ASSUME NEW i \in DOMAIN stack', Innermost(stack'[i])
      PROVE  NamedAfter(stack'[i]) /\ StoppedAfter(stack'[i])
  <2>1. i \in DOMAIN stack /\ m \in DOMAIN stack /\ i < m /\ stack'[i] = stack[i]
    BY <1>2, <1>3
  <2>2. stack[i].event # e
    BY <1>3, <1>6, <2>1 DEF e, EventInv, Framed, AgainBelow, Innermost
  <2>3. NamedBy(stack[i]) /\ StoppedHere(stack[i]) /\ stack[i].event \in Event
    BY <1>6, <2>1, FramesAre DEF EventInv, Told, Stops, Frame
  <2> DEFINE x == stack[i].event
  <2>4. /\ target'[x] = target[x] /\ currentTarget'[x] = currentTarget[x]
        /\ eventPhase'[x] = eventPhase[x] /\ stop'[x] = stop[x]
        /\ stoppedAt'[x] = stoppedAt[x]
    BY <1>1, <2>2, <2>3 DEF EventInv, EventTypeOK
  <2> QED
    BY <2>1, <2>3, <2>4 DEF NamedBy, StoppedHere, NamedAfter, StoppedAfter
<1> QED
  BY <1>5, <1>6 DEF Told, Stops, NamedBy, StoppedHere, NamedAfter, StoppedAfter

-----------------------------------------------------------------------------
(* The invariant. *)
LEMMA EventInitially ==
  ASSUME EventInit
  PROVE  EventInv
<1>1. <<>> \in Seq(Entry) /\ <<>> \in Seq(Frame) /\ DOMAIN <<>> = {} /\ Len(<<>>) = 0
  BY EmptySeq
<1>2. EventTypeOK
  BY <1>1 DEF EventInit, EventTypeOK
<1>3. Framed /\ Told /\ Stops
  BY <1>1 DEF EventInit, Framed, Placed, Busy, AgainBelow, Owed, Told, Stops
<1> QED
  BY <1>2, <1>3 DEF EventInv

LEMMA StackStep ==
  ASSUME EventInv, [EventNext]_dispatchVars
  PROVE  stack' \in Seq(Frame)
<1>1. EventTypeOK /\ Placed /\ stack \in Seq(Frame)
  BY DEF EventInv, Framed, EventTypeOK
<1>2. CASE UNCHANGED stack
  BY <1>1, <1>2
<1>3. CASE Call \/ Enter \/ ListenerReturns
  BY <1>1, <1>3, CallStep, EnterStep, ReturnStep DEF TopBecomes
<1>4. CASE EndDispatch
  BY <1>1, <1>4, FrontFacts DEF EndDispatch
<1>5. ASSUME NEW n \in Target, NEW e \in Event, DispatchEvent(n, e)
      PROVE  stack' \in Seq(Frame)
  BY <1>1, <1>5, DispatchStep
<1>6. ASSUME NEW n, NEW k, RemoveEventListener(n, k)
      PROVE  stack' \in Seq(Frame)
  BY <1>1, <1>6, DropFacts DEF RemoveEventListener
<1> QED
  BY <1>2, <1>3, <1>4, <1>5, <1>6
     DEF EventNext, AddEventListener, StopPropagation, dispatchVars

LEMMA EventsStep ==
  ASSUME EventInv, [EventNext]_dispatchVars
  PROVE  EventTypes' /\ Told' /\ Stops'
<1>1. CASE UNCHANGED <<eventVars, stoppedAt, stack>>
  BY <1>1, SameEvents
<1>2. CASE UNCHANGED dispatchVars
  BY <1>1, <1>2 DEF dispatchVars
<1>3. ASSUME NEW n, NEW l, AddEventListener(n, l) PROVE EventTypes' /\ Told' /\ Stops'
  BY <1>1, <1>3 DEF AddEventListener
<1> QED
  BY <1>2, <1>3, RemoveEvents, StopEvents, DispatchEvents, CallEvents, EnterEvents,
     EndEvents, ReturnEvents DEF EventNext

LEMMA EventStep ==
  ASSUME EventInv, [EventNext]_dispatchVars
  PROVE  EventInv'
<1>1. EventTypeOK /\ Framed /\ Placed
  BY DEF EventInv, Framed
<1>2. Framed' /\ EventTypes' /\ Told' /\ Stops' /\ stack' \in Seq(Frame)
  BY <1>1, FramedStep, EventsStep, StackStep
<1>3. /\ listeners' \in [PathNode -> Seq(Entry)]
      /\ \A n \in PathNode : Unique(listeners'[n])
  BY <1>1, ListsStep
<1>4. EventTypeOK'
  BY <1>2, <1>3 DEF EventTypeOK, EventTypes, Unique
<1> QED
  BY <1>2, <1>4 DEF EventInv

(* The invariant of the dispatch holds in every state: types, the frames of  *)
(* the dispatches inside each other (invokeEventListenersAtNode), what they  *)
(* called and still have to call, and the stops they obeyed.                 *)
THEOREM EventInvariant == EventSpec => []EventInv
<1>1. EventInit => EventInv
  BY EventInitially
<1>2. EventInv /\ [EventNext]_dispatchVars => EventInv'
  BY EventStep
<1> QED
  BY <1>1, <1>2, PTL DEF EventSpec

(* The dispatch state is typed, and no list of listeners (typeMap) holds a *)
(* function twice for one capture flag, however scripts add and remove.    *)
THEOREM EventTyped == EventSpec => []EventTypeOK
<1>1. EventInv => EventTypeOK
  BY DEF EventInv
<1> QED
  BY <1>1, EventInvariant, PTL

(* currentTarget, eventPhase and target are those of the listener's node   *)
(* while it runs, whatever dispatchEvent calls run inside it, unless it is *)
(* this event that is dispatched again.                                    *)
THEOREM EventNamesNode == EventSpec => []ListenerSeesItsNode
<1>1. ASSUME EventInv, NEW i \in DOMAIN stack,
             stack[i].running # Null, ~stack[i].again
      PROVE  NamedBy(stack[i])
  <2>1. Innermost(stack[i])
    BY <1>1 DEF EventInv, Framed, Placed, PlacedAt, Innermost
  <2> QED
    BY <1>1, <2>1 DEF EventInv, Told
<1>2. EventInv => ListenerSeesItsNode
  BY <1>1 DEF ListenerSeesItsNode, NamedBy
<1> QED
  BY <1>2, EventInvariant, PTL

(* invokeEventListenersAtNode skips nobody: when it has gone over its copy  *)
(* to the end, every listener that was there and has not been removed was   *)
(* called, however the listeners changed the list meanwhile.                *)
THEOREM EventReachesAll == EventSpec => []NoneSkipped
<1>1. ASSUME EventInv, NEW i \in DOMAIN stack, stack[i].running = Null,
             ~Pending(stack[i]), ~stopNow[stack[i].event]
      PROVE  stack[i].owed = {}
  <2> DEFINE f == stack[i]
  <2>1. f \in Frame /\ OwesAhead(f)
    BY <1>1, FramesAre DEF EventInv, Framed, Owed
  <2>2. ~(f.i <= Len(f.entries))
    BY <1>1 DEF Pending, Entries
  <2>3. f.i \in Nat /\ Len(f.entries) \in Nat
    BY <2>1, LenProperties DEF Frame
  <2>4. f.i .. Len(f.entries) = {}
    BY <2>2, <2>3
  <2> QED
    BY <1>1, <2>1, <2>4 DEF OwesAhead, Ahead
<1>2. EventInv => NoneSkipped
  BY <1>1 DEF NoneSkipped
<1> QED
  BY <1>2, EventInvariant, PTL

(* Only a call starts a listener. *)
LEMMA StartsByCall ==
  ASSUME EventInv, [EventNext]_dispatchVars, stack # <<>>, Len(stack') = Len(stack),
         Top.running = Null, Last(stack').running # Null
  PROVE  Call
<1>1. EventTypeOK /\ Placed /\ ~Script
  BY DEF EventInv, Framed, Script
<1>2. ASSUME UNCHANGED stack PROVE FALSE
  BY <1>2 DEF Top
<1>3. ~EndDispatch
  <2>1. ASSUME EndDispatch PROVE FALSE
    <3>1. Len(stack') = Len(stack) - 1 /\ Len(stack) \in Nat
      BY <1>1, <2>1, FrontFacts DEF EndDispatch, EventTypeOK
    <3> QED
      BY <3>1
  <2> QED
    BY <2>1
<1>4. ~Enter
  <2>1. ASSUME Enter PROVE FALSE
    <3> DEFINE g == Entered(Top)
    <3>1. TopBecomes(g) /\ Top \in Frame
      BY <1>1, <2>1, EnterStep, TopFacts
    <3>2. g.running = Top.running
      BY <3>1 DEF Entered, Here, Frame
    <3> HIDE DEF g
    <3>3. stack'[Len(stack)].running = Null
      BY <3>1, <3>2 DEF TopBecomes, Same
    <3> QED
      BY <3>3 DEF Last
  <2> QED
    BY <2>1
<1> QED
  BY <1>1, <1>2, <1>3, <1>4
     DEF EventNext, AddEventListener, RemoveEventListener, StopPropagation,
         DispatchEvent, ListenerReturns, dispatchVars

(* stopImmediatePropagation ends the visit it is called in, and             *)
(* stopPropagation lets only the listeners of the same node go on.          *)
THEOREM EventStops == EventSpec => StopIsObeyed
<1>1. ASSUME EventInv, [EventNext]_dispatchVars, stack # <<>>, Len(stack') = Len(stack),
             Top.running = Null, Last(stack').running # Null
      PROVE  /\ ~stopNow[Top.event]
             /\ stop[Top.event] /\ ~Top.again => stoppedAt[Top.event] = Top.at
  <2>1. Pending(Top)
    BY <1>1, StartsByCall DEF Call
  <2>2. Top = stack[Len(stack)] /\ Len(stack) \in DOMAIN stack /\ Top \in Frame
    BY <1>1, TopFacts DEF EventInv
  <2>3. Top.stage # "begin"
    <3>1. ASSUME Top.stage = "begin" PROVE FALSE
      <4>1. Top.entries = <<>> /\ Top.i \in Nat \ {0}
        BY <1>1, <2>2, <3>1 DEF EventInv, Framed, Placed, PlacedAt, Frame
      <4> QED
        BY <2>1, <4>1, EmptySeq DEF Pending, Entries
    <3> QED
      BY <3>1
  <2>4. ~Top.again => StoppedHere(Top)
    BY <1>1, <2>2, <2>3 DEF EventInv, Stops, Innermost
  <2> QED
    BY <2>1, <2>4 DEF Pending, StoppedHere
<1>2. EventInv /\ [EventNext]_dispatchVars =>
        [ /\ Len(stack') = Len(stack) /\ stack # <<>>
          /\ Top.running = Null /\ Last(stack').running # Null
          => /\ ~stopNow[Top.event]
             /\ stop[Top.event] /\ ~Top.again => stoppedAt[Top.event] = Top.at ]_dispatchVars
  BY <1>1
<1> QED
  BY <1>2, EventInvariant, PTL DEF EventSpec, StopIsObeyed
=============================================================================
