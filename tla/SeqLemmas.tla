----------------------------- MODULE SeqLemmas ------------------------------
(***************************************************************************)
(* What the sequence operators the modules use do to the positions and to  *)
(* the elements of a sequence: the chains of js_store.c and the nodes of   *)
(* the timers' tree are such sequences.                                    *)
(***************************************************************************)
EXTENDS Integers, SequencesExt, SequenceTheorems, WellFoundedInduction, TLAPS

\* The range of a sequence is what its positions hold.
LEMMA RangeIs ==
  ASSUME NEW S, NEW s \in Seq(S)
  PROVE  /\ DOMAIN s = 1 .. Len(s) /\ Len(s) \in Nat
         /\ \A i \in DOMAIN s : s[i] \in S /\ s[i] \in Range(s)
         /\ \A e \in Range(s) : e \in S /\ \E i \in DOMAIN s : s[i] = e
  BY DEF Range

\* A new element in front.
LEMMA PrependIs ==
  ASSUME NEW S, NEW s \in Seq(S), NEW e \in S
  PROVE  /\ <<e>> \o s \in Seq(S)
         /\ Len(<<e>> \o s) = Len(s) + 1
         /\ (<<e>> \o s)[1] = e
         /\ \A i \in 1 .. Len(s) : (<<e>> \o s)[i + 1] = s[i]
         /\ Range(<<e>> \o s) = {e} \union Range(s)
<1>1. <<e>> \in Seq(S) /\ Len(<<e>>) = 1 /\ <<e>>[1] = e /\ Len(s) \in Nat
  OBVIOUS
<1>2. /\ <<e>> \o s \in Seq(S)
      /\ Len(<<e>> \o s) = Len(s) + 1
      /\ \A i \in 1 .. 1 + Len(s) : (<<e>> \o s)[i] = IF i <= 1 THEN <<e>>[i] ELSE s[i - 1]
  BY <1>1, ConcatProperties
<1>3. (<<e>> \o s)[1] = e /\ \A i \in 1 .. Len(s) : (<<e>> \o s)[i + 1] = s[i]
  BY <1>1, <1>2
<1>4. Range(<<e>>) = {e}
  BY DEF Range
<1>5. Range(<<e>> \o s) = {e} \union Range(s)
  <2> DEFINE t == <<e>>
  <2>1. t \in Seq(S) /\ Range(t) = {e}
    BY <1>1, <1>4
  <2> HIDE DEF t
  <2>2. Range(t \o s) = Range(t) \union Range(s)
    BY <2>1, RangeConcatenation
  <2>3. QED
    BY <2>1, <2>2 DEF t
<1>6. QED
  BY <1>2, <1>3, <1>5

\* A sequence without its position i.
LEMMA RemoveAtIs ==
  ASSUME NEW S, NEW s \in Seq(S), NEW i \in 1 .. Len(s)
  PROVE  /\ RemoveAt(s, i) \in Seq(S)
         /\ Len(RemoveAt(s, i)) = Len(s) - 1
         /\ \A j \in 1 .. Len(s) - 1 : RemoveAt(s, i)[j] = IF j < i THEN s[j] ELSE s[j + 1]
<1> DEFINE a == SubSeq(s, 1, i - 1)
           z == SubSeq(s, i + 1, Len(s))
<1>1. /\ a \in Seq(S) /\ Len(a) = i - 1
      /\ \A j \in 1 .. i - 1 : a[j] = s[j]
  <2>1. 1 \in Int /\ i - 1 \in Int /\ \A j \in 1 .. i - 1 : s[j] \in S
    BY RangeIs
  <2>2. QED
    BY <2>1, SubSeqProperties
<1>2. /\ z \in Seq(S) /\ Len(z) = Len(s) - i
      /\ \A j \in 1 .. Len(s) - i : z[j] = s[i + j]
  <2>1. i + 1 \in Int /\ Len(s) \in Int /\ \A j \in i + 1 .. Len(s) : s[j] \in S
    BY RangeIs
  <2>2. /\ z \in Seq(S)
        /\ Len(z) = IF i + 1 <= Len(s) THEN Len(s) - (i + 1) + 1 ELSE 0
        /\ \A j \in 1 .. Len(s) - (i + 1) + 1 : z[j] = s[(i + 1) + j - 1]
    BY <2>1, SubSeqProperties
  <2>3. QED
    BY <2>1, <2>2
<1> HIDE DEF a, z
<1>3. /\ a \o z \in Seq(S)
      /\ Len(a \o z) = Len(a) + Len(z)
      /\ \A j \in 1 .. Len(a) + Len(z) : (a \o z)[j] = IF j <= Len(a) THEN a[j] ELSE z[j - Len(a)]
  BY <1>1, <1>2, ConcatProperties
<1> DEFINE r == a \o z
<1>4. RemoveAt(s, i) = r
  BY DEF RemoveAt, a, z
<1>5. Len(s) \in Nat /\ Len(a) = i - 1 /\ Len(z) = Len(s) - i /\ r \in Seq(S) /\ Len(r) = Len(a) + Len(z)
  BY <1>1, <1>2, <1>3
<1>6. ASSUME NEW j \in 1 .. Len(s) - 1 PROVE r[j] = IF j < i THEN s[j] ELSE s[j + 1]
  <2>1. r[j] = IF j <= Len(a) THEN a[j] ELSE z[j - Len(a)]
    BY <1>3, <1>5
  <2>2. CASE j < i
    BY <1>1, <1>5, <2>1, <2>2
  <2>3. CASE j >= i
    <3>1. j - (i - 1) \in 1 .. Len(s) - i
      BY <1>5, <2>3
    <3>2. z[j - (i - 1)] = s[i + (j - (i - 1))]
      BY <1>2, <3>1
    <3>3. i + (j - (i - 1)) = j + 1
      OBVIOUS
    <3>4. QED
      BY <1>5, <2>1, <2>3, <3>2, <3>3
  <2>4. QED
    BY <1>5, <2>2, <2>3
<1> HIDE DEF r
<1>7. QED
  BY <1>4, <1>5, <1>6

\* Removing an element takes it off a sequence on which it is once, and no other.
LEMMA RemoveFirstIs ==
  ASSUME NEW S, NEW s \in Seq(S), NEW i \in 1 .. Len(s),
         \A j \in 1 .. Len(s) : s[j] = s[i] => j = i
  PROVE  /\ RemoveFirst(s, s[i]) = RemoveAt(s, i)
         /\ Range(RemoveAt(s, i)) = Range(s) \ {s[i]}
<1> DEFINE e == s[i]
           I == {j \in 1 .. Len(s) : s[j] = e}
           r == RemoveAt(s, i)
<1>1. I = {i} /\ Min(I) = i
  <2>1. I = {i}
    OBVIOUS
  <2>2. QED
    BY <2>1 DEF Min
<1>2. SelectInSeq(s, LAMBDA v : v = e) = i
  <2> HIDE DEF e
  <2>1. SelectInSeq(s, LAMBDA v : v = e) = IF I # {} THEN Min(I) ELSE 0
    BY DEF SelectInSeq
  <2> HIDE DEF I
  <2>2. QED
    BY <1>1, <2>1
<1>3. RemoveFirst(s, e) = r
  BY <1>2 DEF RemoveFirst
<1>4. /\ r \in Seq(S) /\ Len(r) = Len(s) - 1
      /\ \A j \in 1 .. Len(s) - 1 : r[j] = IF j < i THEN s[j] ELSE s[j + 1]
  BY RemoveAtIs
<1> HIDE DEF r
<1>5. ASSUME NEW x \in Range(r) PROVE x \in Range(s) \ {e}
  <2>1. PICK j \in 1 .. Len(s) - 1 : r[j] = x
    BY <1>4, RangeIs
  <2>2. CASE j < i
    BY <1>4, <2>1, <2>2, RangeIs
  <2>3. CASE j >= i
    BY <1>4, <2>1, <2>3, RangeIs
  <2>4. QED
    BY <2>2, <2>3
<1>6. ASSUME NEW x \in Range(s) \ {e} PROVE x \in Range(r)
  <2>1. PICK j \in 1 .. Len(s) : s[j] = x
    BY RangeIs
  <2>2. CASE j < i
    <3>1. j \in 1 .. Len(s) - 1 /\ r[j] = x
      BY <1>4, <2>1, <2>2
    <3>2. QED
      BY <1>4, <3>1, RangeIs
  <2>3. CASE j > i
    <3>1. j - 1 \in 1 .. Len(s) - 1 /\ r[j - 1] = x
      BY <1>4, <2>1, <2>3
    <3>2. QED
      BY <1>4, <3>1, RangeIs
  <2>4. j # i
    BY <2>1
  <2>5. QED
    BY <2>2, <2>3, <2>4
<1>7. QED
  BY <1>3, <1>5, <1>6 DEF r

\* A sequence with a new element at position i.
LEMMA InsertAtIs ==
  ASSUME NEW S, NEW s \in Seq(S), NEW x \in S, NEW i \in 1 .. Len(s) + 1
  PROVE  /\ InsertAt(s, i, x) \in Seq(S)
         /\ Len(InsertAt(s, i, x)) = Len(s) + 1
         /\ InsertAt(s, i, x)[i] = x
         /\ \A j \in 1 .. Len(s) + 1 :
              j # i => InsertAt(s, i, x)[j] = IF j < i THEN s[j] ELSE s[j - 1]
         /\ Range(InsertAt(s, i, x)) = Range(s) \union {x}
<1> DEFINE a == SubSeq(s, 1, i - 1)
           m == <<x>>
           z == SubSeq(s, i, Len(s))
<1>1. /\ a \in Seq(S) /\ Len(a) = i - 1
      /\ \A j \in 1 .. i - 1 : a[j] = s[j]
  <2>1. 1 \in Int /\ i - 1 \in Int /\ \A j \in 1 .. i - 1 : s[j] \in S
    BY RangeIs
  <2>2. QED
    BY <2>1, SubSeqProperties
<1>2. /\ z \in Seq(S) /\ Len(z) = Len(s) - i + 1
      /\ \A j \in 1 .. Len(s) - i + 1 : z[j] = s[i + j - 1]
  <2>1. i \in Int /\ Len(s) \in Int /\ \A j \in i .. Len(s) : s[j] \in S
    BY RangeIs
  <2>2. /\ z \in Seq(S)
        /\ Len(z) = IF i <= Len(s) THEN Len(s) - i + 1 ELSE 0
        /\ \A j \in 1 .. Len(s) - i + 1 : z[j] = s[i + j - 1]
    BY <2>1, SubSeqProperties
  <2>3. QED
    BY <2>1, <2>2
<1>3. m \in Seq(S) /\ Len(m) = 1 /\ m[1] = x
  OBVIOUS
<1> HIDE DEF a, m, z
<1> DEFINE am == a \o m
<1>4. /\ am \in Seq(S) /\ Len(am) = i
      /\ \A j \in 1 .. i : am[j] = IF j < i THEN s[j] ELSE x
  <2>1. /\ am \in Seq(S) /\ Len(am) = Len(a) + Len(m)
        /\ \A j \in 1 .. Len(a) + Len(m) : am[j] = IF j <= Len(a) THEN a[j] ELSE m[j - Len(a)]
    BY <1>1, <1>3, ConcatProperties
  <2>2. QED
    BY <1>1, <1>3, <2>1
<1> HIDE DEF am
<1> DEFINE r == am \o z
<1>5. /\ r \in Seq(S) /\ Len(r) = Len(am) + Len(z)
      /\ \A j \in 1 .. Len(am) + Len(z) : r[j] = IF j <= Len(am) THEN am[j] ELSE z[j - Len(am)]
  BY <1>2, <1>4, ConcatProperties
<1>6. InsertAt(s, i, x) = r
  BY DEF InsertAt, a, m, z, am
<1> HIDE DEF r
<1>7. Len(s) \in Nat /\ DOMAIN s = 1 .. Len(s) /\ Len(r) = Len(s) + 1 /\ DOMAIN r = 1 .. Len(s) + 1
  BY <1>2, <1>4, <1>5, RangeIs
<1>8. r[i] = x
  BY <1>4, <1>5, <1>7
<1>9. ASSUME NEW j \in 1 .. Len(s) + 1, j # i PROVE r[j] = IF j < i THEN s[j] ELSE s[j - 1]
  <2>1. CASE j < i
    BY <1>4, <1>5, <1>7, <2>1
  <2>2. CASE j > i
    <3>1. j - i \in 1 .. Len(s) - i + 1 /\ i + (j - i) - 1 = j - 1
      BY <1>7, <2>2
    <3>2. z[j - i] = s[i + (j - i) - 1]
      BY <1>2, <3>1
    <3>3. r[j] = z[j - i]
      BY <1>2, <1>4, <1>5, <1>7, <2>2
    <3>4. QED
      BY <2>2, <3>1, <3>2, <3>3
  <2>3. QED
    BY <1>7, <1>9, <2>1, <2>2
<1>10. ASSUME NEW y \in Range(r) PROVE y \in Range(s) \union {x}
  <2>1. PICK j \in 1 .. Len(s) + 1 : r[j] = y
    BY <1>5, <1>7, RangeIs
  <2>2. CASE j = i
    BY <1>8, <2>1, <2>2
  <2>3. CASE j < i
    BY <1>7, <1>9, <2>1, <2>3, RangeIs
  <2>4. CASE j > i
    <3>1. r[j] = s[j - 1] /\ j - 1 \in 1 .. Len(s)
      BY <1>7, <1>9, <2>4
    <3>2. QED
      BY <2>1, <3>1, RangeIs
  <2>5. QED
    BY <2>2, <2>3, <2>4
<1>11. ASSUME NEW y \in Range(s) PROVE y \in Range(r)
  <2>1. PICK j \in 1 .. Len(s) : s[j] = y
    BY RangeIs
  <2>2. CASE j < i
    <3>1. j \in 1 .. Len(s) + 1 /\ r[j] = y
      BY <1>7, <1>9, <2>1, <2>2
    <3>2. QED
      BY <1>5, <1>7, <3>1, RangeIs
  <2>3. CASE j >= i
    <3>1. j + 1 \in 1 .. Len(s) + 1 /\ j + 1 # i /\ ~(j + 1 < i) /\ (j + 1) - 1 = j
      BY <1>7, <2>3
    <3>2. r[j + 1] = y
      BY <1>9, <2>1, <3>1
    <3>3. QED
      BY <1>5, <1>7, <3>1, <3>2, RangeIs
  <2>4. QED
    BY <1>7, <2>2, <2>3
<1>12. x \in Range(r)
  BY <1>5, <1>7, <1>8, RangeIs
<1>13. QED
  BY <1>5, <1>6, <1>7, <1>8, <1>9, <1>10, <1>11, <1>12

-----------------------------------------------------------------------------
(* Induction over numbers and recursive functions.  The induction theorems *)
(* of the library take an operator; here a set stands for it.              *)

\* A set of naturals has a least element.
LEMMA LeastNatural ==
  ASSUME NEW T \in SUBSET Nat, T # {}
  PROVE  \E x \in T : \A y \in T : x <= y
<1> DEFINE R == OpToRel(<, Nat)
<1>1. IsWellFoundedOn(R, Nat)
  BY NatLessThanWellFounded
<1>2. \A x, y \in Nat : x < y => <<x, y>> \in R
  BY DEF OpToRel
<1> HIDE DEF R
<1>3. PICK x \in T : \A y \in T : ~ (<<y, x>> \in R)
  BY <1>1, WFMin
<1>4. \A y \in T : ~ (y < x) /\ y \in Nat /\ x \in Nat
  BY <1>2, <1>3
<1>5. QED
  BY <1>4

\* What holds of 0 and passes from each number below n to the next one holds up to n.
LEMMA UpTo ==
  ASSUME NEW n \in Nat, NEW G, 0 \in G, \A i \in 1 .. n : i - 1 \in G => i \in G
  PROVE  \A i \in 0 .. n : i \in G
<1> DEFINE Bad == {i \in 0 .. n : i \notin G}
<1> SUFFICES ASSUME Bad # {} PROVE FALSE
  OBVIOUS
<1>1. Bad \in SUBSET Nat
  OBVIOUS
<1>2. PICK k \in Bad : \A j \in Bad : k <= j
  BY <1>1, LeastNatural
<1>3. k \in 1 .. n /\ k - 1 \in 0 .. n
  BY <1>2
<1>4. k - 1 \notin Bad
  BY <1>2, <1>3
<1>5. QED
  BY <1>2, <1>3, <1>4

\* A function on 0 .. n is made from its first value, one step after the other.
Steps(n, b, step, f) ==
    /\ f = [i \in 0 .. n |-> f[i]]
    /\ f[0] = b
    /\ \A i \in 1 .. n : f[i] = step[i][f[i - 1]]

\* There is one, whatever the steps.
LEMMA StepsExist ==
  ASSUME NEW n \in Nat, NEW b, NEW step
  PROVE  \E f : Steps(n, b, step, f)
<1> DEFINE G == {m \in 0 .. n : \E f : Steps(m, b, step, f)}
<1>1. 0 \in G
  <2> DEFINE f == [i \in 0 .. 0 |-> b]
  <2>1. Steps(0, b, step, f)
    BY DEF Steps
  <2>2. QED
    BY <2>1
<1>2. ASSUME NEW i \in 1 .. n, i - 1 \in G PROVE i \in G
  <2>1. PICK f : Steps(i - 1, b, step, f)
    BY <1>2
  <2> DEFINE g == [j \in 0 .. i |-> IF j = i THEN step[i][f[i - 1]] ELSE f[j]]
  <2>2. g = [j \in 0 .. i |-> g[j]] /\ g[0] = b
    BY <2>1 DEF Steps
  <2>3. ASSUME NEW j \in 1 .. i PROVE g[j] = step[j][g[j - 1]]
    <3>1. CASE j = i
      BY <3>1
    <3>2. CASE j < i
      <4>1. j \in 1 .. i - 1 /\ j \in 0 .. i /\ j - 1 \in 0 .. i /\ j # i /\ j - 1 # i
        BY <3>2
      <4>2. f[j] = step[j][f[j - 1]]
        BY <2>1, <4>1 DEF Steps
      <4>3. QED
        BY <4>1, <4>2
    <3>3. QED
      BY <3>1, <3>2
  <2>4. Steps(i, b, step, g)
    <3> HIDE DEF g
    <3>1. QED
      BY <2>2, <2>3 DEF Steps
  <2>5. QED
    BY <2>4
<1> HIDE DEF G
<1>3. n \in G
  BY <1>1, <1>2, UpTo
<1>4. QED
  BY <1>3 DEF G

\* A property of the first value that each step keeps holds of all of them.
LEMMA StepsStay ==
  ASSUME NEW n \in Nat, NEW b, NEW step, NEW f, Steps(n, b, step, f),
         NEW V, b \in V, \A i \in 1 .. n, v \in V : step[i][v] \in V
  PROVE  \A i \in 0 .. n : f[i] \in V
<1> DEFINE G == {i \in 0 .. n : f[i] \in V}
<1>1. f[0] = b /\ \A i \in 1 .. n : f[i] = step[i][f[i - 1]]
  BY DEF Steps
<1>2. 0 \in G
  BY <1>1
<1>3. ASSUME NEW i \in 1 .. n, i - 1 \in G PROVE i \in G
  <2>1. f[i - 1] \in V /\ f[i] = step[i][f[i - 1]]
    BY <1>1, <1>3
  <2>2. f[i] \in V
    BY <2>1
  <2>3. QED
    BY <2>2
<1> HIDE DEF G
<1>4. \A i \in 0 .. n : i \in G
  BY <1>2, <1>3, UpTo
<1>5. QED
  BY <1>4 DEF G

\* Where a walk from place to place that stops in E ends.
Walk(S, E, next, f) == f = [n \in S |-> IF n \in E THEN n ELSE f[next[n]]]

\* Some function gives each start an end, or what would be one.
LEMMA WalkExists ==
  ASSUME NEW S, NEW E, NEW next, \A n \in S : n \notin E => next[n] \in S
  PROVE  \E f : Walk(S, E, next, f)
<1> DEFINE Closed(T) == \A k \in T : k \notin E => next[k] \in T
           Reach(n) == {m \in S : m \in E /\ \A T \in SUBSET S : n \in T /\ Closed(T) => m \in T}
           f == [n \in S |-> CHOOSE m : m \in Reach(n)]
<1>1. ASSUME NEW n \in S, n \in E PROVE f[n] = n
  <2>1. {n} \in SUBSET S /\ Closed({n})
    BY <1>1
  <2>2. Reach(n) = {n}
    BY <1>1, <2>1
  <2> HIDE DEF Reach
  <2>3. (CHOOSE m : m \in Reach(n)) = n
    BY <2>2
  <2>4. QED
    BY <2>3
<1>2. ASSUME NEW n \in S, n \notin E PROVE f[n] = f[next[n]]
  <2>1. next[n] \in S
    BY <1>2
  <2>2. ASSUME NEW m \in Reach(next[n]) PROVE m \in Reach(n)
    BY <1>2
  <2>3. ASSUME NEW m \in Reach(n) PROVE m \in Reach(next[n])
    <3>1. m \in S /\ m \in E /\ m # n
      BY <1>2
    <3>2. ASSUME NEW T \in SUBSET S, next[n] \in T, Closed(T) PROVE m \in T
      <4>1. T \union {n} \in SUBSET S /\ n \in T \union {n} /\ Closed(T \union {n})
        BY <3>2
      <4>2. m \in T \union {n}
        BY <4>1
      <4>3. QED
        BY <3>1, <4>2
    <3>3. QED
      BY <3>1, <3>2
  <2>4. Reach(n) = Reach(next[n])
    BY <2>2, <2>3
  <2> HIDE DEF Reach
  <2>5. QED
    BY <2>1, <2>4
<1> HIDE DEF Reach
<1>3. \A n \in S : f[n] = IF n \in E THEN n ELSE f[next[n]]
  BY <1>1, <1>2
<1>4. f = [n \in S |-> f[n]]
  OBVIOUS
<1> HIDE DEF f
<1>5. f = [n \in S |-> IF n \in E THEN n ELSE f[next[n]]]
  BY <1>3, <1>4
<1>6. Walk(S, E, next, f)
  BY <1>5 DEF Walk
<1>7. QED
  BY <1>6

\* A walk on which the ranks fall ends in E, and where it began.
LEMMA WalkEnds ==
  ASSUME NEW S, NEW E, NEW next, NEW f, Walk(S, E, next, f),
         NEW T \in SUBSET S, NEW r, \A n \in T : r[n] \in Nat,
         \A n \in T : n \notin E => next[n] \in T /\ r[next[n]] < r[n]
  PROVE  \A n \in T : f[n] \in T /\ f[n] \in E
<1> USE DEF Walk
<1> DEFINE Good(n) == f[n] \in T /\ f[n] \in E
           Bad == {k \in Nat : \E n \in T : r[n] = k /\ ~ Good(n)}
<1> SUFFICES ASSUME Bad # {} PROVE FALSE
  OBVIOUS
<1>1. PICK k \in Bad : \A j \in Bad : k <= j
  BY LeastNatural
<1>2. PICK n \in T : r[n] = k /\ ~ Good(n)
  BY <1>1
<1>3. f[n] = IF n \in E THEN n ELSE f[next[n]]
  OBVIOUS
<1>4. CASE n \in E
  BY <1>2, <1>3, <1>4
<1>5. CASE n \notin E
  <2>1. next[n] \in T /\ r[next[n]] < r[n] /\ r[next[n]] \in Nat /\ r[n] \in Nat
    BY <1>5
  <2>2. Good(next[n])
    <3>1. r[next[n]] \notin Bad
      BY <1>1, <1>2, <2>1
    <3>2. QED
      BY <2>1, <3>1
  <2>3. QED
    BY <1>2, <1>3, <1>5, <2>2
<1>6. QED
  BY <1>4, <1>5

-----------------------------------------------------------------------------
(* Sequences one behind the other.                                         *)

\* Three sequences.
AreSeqs(U, s, t, v) == s \in Seq(U) /\ t \in Seq(U) /\ v \in Seq(U)

\* Whichever two of them are put together first.
LEMMA Associates ==
  ASSUME NEW U, NEW s, NEW t, NEW v, AreSeqs(U, s, t, v)
  PROVE  (s \o t) \o v = s \o (t \o v)
<1>1. s \in Seq(U) /\ t \in Seq(U) /\ v \in Seq(U)
  BY DEF AreSeqs
<1>2. QED
  BY <1>1, ConcatAssociative, SMT

\* Joined(s, f): f[i] is the first i of the sequences of s, one behind the other.
Joined(s, f) ==
    /\ f = [i \in 0 .. Len(s) |-> f[i]]
    /\ f[0] = <<>>
    /\ \A i \in 1 .. Len(s) : f[i] = f[i - 1] \o s[i]

\* FlattenSeq gives the last of them: all of s, one behind the other.
LEMMA FlattenJoins ==
  ASSUME NEW U, NEW s \in Seq(Seq(U))
  PROVE  \E f : /\ Joined(s, f) /\ FlattenSeq(s) = f[Len(s)]
                /\ \A i \in 0 .. Len(s) : f[i] \in Seq(U)
<1> DEFINE n == Len(s)
           step == [i \in 1 .. n |-> [v \in Seq(U) |-> v \o s[i]]]
           g(h) == [i \in 1 .. n |-> IF i = 1 THEN s[i] ELSE h[i - 1] \o s[i]]
           c == CHOOSE h : h = g(h)
<1>1. n \in Nat /\ <<>> \in Seq(U) /\ \A i \in 1 .. n : s[i] \in Seq(U)
  OBVIOUS
<1>2. \A i \in 1 .. n, v \in Seq(U) : step[i][v] = v \o s[i] /\ v \o s[i] \in Seq(U)
  BY <1>1, ConcatProperties
<1>3. \A v \in Seq(U) : <<>> \o v = v
  BY EmptySeq, ConcatEmptySeq
<1> HIDE DEF step
<1>4. PICK f : Steps(n, <<>>, step, f)
  BY <1>1, StepsExist
<1>5. \A i \in 0 .. n : f[i] \in Seq(U)
  <2>1. \A i \in 1 .. n, v \in Seq(U) : step[i][v] \in Seq(U)
    BY <1>2
  <2> HIDE DEF n
  <2>2. QED
    BY <1>1, <1>4, <2>1, StepsStay
<1>6. f[0] = <<>>
  BY <1>4 DEF Steps
<1>7. ASSUME NEW i \in 1 .. n PROVE f[i] = f[i - 1] \o s[i]
  <2> HIDE DEF n
  <2>1. i - 1 \in 0 .. n
    BY <1>1
  <2>2. f[i - 1] \in Seq(U)
    BY <1>5, <2>1
  <2>3. \A j \in 1 .. n : f[j] = step[j][f[j - 1]]
    BY <1>4 DEF Steps
  <2>4. f[i] = step[i][f[i - 1]]
    BY <2>3
  <2>5. step[i][f[i - 1]] = f[i - 1] \o s[i]
    BY <1>2, <2>2
  <2>6. QED
    BY <2>4, <2>5
<1>8. Joined(s, f)
  BY <1>4, <1>6, <1>7 DEF Joined, Steps
<1>9. FlattenSeq(s) = f[n]
  <2>1. CASE n = 0
    <3>1. s = <<>>
      BY <2>1, EmptySeq
    <3>2. FlattenSeq(s) = s
      BY <2>1 DEF FlattenSeq
    <3>3. QED
      BY <1>6, <2>1, <3>1, <3>2
  <2>2. CASE n # 0
    <3>1. FlattenSeq(s) = c[n]
      BY <2>2 DEF FlattenSeq
    <3> DEFINE h == [i \in 1 .. n |-> f[i]]
    <3>2. ASSUME NEW i \in 1 .. n
          PROVE  h[i] = IF i = 1 THEN s[i] ELSE h[i - 1] \o s[i]
      <4>1. f[i] = f[i - 1] \o s[i] /\ s[i] \in Seq(U)
        BY <1>1, <1>7
      <4>2. h[i] = f[i] /\ (i # 1 => h[i - 1] = f[i - 1])
        BY <1>1
      <4> HIDE DEF h
      <4>3. CASE i = 1
        <5>1. i - 1 = 0 /\ f[i - 1] = <<>>
          BY <1>6, <4>3
        <5>2. f[i] = s[i]
          BY <1>3, <4>1, <5>1
        <5>3. QED
          BY <4>2, <4>3, <5>2
      <4>4. CASE i # 1
        BY <4>1, <4>2, <4>4
      <4>5. QED
        BY <4>3, <4>4
    <3>3. h = [i \in 1 .. n |-> h[i]]
      OBVIOUS
    <3> HIDE DEF h
    <3>4. h = g(h)
      BY <3>2, <3>3
    <3>5. c = g(c)
      <4> HIDE DEF g
      <4>1. QED
        BY <3>4
    <3> HIDE DEF c
    <3>6. \A i \in 1 .. n : c[i] = IF i = 1 THEN s[i] ELSE c[i - 1] \o s[i]
      BY <3>5
    <3> DEFINE G == {i \in 0 .. n : i # 0 => c[i] = f[i]}
    <3>7. 0 \in G
      BY <1>1
    <3>8. ASSUME NEW i \in 1 .. n, i - 1 \in G PROVE i \in G
      <4>1. /\ f[i] = f[i - 1] \o s[i] /\ s[i] \in Seq(U)
            /\ c[i] = IF i = 1 THEN s[i] ELSE c[i - 1] \o s[i]
        BY <1>1, <1>7, <3>6
      <4>2. CASE i = 1
        <5>1. i - 1 = 0 /\ f[i - 1] = <<>>
          BY <1>6, <4>2
        <5>2. f[i] = s[i]
          BY <1>3, <4>1, <5>1
        <5>3. QED
          BY <4>1, <4>2, <5>2
      <4>3. CASE i # 1
        <5>1. c[i - 1] = f[i - 1]
          BY <3>8, <4>3
        <5>2. c[i] = f[i]
          BY <4>1, <4>3, <5>1
        <5>3. QED
          BY <5>2
      <4>4. QED
        BY <4>2, <4>3
    <3> HIDE DEF G, n, g
    <3>9. \A i \in 0 .. n : i \in G
      BY <1>1, <3>7, <3>8, UpTo
    <3>10. c[n] = f[n]
      BY <1>1, <2>2, <3>9 DEF G
    <3>11. QED
      BY <3>1, <3>10
  <2>3. QED
    BY <2>1, <2>2
<1>10. QED
  BY <1>5, <1>8, <1>9

\* Of no sequences nothing comes out.
LEMMA FlattenEmpty == FlattenSeq(<<>>) = <<>>
<1>1. Len(<<>>) = 0
  OBVIOUS
<1>2. QED
  BY <1>1 DEF FlattenSeq

\* One sequence more at the end of s comes out at the end.
LEMMA FlattenAppend ==
  ASSUME NEW U, NEW s \in Seq(Seq(U)), NEW x \in Seq(U)
  PROVE  FlattenSeq(Append(s, x)) = FlattenSeq(s) \o x
<1> DEFINE n == Len(s)
           t == Append(s, x)
<1>1. /\ n \in Nat /\ t \in Seq(Seq(U)) /\ Len(t) = n + 1 /\ t[n + 1] = x
      /\ \A i \in 1 .. n : t[i] = s[i]
  OBVIOUS
<1>2. PICK f : Joined(s, f) /\ FlattenSeq(s) = f[n]
  BY FlattenJoins
<1> HIDE DEF t
<1>3. PICK g : Joined(t, g) /\ FlattenSeq(t) = g[Len(t)]
  BY <1>1, FlattenJoins
<1>4. f[0] = <<>> /\ \A i \in 1 .. n : f[i] = f[i - 1] \o s[i]
  BY <1>2 DEF Joined
<1>5. g[0] = <<>> /\ \A i \in 1 .. Len(t) : g[i] = g[i - 1] \o t[i]
  BY <1>3 DEF Joined
<1> HIDE DEF n
<1> DEFINE G == {i \in 0 .. n : f[i] = g[i]}
<1>6. 0 \in G
  BY <1>1, <1>4, <1>5
<1>7. ASSUME NEW i \in 1 .. n, i - 1 \in G PROVE i \in G
  <2>1. i \in 0 .. n /\ i \in 1 .. Len(t) /\ t[i] = s[i]
    BY <1>1
  <2>2. f[i] = f[i - 1] \o s[i] /\ g[i] = g[i - 1] \o t[i]
    BY <1>4, <1>5, <2>1
  <2>3. f[i - 1] = g[i - 1]
    BY <1>7
  <2>4. f[i] = g[i]
    BY <2>1, <2>2, <2>3
  <2>5. QED
    BY <2>1, <2>4
<1> HIDE DEF G
<1>8. \A i \in 0 .. n : i \in G
  BY <1>1, <1>6, <1>7, UpTo
<1>9. f[n] = g[n]
  <2>1. n \in 0 .. n
    BY <1>1
  <2>2. n \in G
    BY <1>8, <2>1
  <2>3. QED
    BY <2>2 DEF G
<1>10. g[n + 1] = g[n] \o x
  <2>1. n + 1 \in 1 .. Len(t) /\ (n + 1) - 1 = n
    BY <1>1
  <2>2. QED
    BY <1>1, <1>5, <2>1
<1>11. QED
  BY <1>1, <1>2, <1>3, <1>9, <1>10 DEF t

\* The first sequence of s comes out first, and the others behind it.
LEMMA FlattenFirst ==
  ASSUME NEW U, NEW s \in Seq(Seq(U)), s # <<>>
  PROVE  FlattenSeq(s) = s[1] \o FlattenSeq(Tail(s))
<1> DEFINE n == Len(Tail(s))
           t == Tail(s)
<1>1. /\ n \in Nat /\ t \in Seq(Seq(U)) /\ Len(s) = n + 1
      /\ \A i \in 1 .. n : t[i] = s[i + 1] /\ t[i] \in Seq(U)
  BY HeadTailProperties, LenProperties
<1>2. s[1] \in Seq(U)
  BY <1>1
<1>3. PICK f : Joined(s, f) /\ FlattenSeq(s) = f[Len(s)]
  BY FlattenJoins
<1> HIDE DEF t
<1>4. PICK g : /\ Joined(t, g) /\ FlattenSeq(t) = g[Len(t)]
               /\ \A i \in 0 .. Len(t) : g[i] \in Seq(U)
  BY <1>1, FlattenJoins
<1>5. n = Len(t)
  BY DEF t
<1>6. f[0] = <<>> /\ \A i \in 1 .. Len(s) : f[i] = f[i - 1] \o s[i]
  BY <1>3 DEF Joined
<1>7. g[0] = <<>> /\ \A i \in 1 .. n : g[i] = g[i - 1] \o t[i]
  BY <1>4, <1>5 DEF Joined
<1> DEFINE a == s[1]
           G == {i \in 0 .. n : f[i + 1] = a \o g[i]}
<1>13. a \in Seq(U)
  BY <1>2
<1> HIDE DEF n
<1>8. 0 \in G
  <2>1. 1 \in 1 .. Len(s) /\ 1 - 1 = 0
    BY <1>1
  <2>2. f[1] = f[1 - 1] \o s[1]
    BY <1>6, <2>1
  <2>3. f[1] = <<>> \o s[1]
    BY <1>6, <2>1, <2>2
  <2>4. f[1] = s[1] \o g[0]
    BY <1>2, <1>7, <2>3, ConcatEmptySeq
  <2>5. 0 \in 0 .. n /\ 0 + 1 = 1
    BY <1>1
  <2>6. f[0 + 1] = a \o g[0]
    BY <2>4, <2>5
  <2> HIDE DEF a
  <2>7. QED
    BY <2>5, <2>6
<1>9. ASSUME NEW i \in 1 .. n, i - 1 \in G PROVE i \in G
  <2> HIDE DEF a
  <2>1. /\ i + 1 \in 1 .. Len(s) /\ (i + 1) - 1 = i /\ (i - 1) + 1 = i /\ i - 1 \in 0 .. n
        /\ i \in 0 .. n
    BY <1>1
  <2>2. f[i + 1] = f[i] \o s[i + 1]
    BY <1>6, <2>1
  <2>3. f[i] = a \o g[i - 1]
    BY <1>9, <2>1
  <2>4. g[i] = g[i - 1] \o t[i] /\ t[i] = s[i + 1] /\ t[i] \in Seq(U)
    BY <1>1, <1>7
  <2>5. g[i - 1] \in Seq(U)
    BY <1>4, <1>5, <2>1
  <2> DEFINE v == t[i]
             w == g[i - 1]
  <2>6. v \in Seq(U) /\ w \in Seq(U)
    BY <2>4, <2>5
  <2> HIDE DEF v, w
  <2>7. (a \o w) \o v = a \o (w \o v)
    <3>1. AreSeqs(U, a, w, v)
      BY <1>13, <2>6 DEF AreSeqs
    <3>2. QED
      BY <3>1, Associates
  <2>8. f[i + 1] = a \o g[i]
    BY <2>2, <2>3, <2>4, <2>7 DEF v, w
  <2>9. QED
    BY <2>1, <2>8
<1> HIDE DEF G, a
<1>10. \A i \in 0 .. n : i \in G
  BY <1>1, <1>8, <1>9, UpTo
<1>11. f[n + 1] = a \o g[n]
  <2>1. n \in 0 .. n
    BY <1>1
  <2>2. n \in G
    BY <1>10, <2>1
  <2>3. QED
    BY <2>2 DEF G
<1>12. QED
  BY <1>1, <1>3, <1>4, <1>5, <1>11 DEF a, t
=============================================================================
