--------------------------- MODULE RBOrderProofs ----------------------------
(***************************************************************************)
(* Proofs about RBTree: the tree is a queue in the order of the keys, for  *)
(* any nodes and keys.  Each node has a place in the queue, and the nodes  *)
(* below it fill a span around that place; a rotation moves spans and no   *)
(* place, whatever the colours are.                                        *)
(***************************************************************************)
EXTENDS RBTreeProofs

-----------------------------------------------------------------------------
(* Sequences that hold every member of a set once.                         *)

\* q holds every member of S once, each at pos.
Indexed(q, S, pos) ==
    /\ q \in Seq(S)
    /\ \A i \in 1 .. Len(q) : q[i] \in S /\ pos[q[i]] = i
    /\ \A n \in S : pos[n] \in 1 .. Len(q) /\ q[pos[n]] = n

\* x comes in at the place i: those behind it move up by one.
Opened(q, S, pos, i, x, ps) ==
    /\ Indexed(q, S, pos) /\ i \in 1 .. Len(q) + 1 /\ x \notin S /\ ps[x] = i
    /\ \A m \in S : ps[m] = IF pos[m] >= i THEN pos[m] + 1 ELSE pos[m]

\* Then the longer sequence holds every member of the larger set once.
LEMMA IndexedInsert ==
  ASSUME NEW S, NEW q, NEW pos, NEW x, NEW i, NEW ps, Opened(q, S, pos, i, x, ps)
  PROVE  Indexed(InsertAt(q, i, x), S \union {x}, ps) /\ Len(InsertAt(q, i, x)) = Len(q) + 1
<1> DEFINE w == InsertAt(q, i, x)
           U == S \union {x}
<1>0. /\ Indexed(q, S, pos) /\ i \in 1 .. Len(q) + 1 /\ x \notin S /\ ps[x] = i
      /\ \A m \in S : ps[m] = IF pos[m] >= i THEN pos[m] + 1 ELSE pos[m]
  BY DEF Opened
<1>1. q \in Seq(U) /\ x \in U /\ q \in Seq(S)
  BY <1>0 DEF Indexed
<1>2. /\ w \in Seq(U) /\ Len(w) = Len(q) + 1 /\ w[i] = x
      /\ \A j \in 1 .. Len(q) + 1 : j # i => w[j] = IF j < i THEN q[j] ELSE q[j - 1]
  <2> HIDE DEF U
  <2>1. QED
    BY <1>0, <1>1, InsertAtIs
<1>3. Len(q) \in Nat /\ Len(w) = Len(q) + 1
  BY <1>1, <1>2
<1> HIDE DEF w
<1>4. ASSUME NEW j \in 1 .. Len(w) PROVE w[j] \in U /\ ps[w[j]] = j
  <2>1. CASE j = i
    BY <1>0, <1>2, <2>1
  <2>2. CASE j < i
    <3>1. j \in 1 .. Len(q) /\ j \in 1 .. Len(q) + 1 /\ j # i
      BY <1>0, <1>3, <2>2
    <3>2. w[j] = q[j]
      BY <1>2, <2>2, <3>1
    <3>3. q[j] \in S /\ pos[q[j]] = j
      BY <1>0, <3>1 DEF Indexed
    <3>4. ~(j >= i)
      BY <1>0, <2>2
    <3>5. QED
      BY <1>0, <3>2, <3>3, <3>4
  <2>3. CASE j > i
    <3>1. j - 1 \in 1 .. Len(q) /\ j \in 1 .. Len(q) + 1 /\ j # i /\ ~(j < i)
      BY <1>0, <1>3, <2>3
    <3>2. w[j] = q[j - 1]
      BY <1>2, <3>1
    <3>3. q[j - 1] \in S /\ pos[q[j - 1]] = j - 1
      BY <1>0, <3>1 DEF Indexed
    <3>4. j - 1 >= i /\ (j - 1) + 1 = j
      BY <1>0, <2>3
    <3>5. QED
      BY <1>0, <3>2, <3>3, <3>4
  <2>4. QED
    BY <1>0, <1>3, <2>1, <2>2, <2>3
<1>5. ASSUME NEW m \in U PROVE ps[m] \in 1 .. Len(w) /\ w[ps[m]] = m
  <2>1. CASE m = x
    BY <1>0, <1>2, <1>3, <2>1
  <2>2. CASE m # x
    <3>1. m \in S /\ ps[m] = IF pos[m] >= i THEN pos[m] + 1 ELSE pos[m]
      BY <1>0, <2>2
    <3>2. pos[m] \in 1 .. Len(q) /\ q[pos[m]] = m
      BY <1>0, <3>1 DEF Indexed
    <3>3. CASE pos[m] >= i
      <4>1. ps[m] # i /\ ~(ps[m] < i) /\ ps[m] - 1 = pos[m] /\ ps[m] \in 1 .. Len(q) + 1
        BY <1>0, <1>3, <3>1, <3>2, <3>3
      <4>2. QED
        BY <1>0, <1>2, <1>3, <3>2, <4>1
    <3>4. CASE ~(pos[m] >= i)
      <4>1. ps[m] # i /\ ps[m] < i /\ ps[m] = pos[m] /\ ps[m] \in 1 .. Len(q) + 1
        BY <1>0, <1>3, <3>1, <3>2, <3>4
      <4>2. QED
        BY <1>0, <1>2, <1>3, <3>2, <4>1
    <3>5. QED
      BY <3>3, <3>4
  <2>3. QED
    BY <2>1, <2>2
<1>6. QED
  BY <1>2, <1>3, <1>4, <1>5 DEF Indexed, w

\* x goes out: those behind it move down by one.
Closed(q, S, pos, x, ps) ==
    /\ Indexed(q, S, pos) /\ x \in S
    /\ \A m \in S \ {x} : ps[m] = IF pos[m] > pos[x] THEN pos[m] - 1 ELSE pos[m]

\* Then the shorter sequence holds every other member once.
LEMMA IndexedRemove ==
  ASSUME NEW S, NEW q, NEW pos, NEW x, NEW ps, Closed(q, S, pos, x, ps)
  PROVE  Indexed(RemoveAt(q, pos[x]), S \ {x}, ps) /\ Len(RemoveAt(q, pos[x])) = Len(q) - 1
<1> DEFINE k == pos[x]
           w == RemoveAt(q, k)
           U == S \ {x}
<1>0. /\ Indexed(q, S, pos) /\ x \in S
      /\ \A m \in S \ {x} : ps[m] = IF pos[m] > pos[x] THEN pos[m] - 1 ELSE pos[m]
  BY DEF Closed
<1>1. q \in Seq(S) /\ k \in 1 .. Len(q) /\ q[k] = x
  BY <1>0 DEF Indexed
<1>2. w \in Seq(S) /\ Len(w) = Len(q) - 1 /\ \A j \in 1 .. Len(q) - 1 : w[j] = IF j < k THEN q[j] ELSE q[j + 1]
  <2> HIDE DEF k
  <2>1. QED
    BY <1>1, RemoveAtIs
<1>3. Len(q) \in Nat /\ Len(w) = Len(q) - 1
  BY <1>1, <1>2
<1> HIDE DEF w, k
<1>4. \A m \in S : pos[m] = k => m = x
  BY <1>0, <1>1 DEF Indexed
<1>5. \A m \in U : ps[m] = IF pos[m] > k THEN pos[m] - 1 ELSE pos[m]
  BY <1>0 DEF k
<1>6. ASSUME NEW j \in 1 .. Len(w) PROVE w[j] \in U /\ ps[w[j]] = j
  <2>1. j \in 1 .. Len(q) - 1 /\ j \in 1 .. Len(q) /\ j + 1 \in 1 .. Len(q)
    BY <1>3
  <2>2. CASE j < k
    <3>1. w[j] = q[j]
      BY <1>2, <2>1, <2>2
    <3>2. q[j] \in S /\ pos[q[j]] = j
      BY <1>0, <2>1 DEF Indexed
    <3>3. ~(j > k) /\ j # k
      BY <1>1, <2>2
    <3>4. q[j] # x
      BY <3>2, <3>3 DEF k
    <3>5. QED
      BY <1>5, <3>1, <3>2, <3>3, <3>4
  <2>3. CASE ~(j < k)
    <3>1. w[j] = q[j + 1]
      BY <1>2, <2>1, <2>3
    <3>2. q[j + 1] \in S /\ pos[q[j + 1]] = j + 1
      BY <1>0, <2>1 DEF Indexed
    <3>3. j + 1 > k /\ j + 1 # k /\ (j + 1) - 1 = j
      BY <1>1, <2>3
    <3>4. q[j + 1] # x
      BY <3>2, <3>3 DEF k
    <3>5. QED
      BY <1>5, <3>1, <3>2, <3>3, <3>4
  <2>4. QED
    BY <2>2, <2>3
<1>7. ASSUME NEW m \in U PROVE ps[m] \in 1 .. Len(w) /\ w[ps[m]] = m
  <2>1. pos[m] \in 1 .. Len(q) /\ q[pos[m]] = m /\ pos[m] # k
    BY <1>0, <1>4 DEF Indexed
  <2>2. ps[m] = IF pos[m] > k THEN pos[m] - 1 ELSE pos[m]
    BY <1>5
  <2>3. ps[m] \in 1 .. Len(q) - 1
    BY <1>1, <1>3, <2>1, <2>2
  <2>4. CASE pos[m] > k
    <3>1. ~(ps[m] < k) /\ ps[m] + 1 = pos[m]
      BY <1>1, <2>1, <2>2, <2>4
    <3>2. QED
      BY <1>2, <1>3, <2>1, <2>3, <3>1
  <2>5. CASE ~(pos[m] > k)
    <3>1. ps[m] < k /\ ps[m] = pos[m]
      BY <1>1, <2>1, <2>2, <2>5
    <3>2. QED
      BY <1>2, <1>3, <2>1, <2>3, <3>1
  <2>6. QED
    BY <2>4, <2>5
<1>8. w \in Seq(U)
  <2>1. w = [j \in 1 .. Len(w) |-> w[j]] /\ Len(w) \in Nat
    BY <1>2
  <2>2. QED
    BY <1>6, <2>1
<1>9. QED
  BY <1>3, <1>6, <1>7, <1>8 DEF Indexed, w, k

\* x takes the place of n, and no other member moves.
Exchanged(q, S, pos, n, x, ps) ==
    /\ Indexed(q, S, pos) /\ n \in S /\ x \notin S /\ ps[x] = pos[n]
    /\ \A m \in S \ {n} : ps[m] = pos[m]

\* Then the sequence with x for n holds every member once.
LEMMA IndexedReplace ==
  ASSUME NEW S, NEW q, NEW pos, NEW n, NEW x, NEW ps, Exchanged(q, S, pos, n, x, ps)
  PROVE  LET w == [q EXCEPT ![pos[n]] = x]
         IN Indexed(w, (S \ {n}) \union {x}, ps) /\ Len(w) = Len(q)
<1> DEFINE k == pos[n]
           w == [q EXCEPT ![k] = x]
           U == (S \ {n}) \union {x}
<1>0. /\ Indexed(q, S, pos) /\ n \in S /\ x \notin S /\ ps[x] = pos[n]
      /\ \A m \in S \ {n} : ps[m] = pos[m]
  BY DEF Exchanged
<1>1. q \in Seq(S) /\ k \in 1 .. Len(q) /\ q[k] = n
  BY <1>0 DEF Indexed
<1>2. DOMAIN w = 1 .. Len(q) /\ Len(q) \in Nat /\ w[k] = x /\ \A j \in 1 .. Len(q) : j # k => w[j] = q[j]
  BY <1>1
<1>3. \A m \in S : pos[m] = k => m = n
  BY <1>0, <1>1 DEF Indexed
<1>4. w = [j \in 1 .. Len(q) |-> w[j]]
  BY <1>1
<1> HIDE DEF w
<1>5. ASSUME NEW j \in 1 .. Len(q) PROVE w[j] \in U /\ ps[w[j]] = j
  <2>1. CASE j = k
    BY <1>0, <1>2, <2>1
  <2>2. CASE j # k
    <3>1. w[j] = q[j] /\ q[j] \in S /\ pos[q[j]] = j
      BY <1>0, <1>2, <2>2 DEF Indexed
    <3>2. QED
      BY <1>0, <2>2, <3>1
  <2>3. QED
    BY <2>1, <2>2
<1>6. w \in Seq(U) /\ Len(w) = Len(q)
  <2>1. w \in [1 .. Len(q) -> U]
    BY <1>4, <1>5
  <2>2. QED
    BY <1>0, <1>2, <2>1
<1>7. ASSUME NEW m \in U PROVE ps[m] \in 1 .. Len(w) /\ w[ps[m]] = m
  <2>1. CASE m = x
    BY <1>0, <1>1, <1>2, <1>6, <2>1
  <2>2. CASE m # x
    <3>1. ps[m] = pos[m] /\ pos[m] \in 1 .. Len(q) /\ q[pos[m]] = m /\ pos[m] # k
      BY <1>0, <1>3, <2>2 DEF Indexed
    <3>2. QED
      BY <1>2, <1>6, <3>1
  <2>3. QED
    BY <2>1, <2>2
<1>8. QED
  BY <1>5, <1>6, <1>7 DEF Indexed, w

-----------------------------------------------------------------------------
(* The order of the nodes.                                                 *)

\* The nodes below n lie from lo to hi, those on its left before it, those on its right behind it.
Beside(pos, lo, hi, n, s, c) ==
    IF s = "left" THEN IF c = Sentinel THEN lo[n] = pos[n] ELSE lo[c] = lo[n] /\ hi[c] = pos[n] - 1
                  ELSE IF c = Sentinel THEN hi[n] = pos[n] ELSE lo[c] = pos[n] + 1 /\ hi[c] = hi[n]
Laid(t, q, pos, lo, hi) ==
    /\ Indexed(q, In(t), pos)
    /\ \A n \in In(t) : /\ lo[n] \in 1 .. pos[n] /\ hi[n] \in pos[n] .. Len(q)
                        /\ \A s \in Side : Beside(pos, lo, hi, n, s, Child(t, s, n))
    /\ Root(t) # Sentinel => lo[Root(t)] = 1 /\ hi[Root(t)] = Len(q)

\* q holds the nodes of t in order.
Ordered(t, q) == \E pos, lo, hi : Laid(t, q, pos, lo, hi)

\* Links that stay keep the order.
LEMMA SameOrder ==
  ASSUME NEW t, NEW u, u.child = t.child, In(u) = In(t), NEW q, Ordered(t, q)
  PROVE  Ordered(u, q)
<1>1. Root(u) = Root(t) /\ \A s, n : Child(u, s, n) = Child(t, s, n)
  BY DEF Root, Child
<1>2. PICK pos, lo, hi : Laid(t, q, pos, lo, hi)
  BY DEF Ordered
<1>3. Laid(u, q, pos, lo, hi)
  BY <1>1, <1>2 DEF Laid
<1>4. QED
  BY <1>3 DEF Ordered

\* A rotation moves no node to another place in the order.
LEMMA RotatedOrder ==
  ASSUME NEW t \in Trees, Sound(t), Ranked(t), NEW n \in In(t), NEW s \in Side,
         Child(t, Other(s), n) \in In(t), NEW u, Rotated(t, u, n, s), In(u) = In(t),
         NEW q, Ordered(t, q)
  PROVE  Ordered(u, q)
<1> DEFINE o == Other(s)
           c == Child(t, o, n)
           i == Child(t, s, c)
           e == Child(t, o, c)
           d == Child(t, s, n)
<1>1. PICK r : RankedBy(t, r)
  BY DEF Ranked
<1>2. /\ o \in Side /\ s # o /\ Other(o) = s /\ \A x \in Side : x = s \/ x = o
      /\ n \in All /\ c \in All /\ n # Sentinel /\ c # Sentinel /\ n \in Node /\ c \in Node
  BY Sides, LinkFacts
<1>3. /\ c # n /\ t.parent[c] = n /\ t.parent[n] \notin {n, c}
      /\ i \notin {n, c} /\ e \notin {n, c} /\ i \in Spots(t) /\ e \in Spots(t) /\ d \in Spots(t)
  BY <1>1, <1>2, RankFacts, LinkFacts
<1>4. d # c /\ d # n
  <2>1. n \in Spots(t)
    BY DEF Spots
  <2>2. d # c
    BY <1>2, <2>1, LinkFacts
  <2>3. d # n
    BY <1>3, <2>1 DEF Sound
  <2>4. QED
    BY <2>2, <2>3
<1>5. i # Sentinel \/ e # Sentinel => i # e
  BY <1>2 DEF Sound, Side, Other
<1>6. Child(u, s, c) = n /\ Child(u, o, c) = e /\ Child(u, o, n) = i /\ Child(u, s, n) = d
  BY DEF Rotated
<1>7. \A m \in Spots(t) \ {n, c}, x \in Side :
        \/ Child(t, x, m) = n /\ Child(u, x, m) = c
        \/ Child(t, x, m) \notin {n, c} /\ Child(u, x, m) = Child(t, x, m)
  <2>1. TAKE m \in Spots(t) \ {n, c}, x \in Side
  <2>2. m \in All /\ m \in Spots(t)
    BY Distinct DEF Spots, In
  <2>3. Child(u, x, m) = IF m = t.parent[n] /\ x = SideOf(t, n) THEN c ELSE Child(t, x, m)
    BY <2>2 DEF Rotated
  <2>4. Child(t, x, m) = n <=> m = t.parent[n] /\ x = SideOf(t, n)
    BY <2>2, LinkFacts
  <2>5. Child(t, x, m) # c
    BY <1>3, <2>2 DEF Sound
  <2>6. QED
    BY <2>3, <2>4, <2>5
<1>8. \/ Root(t) = n /\ Root(u) = c
      \/ Root(t) \notin {n, c} /\ Root(u) = Root(t)
  BY <1>2, <1>7 DEF Root, Child, Side, Spots
<1>9. PICK pos, lo, hi : Laid(t, q, pos, lo, hi)
  BY DEF Ordered
<1> DEFINE a == [m \in Node |-> IF m = c THEN lo[n] ELSE IF m = n /\ s = "right" THEN pos[c] + 1 ELSE lo[m]]
           b == [m \in Node |-> IF m = c THEN hi[n] ELSE IF m = n /\ s = "left" THEN pos[c] - 1 ELSE hi[m]]
<1>10. In(t) \subseteq Node /\ In(t) = In(u) /\ Sentinel \notin In(t)
  BY Distinct DEF In
<1>11. \A m \in In(t) : /\ pos[m] \in 1 .. Len(q)
                        /\ lo[m] \in 1 .. pos[m] /\ hi[m] \in pos[m] .. Len(q)
                        /\ \A x \in Side : Beside(pos, lo, hi, m, x, Child(t, x, m))
  BY <1>9 DEF Laid, Indexed
<1>12. Len(q) \in Nat
  BY <1>9 DEF Laid, Indexed
<1> HIDE DEF c, i, e, d
<1>13. \A m \in In(t) : /\ a[m] = IF m = c THEN lo[n] ELSE IF m = n /\ s = "right" THEN pos[c] + 1 ELSE lo[m]
                        /\ b[m] = IF m = c THEN hi[n] ELSE IF m = n /\ s = "left" THEN pos[c] - 1 ELSE hi[m]
  BY <1>10
<1> HIDE DEF a, b
<1>15. /\ Beside(pos, lo, hi, n, o, c) /\ Beside(pos, lo, hi, n, s, d)
       /\ Beside(pos, lo, hi, c, o, e) /\ Beside(pos, lo, hi, c, s, i)
  BY <1>2, <1>11 DEF c, d, e, i
<1>16. c \in In(t)
  BY DEF c
<1>17. /\ a[c] = lo[n] /\ b[c] = hi[n]
       /\ s = "left" => a[n] = lo[n] /\ b[n] = pos[c] - 1
       /\ s = "right" => a[n] = pos[c] + 1 /\ b[n] = hi[n]
       /\ i # Sentinel => a[i] = lo[i] /\ b[i] = hi[i]
       /\ d # Sentinel => a[d] = lo[d] /\ b[d] = hi[d]
       /\ e # Sentinel => a[e] = lo[e] /\ b[e] = hi[e]
  BY <1>2, <1>3, <1>4, <1>10, <1>13, <1>16 DEF Spots
<1>18. /\ pos[n] \in 1 .. Len(q) /\ pos[c] \in 1 .. Len(q)
       /\ lo[n] \in 1 .. pos[n] /\ hi[n] \in pos[n] .. Len(q)
       /\ lo[c] \in 1 .. pos[c] /\ hi[c] \in pos[c] .. Len(q)
       /\ i # Sentinel => lo[i] \in 1 .. pos[i] /\ hi[i] \in pos[i] .. Len(q) /\ pos[i] \in 1 .. Len(q)
  BY <1>3, <1>11, <1>16 DEF Spots
<1>19. /\ a[n] \in 1 .. pos[n] /\ b[n] \in pos[n] .. Len(q)
       /\ a[c] \in 1 .. pos[c] /\ b[c] \in pos[c] .. Len(q)
       /\ Beside(pos, a, b, n, s, d) /\ Beside(pos, a, b, n, o, i)
       /\ Beside(pos, a, b, c, s, n) /\ Beside(pos, a, b, c, o, e)
  <2>1. CASE s = "left"
    <3>1. o = "right"
      BY <2>1 DEF Other
    <3>2. /\ lo[c] = pos[n] + 1 /\ hi[c] = hi[n]
          /\ d = Sentinel => lo[n] = pos[n]
          /\ d # Sentinel => lo[d] = lo[n] /\ hi[d] = pos[n] - 1
          /\ e = Sentinel => hi[c] = pos[c]
          /\ e # Sentinel => lo[e] = pos[c] + 1 /\ hi[e] = hi[c]
          /\ i = Sentinel => lo[c] = pos[c]
          /\ i # Sentinel => lo[i] = lo[c] /\ hi[i] = pos[c] - 1
      BY <1>2, <1>15, <2>1, <3>1 DEF Beside
    <3> HIDE DEF o
    <3>3. /\ a[n] \in 1 .. pos[n] /\ b[n] \in pos[n] .. Len(q)
          /\ a[c] \in 1 .. pos[c] /\ b[c] \in pos[c] .. Len(q)
      BY <1>12, <1>17, <1>18, <2>1, <3>2, SMTT(30)
    <3>4. Beside(pos, a, b, n, s, d)
      BY <1>17, <1>18, <2>1, <3>2 DEF Beside
    <3>5. Beside(pos, a, b, n, o, i)
      <4>1. pos[n] \in Int /\ pos[c] \in Int
        BY <1>12, <1>18
      <4>2. i = Sentinel => b[n] = pos[n]
        BY <1>17, <2>1, <3>2, <4>1
      <4>3. i # Sentinel => a[i] = pos[n] + 1 /\ b[i] = b[n]
        BY <1>17, <2>1, <3>2, <4>1
      <4>4. QED
        BY <3>1, <4>2, <4>3 DEF Beside
    <3>6. Beside(pos, a, b, c, s, n) /\ Beside(pos, a, b, c, o, e)
      BY <1>2, <1>17, <1>18, <2>1, <3>1, <3>2 DEF Beside
    <3>7. QED
      BY <3>3, <3>4, <3>5, <3>6
  <2>2. CASE s = "right"
    <3>1. o = "left"
      BY <2>2 DEF Other
    <3>2. /\ lo[c] = lo[n] /\ hi[c] = pos[n] - 1
          /\ d = Sentinel => hi[n] = pos[n]
          /\ d # Sentinel => lo[d] = pos[n] + 1 /\ hi[d] = hi[n]
          /\ e = Sentinel => lo[c] = pos[c]
          /\ e # Sentinel => lo[e] = lo[c] /\ hi[e] = pos[c] - 1
          /\ i = Sentinel => hi[c] = pos[c]
          /\ i # Sentinel => lo[i] = pos[c] + 1 /\ hi[i] = hi[c]
      BY <1>2, <1>15, <2>2, <3>1 DEF Beside
    <3> HIDE DEF o
    <3>3. /\ a[n] \in 1 .. pos[n] /\ b[n] \in pos[n] .. Len(q)
          /\ a[c] \in 1 .. pos[c] /\ b[c] \in pos[c] .. Len(q)
      BY <1>12, <1>17, <1>18, <2>2, <3>2
    <3>4. Beside(pos, a, b, n, s, d)
      BY <1>17, <1>18, <2>2, <3>2 DEF Beside
    <3>5. Beside(pos, a, b, n, o, i)
      <4>1. pos[n] \in Int /\ pos[c] \in Int
        BY <1>12, <1>18
      <4>2. i = Sentinel => a[n] = pos[n]
        BY <1>17, <2>2, <3>2, <4>1
      <4>3. i # Sentinel => a[i] = a[n] /\ b[i] = pos[n] - 1
        BY <1>17, <2>2, <3>2, <4>1
      <4>4. QED
        BY <3>1, <4>2, <4>3 DEF Beside
    <3>6. Beside(pos, a, b, c, s, n) /\ Beside(pos, a, b, c, o, e)
      BY <1>2, <1>17, <1>18, <2>2, <3>1, <3>2 DEF Beside
    <3>7. QED
      BY <3>3, <3>4, <3>5, <3>6
  <2>3. QED
    BY <2>1, <2>2 DEF Side
<1>20. ASSUME NEW m \in In(t)
       PROVE  /\ a[m] \in 1 .. pos[m] /\ b[m] \in pos[m] .. Len(q)
              /\ \A x \in Side : Beside(pos, a, b, m, x, Child(u, x, m))
  <2>1. CASE m = n
    <3>1. \A x \in Side : Child(u, x, m) = IF x = s THEN d ELSE i
      BY <1>2, <1>6, <2>1
    <3>2. QED
      BY <1>2, <1>19, <2>1, <3>1
  <2>2. CASE m = c
    <3>1. \A x \in Side : Child(u, x, m) = IF x = s THEN n ELSE e
      BY <1>2, <1>6, <2>2
    <3>2. QED
      BY <1>2, <1>19, <2>2, <3>1
  <2>3. CASE m \notin {n, c}
    <3>1. a[m] = lo[m] /\ b[m] = hi[m]
      BY <1>13, <2>3
    <3>2. ASSUME NEW x \in Side PROVE Beside(pos, a, b, m, x, Child(u, x, m))
      <4> DEFINE k == Child(t, x, m)
      <4>1. Beside(pos, lo, hi, m, x, k) /\ k \in Spots(t)
        BY <1>11, LinkFacts
      <4>2. (k = n /\ Child(u, x, m) = c) \/ (k \notin {n, c} /\ Child(u, x, m) = k)
        BY <1>7, <2>3 DEF Spots
      <4> HIDE DEF k
      <4>3. CASE k = n /\ Child(u, x, m) = c
        BY <1>2, <1>17, <3>1, <4>1, <4>3 DEF Beside
      <4>4. CASE k \notin {n, c} /\ Child(u, x, m) = k
        <5>1. k # Sentinel => a[k] = lo[k] /\ b[k] = hi[k]
          BY <1>13, <4>1, <4>4 DEF Spots
        <5>2. QED
          BY <3>1, <4>1, <4>4, <5>1 DEF Beside
      <4>5. QED
        BY <4>2, <4>3, <4>4
    <3>3. QED
      BY <1>11, <3>1, <3>2
  <2>4. QED
    BY <2>1, <2>2, <2>3
<1>21. Root(u) # Sentinel => a[Root(u)] = 1 /\ b[Root(u)] = Len(q)
  <2> DEFINE k == Root(t)
  <2>1. k # Sentinel => lo[k] = 1 /\ hi[k] = Len(q)
    BY <1>9 DEF Laid
  <2>2. k \in Spots(t)
    BY DEF Sound
  <2>3. (k = n /\ Root(u) = c) \/ (k \notin {n, c} /\ Root(u) = k)
    BY <1>8
  <2> HIDE DEF k
  <2>4. k \notin {n, c} /\ k # Sentinel => a[k] = lo[k] /\ b[k] = hi[k]
    BY <1>13, <2>2 DEF Spots
  <2>5. QED
    BY <1>2, <1>17, <2>1, <2>3, <2>4
<1>22. Laid(u, q, pos, a, b)
  BY <1>9, <1>10, <1>11, <1>20, <1>21 DEF Laid
<1>23. QED
  BY <1>22 DEF Ordered

\* A node that goes to a free place comes next to the node it is a child of,
LEMMA AddedOrder ==
  ASSUME NEW t, Shape(t), NEW x \in Node \ In(t), NEW p \in In(t), NEW s \in Side,
         Child(t, s, p) = Sentinel, NEW u, Added(t, u, x, p, s), In(u) = In(t) \union {x},
         NEW q, NEW pos, NEW lo, NEW hi,
         Laid(t, q, pos, lo, hi)
  PROVE  LET i == IF s = "left" THEN pos[p] ELSE pos[p] + 1
         IN i \in 1 .. Len(q) + 1 /\ Ordered(u, InsertAt(q, i, x))
<1> DEFINE i == IF s = "left" THEN pos[p] ELSE pos[p] + 1
           k == pos[p]
           w == InsertAt(q, i, x)
           ps == [m \in Node |-> IF m = x THEN i ELSE IF pos[m] >= i THEN pos[m] + 1 ELSE pos[m]]
           a == [m \in Node |-> IF m = x THEN i ELSE IF lo[m] > k THEN lo[m] + 1 ELSE lo[m]]
           b == [m \in Node |-> IF m = x THEN i ELSE IF hi[m] >= k THEN hi[m] + 1 ELSE hi[m]]
<1>1. /\ Indexed(q, In(t), pos)
      /\ \A m \in In(t) : /\ lo[m] \in 1 .. pos[m] /\ hi[m] \in pos[m] .. Len(q)
                         /\ \A y \in Side : Beside(pos, lo, hi, m, y, Child(t, y, m))
      /\ Root(t) # Sentinel => lo[Root(t)] = 1 /\ hi[Root(t)] = Len(q)
  BY DEF Laid
<1>2. In(t) \subseteq Node /\ Sentinel \notin In(t) /\ x \in Node /\ x # Sentinel /\ x \notin In(t) /\ p \in Node
      /\ p # Sentinel /\ x # p
  BY Distinct DEF In
<1>3. Len(q) \in Nat
  BY <1>1 DEF Indexed
<1>4. k \in 1 .. Len(q) /\ i \in 1 .. Len(q) + 1 /\ (i = k \/ i = k + 1)
      /\ (s = "left" => i = k) /\ (s # "left" => i = k + 1)
  <2>1. k \in 1 .. Len(q)
    BY <1>1 DEF Indexed
  <2>2. i = IF s = "left" THEN k ELSE k + 1
    OBVIOUS
  <2> HIDE DEF k
  <2>3. QED
    BY <1>3, <2>1, <2>2
<1> HIDE DEF i
<1>6. \A m \in In(t) : /\ ps[m] = IF pos[m] >= i THEN pos[m] + 1 ELSE pos[m]
                       /\ a[m] = IF lo[m] > k THEN lo[m] + 1 ELSE lo[m]
                       /\ b[m] = IF hi[m] >= k THEN hi[m] + 1 ELSE hi[m]
  BY <1>2
<1>7. ps[x] = i /\ a[x] = i /\ b[x] = i
  BY <1>2
<1>8. \A m \in In(t) : m # p => pos[m] # k
  BY <1>1 DEF Indexed
<1>9. /\ \A m \in In(t), y \in Side : Child(u, y, m) = IF m = p /\ y = s THEN x ELSE Child(t, y, m)
      /\ \A y \in Side : Child(u, y, x) = Sentinel
  BY <1>2, Distinct DEF Added
<1>10. Root(u) = Root(t) /\ Root(t) \in In(t)
  <2>1. Root(t) # Sentinel
    BY Rooted
  <2>2. Root(u) = Root(t)
    BY <1>2, Distinct DEF Added, Root, Child, Side
  <2>3. QED
    BY <2>1, <2>2, Rooted
<1> HIDE DEF w, ps, a, b
<1>11. Indexed(w, In(u), ps) /\ Len(w) = Len(q) + 1
  <2>1. Opened(q, In(t), pos, i, x, ps)
    BY <1>1, <1>2, <1>4, <1>6, <1>7 DEF Opened
  <2>2. Indexed(InsertAt(q, i, x), In(t) \union {x}, ps) /\ Len(InsertAt(q, i, x)) = Len(q) + 1
    BY <2>1, IndexedInsert
  <2>3. QED
    BY <2>2 DEF w
<1>12. ASSUME NEW m \in In(t)
       PROVE  /\ pos[m] \in 1 .. Len(q) /\ lo[m] \in 1 .. pos[m] /\ hi[m] \in pos[m] .. Len(q)
              /\ (m # p => pos[m] # k) /\ (m = p => pos[m] = k)
              /\ ps[m] = (IF pos[m] >= i THEN pos[m] + 1 ELSE pos[m])
              /\ a[m] = (IF lo[m] > k THEN lo[m] + 1 ELSE lo[m])
              /\ b[m] = (IF hi[m] >= k THEN hi[m] + 1 ELSE hi[m])
  BY <1>1, <1>6, <1>8 DEF Indexed
<1> HIDE DEF k
<1>13. ASSUME NEW m \in In(t)
       PROVE  a[m] \in 1 .. ps[m] /\ b[m] \in ps[m] .. Len(w)
  <2>1. Len(w) = Len(q) + 1
    BY <1>11
  <2>2. /\ pos[m] \in 1 .. Len(q) /\ lo[m] \in 1 .. pos[m] /\ hi[m] \in pos[m] .. Len(q)
        /\ (m # p => pos[m] # k) /\ (m = p => pos[m] = k)
        /\ ps[m] = (IF pos[m] >= i THEN pos[m] + 1 ELSE pos[m])
        /\ a[m] = (IF lo[m] > k THEN lo[m] + 1 ELSE lo[m])
        /\ b[m] = (IF hi[m] >= k THEN hi[m] + 1 ELSE hi[m])
    BY <1>12
  <2>3. a[m] \in 1 .. ps[m]
    BY <1>3, <1>4, <2>2
  <2>4. b[m] \in ps[m] .. Len(w)
    BY <1>3, <1>4, <2>1, <2>2
  <2>5. QED
    BY <2>3, <2>4
<1>14. ASSUME NEW m \in In(t), NEW y \in Side
       PROVE  Beside(ps, a, b, m, y, Child(u, y, m))
  <2> DEFINE c == Child(t, y, m)
  <2>1. Beside(pos, lo, hi, m, y, c)
    BY <1>1
  <2>2. c \in In(t) \/ c = Sentinel
    BY LinkFacts DEF Shape, Spots
  <2>0. /\ pos[m] \in 1 .. Len(q) /\ lo[m] \in 1 .. pos[m] /\ hi[m] \in pos[m] .. Len(q)
        /\ (m # p => pos[m] # k) /\ (m = p => pos[m] = k)
        /\ ps[m] = (IF pos[m] >= i THEN pos[m] + 1 ELSE pos[m])
        /\ a[m] = (IF lo[m] > k THEN lo[m] + 1 ELSE lo[m])
        /\ b[m] = (IF hi[m] >= k THEN hi[m] + 1 ELSE hi[m])
    BY <1>12
  <2>3. CASE m = p /\ y = s
    <3>1. Child(u, y, m) = x
      BY <1>9, <2>3
    <3>2. c = Sentinel
      BY <2>3
    <3>3. CASE y = "left"
      <4>1. lo[m] = k /\ pos[m] = k /\ i = k
        BY <1>4, <1>12, <2>1, <2>3, <3>2, <3>3 DEF Beside
      <4>2. a[m] = k /\ ps[m] = k + 1
        BY <1>3, <1>4, <1>12, <4>1
      <4>3. QED
        BY <1>2, <1>3, <1>4, <1>7, <3>1, <3>3, <4>1, <4>2 DEF Beside
    <3>4. CASE y # "left"
      <4>1. hi[m] = k /\ pos[m] = k /\ i = k + 1
        BY <1>4, <1>12, <2>1, <2>3, <3>2, <3>4 DEF Beside
      <4>2. b[m] = k + 1 /\ ps[m] = k
        BY <1>3, <1>4, <1>12, <4>1
      <4>3. QED
        BY <1>2, <1>3, <1>4, <1>7, <3>1, <3>4, <4>1, <4>2 DEF Beside
    <3>5. QED
      BY <3>3, <3>4
  <2>4. CASE ~(m = p /\ y = s)
    <3>1. Child(u, y, m) = c
      BY <1>9, <2>4
    <3>2. m = p => y # s
      BY <2>4
    <3>3. /\ pos[m] \in Int /\ lo[m] \in Int /\ hi[m] \in Int /\ k \in Int
          /\ c # Sentinel => lo[c] \in Int /\ hi[c] \in Int
      BY <1>2, <1>3, <1>4, <1>12, <2>2
    <3>4. c # Sentinel => /\ a[c] = (IF lo[c] > k THEN lo[c] + 1 ELSE lo[c])
                         /\ b[c] = (IF hi[c] >= k THEN hi[c] + 1 ELSE hi[c])
      BY <1>12, <2>2
    <3>5. CASE y = "left"
      <4>1. m = p => i = k + 1
        BY <1>4, <3>2, <3>5
      <4>2. /\ c = Sentinel => lo[m] = pos[m]
            /\ c # Sentinel => lo[c] = lo[m] /\ hi[c] = pos[m] - 1
        BY <2>1, <3>5 DEF Beside
      <4> HIDE DEF c
      <4>3. c = Sentinel => a[m] = ps[m]
        BY <1>4, <2>0, <3>3, <4>1, <4>2
      <4>4. c # Sentinel => a[c] = a[m]
        BY <2>0, <3>3, <3>4, <4>2
      <4>6. c # Sentinel => b[c] = ps[m] - 1
        BY <1>4, <2>0, <3>3, <3>4, <4>1, <4>2
      <4>5. QED
        BY <3>1, <3>5, <4>3, <4>4, <4>6 DEF Beside
    <3>6. CASE y # "left"
      <4>1. m = p => i = k
        BY <1>4, <3>2, <3>6 DEF Side
      <4>2. /\ c = Sentinel => hi[m] = pos[m]
            /\ c # Sentinel => lo[c] = pos[m] + 1 /\ hi[c] = hi[m]
        BY <2>1, <3>6 DEF Beside
      <4> HIDE DEF c
      <4>3. c = Sentinel => b[m] = ps[m]
        BY <1>4, <2>0, <3>3, <4>1, <4>2
      <4>4. c # Sentinel => b[c] = b[m]
        BY <2>0, <3>3, <3>4, <4>2
      <4>6. c # Sentinel => a[c] = ps[m] + 1
        <5>1. ps[m] = IF pos[m] >= k THEN pos[m] + 1 ELSE pos[m]
          BY <1>4, <2>0, <3>3, <4>1
        <5>2. QED
          BY <2>0, <3>3, <3>4, <4>2, <5>1
      <4>5. QED
        BY <3>1, <3>6, <4>3, <4>4, <4>6 DEF Beside
    <3>7. QED
      BY <3>5, <3>6
  <2>5. QED
    BY <2>3, <2>4
<1>15. ASSUME NEW y \in Side PROVE Beside(ps, a, b, x, y, Child(u, y, x))
  BY <1>7, <1>9 DEF Beside
<1>16. a[x] \in 1 .. ps[x] /\ b[x] \in ps[x] .. Len(w)
  <2>1. Len(w) = Len(q) + 1
    BY <1>11
  <2>2. QED
    BY <1>3, <1>4, <1>7, <2>1
<1>17. a[Root(u)] = 1 /\ b[Root(u)] = Len(w)
  <2>1. lo[Root(t)] = 1 /\ hi[Root(t)] = Len(q)
    BY <1>1, <1>2, <1>10
  <2>2. Len(w) = Len(q) + 1
    BY <1>11
  <2>3. QED
    BY <1>3, <1>4, <1>10, <1>12, <2>1, <2>2
<1>18. Laid(u, w, ps, a, b)
  <2>1. \A m \in In(u) : m = x \/ m \in In(t)
    OBVIOUS
  <2>2. QED
    BY <1>11, <1>13, <1>14, <1>15, <1>16, <1>17, <2>1 DEF Laid
<1>19. QED
  BY <1>4, <1>18 DEF Ordered, w, i

\* or is the only one.
LEMMA FirstOrder ==
  ASSUME NEW t, Shape(t), Root(t) = Sentinel, NEW x \in Node \ In(t), NEW u, Added(t, u, x, Sentinel, "left"),
         In(u) = In(t) \union {x}, NEW q, Ordered(t, q)
  PROVE  q = <<>> /\ Ordered(u, InsertAt(q, 1, x))
<1>1. In(t) = {} /\ x \in Node /\ x # Sentinel /\ Sentinel \in All /\ x \in All
  BY Rooted, Distinct
<1>2. PICK pos, lo, hi : Laid(t, q, pos, lo, hi)
  BY DEF Ordered
<1>3. Indexed(q, In(t), pos)
  BY <1>2 DEF Laid
<1>4. q = <<>>
  <2>1. Len(q) \in Nat /\ ~(1 \in 1 .. Len(q)) /\ q \in Seq({})
    BY <1>1, <1>3 DEF Indexed
  <2>2. Len(q) = 0
    BY <2>1
  <2>3. QED
    BY <2>1, <2>2, EmptySeq
<1>5. Len(q) = 0
  BY <1>4, EmptySeq
<1> DEFINE ps == [m \in {x} |-> 1]
           w == InsertAt(q, 1, x)
<1>6. ps[x] = 1
  OBVIOUS
<1> HIDE DEF ps
<1>7. Indexed(w, In(u), ps) /\ Len(w) = Len(q) + 1
  <2>1. 1 \in 1 .. Len(q) + 1
    BY <1>5
  <2>2. Opened(q, In(t), pos, 1, x, ps)
    BY <1>1, <1>3, <1>6, <2>1 DEF Opened
  <2>3. QED
    BY <2>2, IndexedInsert
<1> HIDE DEF w
<1>8. In(u) = {x} /\ Len(w) = 1
  BY <1>1, <1>5, <1>7
<1>9. Root(u) = x /\ \A y \in Side : Child(u, y, x) = Sentinel
  <2>1. \A m \in All, y \in Side :
          Child(u, y, m) = IF m = x THEN Sentinel ELSE IF m = Sentinel /\ y = "left" THEN x ELSE Child(t, y, m)
    BY DEF Added
  <2>2. Child(u, "left", Sentinel) = x
    BY <1>1, <2>1 DEF Side
  <2>3. QED
    BY <1>1, <2>1, <2>2 DEF Root, Child
<1>10. \A y \in Side : Beside(ps, ps, ps, x, y, Sentinel)
  BY DEF Beside
<1>11. Laid(u, w, ps, ps, ps)
  <2>1. ps[x] \in 1 .. ps[x] /\ ps[x] \in ps[x] .. Len(w) /\ ps[x] = Len(w)
    BY <1>6, <1>8
  <2>2. \A y \in Side : Beside(ps, ps, ps, x, y, Child(u, y, x))
    BY <1>9, <1>10
  <2>3. QED
    BY <1>6, <1>7, <1>8, <1>9, <2>1, <2>2 DEF Laid
<1>12. QED
  BY <1>4, <1>11 DEF Ordered, w

\* A node that is taken out leaves the others in their order,
LEMMA SplicedOrder ==
  ASSUME NEW t, Shape(t), NEW x \in In(t), NEW z \in Side, Child(t, z, x) = Sentinel,
         NEW o, o = Child(t, Other(z), x), NEW u, Spliced(t, u, x, o), In(u) = In(t) \ {x},
         NEW q, NEW pos, NEW lo, NEW hi, Laid(t, q, pos, lo, hi)
  PROVE  Ordered(u, RemoveAt(q, pos[x]))
<1> DEFINE k == pos[x]
           w == RemoveAt(q, k)
           ps == [m \in Node |-> IF pos[m] > k THEN pos[m] - 1 ELSE pos[m]]
           a == [m \in Node |-> IF lo[m] > k THEN lo[m] - 1 ELSE lo[m]]
           b == [m \in Node |-> IF hi[m] >= k THEN hi[m] - 1 ELSE hi[m]]
<1>1. /\ Indexed(q, In(t), pos)
      /\ \A m \in In(t) : /\ lo[m] \in 1 .. pos[m] /\ hi[m] \in pos[m] .. Len(q)
                         /\ \A y \in Side : Beside(pos, lo, hi, m, y, Child(t, y, m))
      /\ Root(t) # Sentinel => lo[Root(t)] = 1 /\ hi[Root(t)] = Len(q)
  BY DEF Laid
<1>2. In(t) \subseteq Node /\ Sentinel \notin In(t) /\ Sentinel # Null
  BY Distinct DEF In
<1>3. Len(q) \in Nat /\ k \in 1 .. Len(q)
  BY <1>1 DEF Indexed
<1>4. \A m \in In(t) : pos[m] \in 1 .. Len(q) /\ (m # x => pos[m] # k)
  BY <1>1 DEF Indexed
<1>5. \A m \in In(t) : /\ ps[m] = IF pos[m] > k THEN pos[m] - 1 ELSE pos[m]
                       /\ a[m] = IF lo[m] > k THEN lo[m] - 1 ELSE lo[m]
                       /\ b[m] = IF hi[m] >= k THEN hi[m] - 1 ELSE hi[m]
  BY <1>2
<1> HIDE DEF ps, a, b, w
<1>6. Indexed(w, In(u), ps) /\ Len(w) = Len(q) - 1
  <2>1. Closed(q, In(t), pos, x, ps)
    BY <1>1, <1>5 DEF Closed
  <2>2. Indexed(RemoveAt(q, pos[x]), In(t) \ {x}, ps) /\ Len(RemoveAt(q, pos[x])) = Len(q) - 1
    <3> HIDE DEF k
    <3>1. QED
      BY <2>1, IndexedRemove, ZenonT(30)
  <2>3. QED
    BY <2>2 DEF w, k
<1> HIDE DEF k
<1>7. ASSUME NEW m \in In(t)
      PROVE  /\ pos[m] \in 1 .. Len(q) /\ lo[m] \in 1 .. pos[m] /\ hi[m] \in pos[m] .. Len(q)
             /\ m # x => pos[m] # k
             /\ ps[m] = (IF pos[m] > k THEN pos[m] - 1 ELSE pos[m])
             /\ a[m] = (IF lo[m] > k THEN lo[m] - 1 ELSE lo[m])
             /\ b[m] = (IF hi[m] >= k THEN hi[m] - 1 ELSE hi[m])
  BY <1>1, <1>4, <1>5
<1>8. o \in Spots(t)
  BY Sides, LinkFacts DEF Shape
<1>9. /\ o = Sentinel => lo[x] = k /\ hi[x] = k
      /\ o # Sentinel => a[o] = lo[x] /\ b[o] = hi[x] - 1
  <2>1. /\ pos[x] = k /\ k \in Int /\ lo[x] \in 1 .. k /\ hi[x] \in k .. Len(q)
    BY <1>3, <1>7 DEF k
  <2>2. o # Sentinel => /\ a[o] = (IF lo[o] > k THEN lo[o] - 1 ELSE lo[o])
                       /\ b[o] = (IF hi[o] >= k THEN hi[o] - 1 ELSE hi[o])
                       /\ pos[o] \in 1 .. Len(q) /\ lo[o] \in 1 .. pos[o] /\ hi[o] \in pos[o] .. Len(q)
    BY <1>7, <1>8 DEF Spots
  <2>3. Beside(pos, lo, hi, x, z, Sentinel) /\ Beside(pos, lo, hi, x, Other(z), o)
    BY <1>1, Sides
  <2>4. CASE z = "left"
    <3>1. lo[x] = k /\ IF o = Sentinel THEN hi[x] = k ELSE lo[o] = k + 1 /\ hi[o] = hi[x]
      BY <2>1, <2>3, <2>4 DEF Beside, Other
    <3>2. QED
      BY <1>3, <2>1, <2>2, <3>1
  <2>5. CASE z = "right"
    <3>1. hi[x] = k /\ IF o = Sentinel THEN lo[x] = k ELSE lo[o] = lo[x] /\ hi[o] = k - 1
      BY <2>1, <2>3, <2>5 DEF Beside, Other
    <3>2. QED
      BY <1>3, <2>1, <2>2, <3>1
  <2>6. QED
    BY <2>4, <2>5 DEF Side
<1>10. ASSUME NEW m \in In(u)
       PROVE  a[m] \in 1 .. ps[m] /\ b[m] \in ps[m] .. Len(w)
  <2>1. Len(w) = Len(q) - 1 /\ m # x
    BY <1>6
  <2>2. /\ pos[m] \in 1 .. Len(q) /\ lo[m] \in 1 .. pos[m] /\ hi[m] \in pos[m] .. Len(q) /\ pos[m] # k
        /\ ps[m] = (IF pos[m] > k THEN pos[m] - 1 ELSE pos[m])
        /\ a[m] = (IF lo[m] > k THEN lo[m] - 1 ELSE lo[m])
        /\ b[m] = (IF hi[m] >= k THEN hi[m] - 1 ELSE hi[m])
    BY <1>7, <2>1
  <2>3. a[m] \in 1 .. ps[m]
    BY <1>3, <2>2
  <2>4. b[m] \in ps[m] .. Len(w)
    BY <1>3, <2>1, <2>2
  <2>5. QED
    BY <2>3, <2>4
<1>11. ASSUME NEW m \in In(u), NEW y \in Side
       PROVE  Beside(ps, a, b, m, y, Child(u, y, m))
  <2> DEFINE c == Child(t, y, m)
             d == Child(u, y, m)
  <2>1. m \in In(t) /\ m # x /\ m \in All /\ m \in Spots(t)
    BY <1>2, Distinct DEF Spots
  <2>2. Beside(pos, lo, hi, m, y, c) /\ c \in Spots(t)
    BY <1>1, <2>1, LinkFacts DEF Shape
  <2>3. (c = x /\ d = o) \/ (c # x /\ d = c)
    <3>1. d = IF m = t.parent[x] /\ y = SideOf(t, x) THEN o ELSE c
      BY <2>1 DEF Spliced
    <3>2. c = x <=> m = t.parent[x] /\ y = SideOf(t, x)
      BY <2>1, LinkFacts DEF Shape
    <3>3. QED
      BY <3>1, <3>2
  <2>4. /\ pos[m] \in 1 .. Len(q) /\ lo[m] \in 1 .. pos[m] /\ hi[m] \in pos[m] .. Len(q) /\ pos[m] # k
        /\ ps[m] = (IF pos[m] > k THEN pos[m] - 1 ELSE pos[m])
        /\ a[m] = (IF lo[m] > k THEN lo[m] - 1 ELSE lo[m])
        /\ b[m] = (IF hi[m] >= k THEN hi[m] - 1 ELSE hi[m])
    BY <1>7, <2>1
  <2>5. c # Sentinel => /\ a[c] = (IF lo[c] > k THEN lo[c] - 1 ELSE lo[c])
                       /\ b[c] = (IF hi[c] >= k THEN hi[c] - 1 ELSE hi[c])
                       /\ pos[c] \in 1 .. Len(q) /\ lo[c] \in 1 .. pos[c] /\ hi[c] \in pos[c] .. Len(q)
    BY <1>7, <2>2 DEF Spots
  <2>6. x # Sentinel /\ pos[x] = k /\ lo[x] \in 1 .. k /\ hi[x] \in k .. Len(q)
    BY <1>2, <1>7 DEF k
  <2> HIDE DEF c, d
  <2>7. CASE y = "left"
    <3>1. /\ c = Sentinel => lo[m] = pos[m]
          /\ c # Sentinel => lo[c] = lo[m] /\ hi[c] = pos[m] - 1
      BY <2>2, <2>7 DEF Beside
    <3>2. CASE c = x /\ d = o
      <4>1. lo[x] = lo[m] /\ hi[x] = pos[m] - 1
        BY <2>6, <3>1, <3>2
      <4>2. a[m] = lo[x] /\ ps[m] = hi[x]
        BY <1>3, <2>4, <2>6, <4>1
      <4>3. QED
        BY <1>9, <2>7, <3>2, <4>2 DEF Beside, d
    <3>3. CASE c # x /\ d = c
      <4>1. c = Sentinel => a[m] = ps[m]
        BY <1>3, <2>4, <3>1
      <4>2. c # Sentinel => a[c] = a[m]
        BY <1>3, <2>4, <2>5, <3>1
      <4>3. c # Sentinel => b[c] = ps[m] - 1
        BY <1>3, <2>4, <2>5, <3>1
      <4>4. QED
        BY <2>7, <3>3, <4>1, <4>2, <4>3 DEF Beside, d
    <3>4. QED
      BY <2>3, <3>2, <3>3
  <2>8. CASE y = "right"
    <3>1. /\ c = Sentinel => hi[m] = pos[m]
          /\ c # Sentinel => lo[c] = pos[m] + 1 /\ hi[c] = hi[m]
      BY <2>2, <2>8 DEF Beside
    <3>2. CASE c = x /\ d = o
      <4>1. lo[x] = pos[m] + 1 /\ hi[x] = hi[m]
        BY <2>6, <3>1, <3>2
      <4>2. b[m] = hi[x] - 1 /\ ps[m] = lo[x] - 1
        BY <1>3, <2>4, <2>6, <4>1
      <4>3. o = Sentinel => b[m] = ps[m]
        BY <1>9, <4>2
      <4>4. o # Sentinel => a[o] = ps[m] + 1 /\ b[o] = b[m]
        BY <1>3, <1>9, <2>6, <4>2
      <4>5. QED
        BY <2>8, <3>2, <4>3, <4>4 DEF Beside, d
    <3>3. CASE c # x /\ d = c
      <4>1. c = Sentinel => b[m] = ps[m]
        BY <1>3, <2>4, <3>1
      <4>2. c # Sentinel => b[c] = b[m]
        BY <1>3, <2>4, <2>5, <3>1
      <4>3. c # Sentinel => a[c] = ps[m] + 1
        <5>1. pos[m] \in Int /\ k \in Int /\ pos[m] # k
          BY <1>3, <2>4
        <5>2. CASE pos[m] > k
          <6>1. ps[m] = pos[m] - 1 /\ (c # Sentinel => lo[c] = pos[m] + 1 /\ lo[c] > k)
            BY <2>4, <3>1, <5>1, <5>2
          <6>2. QED
            BY <2>5, <5>1, <6>1
        <5>3. CASE ~(pos[m] > k)
          <6>1. ps[m] = pos[m] /\ (c # Sentinel => lo[c] = pos[m] + 1 /\ ~(lo[c] > k))
            BY <2>4, <3>1, <5>1, <5>3
          <6>2. QED
            BY <2>5, <6>1
        <5>4. QED
          BY <5>2, <5>3
      <4>4. QED
        BY <2>8, <3>3, <4>1, <4>2, <4>3 DEF Beside, d
    <3>4. QED
      BY <2>3, <3>2, <3>3
  <2>9. QED
    BY <2>7, <2>8 DEF Side, d
<1>12. Root(u) # Sentinel => a[Root(u)] = 1 /\ b[Root(u)] = Len(w)
  <2> DEFINE c == Root(t)
             d == Root(u)
  <2>1. (c = x /\ d = o) \/ (c # x /\ d = c)
    <3>1. d = IF Sentinel = t.parent[x] /\ "left" = SideOf(t, x) THEN o ELSE c
      BY <1>2, Distinct, Sides DEF Spliced, Root, Child
    <3>2. c = x <=> Sentinel = t.parent[x] /\ "left" = SideOf(t, x)
      <4>1. Sentinel \in Spots(t) /\ "left" \in Side /\ Sound(t) /\ t \in Trees
        BY DEF Shape, Spots, Side
      <4>2. Child(t, "left", Sentinel) = x <=> Sentinel = t.parent[x] /\ "left" = SideOf(t, x)
        BY <4>1, LinkFacts
      <4>3. QED
        BY <4>2 DEF Root, Child
    <3>3. QED
      BY <3>1, <3>2
  <2>2. c # Sentinel => lo[c] = 1 /\ hi[c] = Len(q) /\ c \in In(t)
    BY <1>1, Rooted
  <2>3. Len(w) = Len(q) - 1 /\ x # Sentinel
    BY <1>2, <1>6
  <2> HIDE DEF c, d
  <2>4. CASE c = x /\ d = o
    BY <1>9, <2>2, <2>3, <2>4 DEF d
  <2>5. CASE c # x /\ d = c
    <3>1. c # Sentinel => a[c] = 1 /\ b[c] = Len(q) - 1
      BY <1>3, <1>5, <2>2
    <3>2. QED
      BY <2>3, <2>5, <3>1 DEF d
  <2>6. QED
    BY <2>1, <2>4, <2>5
<1>13. Laid(u, w, ps, a, b)
  BY <1>6, <1>10, <1>11, <1>12 DEF Laid
<1>14. QED
  BY <1>13 DEF Ordered, w, k

\* and a node that takes another's place comes where that one was.
LEMMA ReplacedOrder ==
  ASSUME NEW t, Shape(t), NEW n \in In(t), NEW x \in Node \ In(t), NEW u, Replaced(t, u, n, x),
         In(u) = (In(t) \ {n}) \union {x}, NEW q, NEW pos, NEW lo, NEW hi, Laid(t, q, pos, lo, hi)
  PROVE  Ordered(u, [q EXCEPT ![pos[n]] = x])
<1> DEFINE k == pos[n]
           w == [q EXCEPT ![k] = x]
           ps == [m \in Node |-> pos[IF m = x THEN n ELSE m]]
           a == [m \in Node |-> lo[IF m = x THEN n ELSE m]]
           b == [m \in Node |-> hi[IF m = x THEN n ELSE m]]
<1>1. /\ Indexed(q, In(t), pos)
      /\ \A m \in In(t) : /\ lo[m] \in 1 .. pos[m] /\ hi[m] \in pos[m] .. Len(q)
                         /\ \A y \in Side : Beside(pos, lo, hi, m, y, Child(t, y, m))
      /\ Root(t) # Sentinel => lo[Root(t)] = 1 /\ hi[Root(t)] = Len(q)
  BY DEF Laid
<1>2. In(t) \subseteq Node /\ Sentinel \notin In(t) /\ x \notin In(t) /\ x \in Node /\ x # n /\ x # Sentinel
      /\ n # Sentinel /\ Spots(t) \subseteq All /\ x \in All
  BY Distinct DEF In, Spots
<1>3. \A m \in In(t) \ {n} : ps[m] = pos[m] /\ a[m] = lo[m] /\ b[m] = hi[m]
  BY <1>2
<1>4. ps[x] = pos[n] /\ a[x] = lo[n] /\ b[x] = hi[n]
  BY <1>2
<1> HIDE DEF ps, a, b, w
<1>5. Indexed(w, In(u), ps) /\ Len(w) = Len(q)
  <2>1. Exchanged(q, In(t), pos, n, x, ps)
    BY <1>1, <1>2, <1>3, <1>4 DEF Exchanged
  <2>2. Indexed([q EXCEPT ![pos[n]] = x], (In(t) \ {n}) \union {x}, ps) /\ Len([q EXCEPT ![pos[n]] = x]) = Len(q)
    <3> HIDE DEF k
    <3>1. QED
      BY <2>1, IndexedReplace
  <2>3. QED
    BY <2>2 DEF w, k
<1> HIDE DEF k
<1>6. \A y \in Side : Child(t, y, n) \in Spots(t) /\ Child(t, y, n) # n /\ Child(t, y, n) # x
  <2>1. TAKE y \in Side
  <2>2. Child(t, y, n) \in Spots(t)
    BY LinkFacts DEF Shape
  <2>3. PICK r : RankedBy(t, r)
    BY DEF Shape, Ranked
  <2>4. Child(t, y, n) # n
    <3>1. Child(t, y, n) \in In(t) => Child(t, y, n) # n
      BY <2>3, RankFacts DEF Shape
    <3>2. QED
      BY <1>2, <3>1
  <2>5. QED
    BY <1>2, <2>2, <2>4 DEF Spots
<1>7. ASSUME NEW m \in In(t) \ {n}, NEW y \in Side
      PROVE  \/ Child(t, y, m) = n /\ Child(u, y, m) = x
             \/ Child(t, y, m) \notin {n, x} /\ Child(u, y, m) = Child(t, y, m)
  <2>1. m \in All /\ m \in Spots(t) /\ m # x
    BY <1>2 DEF Spots
  <2>2. Child(u, y, m) = IF m = t.parent[n] /\ y = SideOf(t, n) THEN x ELSE Child(t, y, m)
    BY <2>1 DEF Replaced
  <2>3. Child(t, y, m) = n <=> m = t.parent[n] /\ y = SideOf(t, n)
    BY <2>1, LinkFacts DEF Shape
  <2>4. Child(t, y, m) # x
    <3>1. Child(t, y, m) \in Spots(t)
      BY LinkFacts DEF Shape
    <3>2. QED
      BY <1>2, <3>1 DEF Spots
  <2>5. QED
    BY <2>2, <2>3, <2>4
<1>8. ASSUME NEW m \in In(u)
      PROVE  /\ a[m] \in 1 .. ps[m] /\ b[m] \in ps[m] .. Len(w)
             /\ \A y \in Side : Beside(ps, a, b, m, y, Child(u, y, m))
  <2>1. CASE m = x
    <3>1. \A y \in Side : Child(u, y, m) = Child(t, y, n)
      BY <1>2, <2>1 DEF Replaced
    <3>2. ASSUME NEW y \in Side PROVE Beside(ps, a, b, m, y, Child(u, y, m))
      <4> DEFINE c == Child(t, y, n)
      <4>1. Beside(pos, lo, hi, n, y, c) /\ Child(u, y, m) = c /\ c \in Spots(t) /\ c # n
        BY <1>1, <1>6, <3>1
      <4> HIDE DEF c
      <4>2. c # Sentinel => a[c] = lo[c] /\ b[c] = hi[c]
        BY <1>3, <4>1 DEF Spots
      <4>3. QED
        BY <1>4, <2>1, <4>1, <4>2 DEF Beside
    <3>3. QED
      BY <1>1, <1>4, <1>5, <2>1, <3>2
  <2>2. CASE m # x
    <3>1. m \in In(t) \ {n} /\ ps[m] = pos[m] /\ a[m] = lo[m] /\ b[m] = hi[m]
      BY <1>3, <2>2
    <3>2. ASSUME NEW y \in Side PROVE Beside(ps, a, b, m, y, Child(u, y, m))
      <4> DEFINE c == Child(t, y, m)
                 d == Child(u, y, m)
      <4>1. Beside(pos, lo, hi, m, y, c) /\ c \in Spots(t)
        BY <1>1, <3>1, LinkFacts DEF Shape
      <4>2. (c = n /\ d = x) \/ (c \notin {n, x} /\ d = c)
        BY <1>7, <3>1
      <4> HIDE DEF c, d
      <4>3. CASE c = n /\ d = x
        BY <1>2, <1>4, <3>1, <4>1, <4>3 DEF Beside, d
      <4>4. CASE c \notin {n, x} /\ d = c
        <5>1. c # Sentinel => a[c] = lo[c] /\ b[c] = hi[c]
          BY <1>3, <4>1, <4>4 DEF Spots
        <5>2. QED
          BY <3>1, <4>1, <4>4, <5>1 DEF Beside, d
      <4>5. QED
        BY <4>2, <4>3, <4>4
    <3>3. QED
      BY <1>1, <1>5, <3>1, <3>2
  <2>3. QED
    BY <2>1, <2>2
<1>9. Root(u) # Sentinel => a[Root(u)] = 1 /\ b[Root(u)] = Len(w)
  <2> DEFINE c == Root(t)
             d == Root(u)
  <2>1. Sentinel \in Spots(t) /\ "left" \in Side /\ Sound(t) /\ t \in Trees
    BY DEF Shape, Spots, Side
  <2>2. (c = n /\ d = x) \/ (c # n /\ d = c)
    <3>1. d = IF Sentinel = t.parent[n] /\ "left" = SideOf(t, n) THEN x ELSE c
      BY <1>2, <2>1, Distinct DEF Replaced, Root, Child
    <3>2. Child(t, "left", Sentinel) = n <=> Sentinel = t.parent[n] /\ "left" = SideOf(t, n)
      BY <2>1, LinkFacts
    <3>3. QED
      BY <3>1, <3>2 DEF Root, Child
  <2>3. c # Sentinel => lo[c] = 1 /\ hi[c] = Len(q) /\ c \in In(t)
    BY <1>1, Rooted
  <2> HIDE DEF c, d
  <2>4. CASE c = n /\ d = x
    BY <1>2, <1>4, <1>5, <2>3, <2>4 DEF d
  <2>5. CASE c # n /\ d = c
    BY <1>3, <1>5, <2>3, <2>5 DEF d
  <2>6. QED
    BY <2>2, <2>4, <2>5
<1>10. Laid(u, w, ps, a, b)
  BY <1>5, <1>8, <1>9 DEF Laid
<1>11. QED
  BY <1>10 DEF Ordered, w, k

-----------------------------------------------------------------------------
(* The fix-up loops touch no node's place in the order.                    *)

\* Whatever the order of t's nodes is, it is the order of u's.
Keeps(t, u) == \A q : Ordered(t, q) => Ordered(u, q)

\* A change of colours or parent links alone keeps the order:
LEMMA ColourKeeps ==
  ASSUME NEW t, NEW u, u.child = t.child, In(u) = In(t)
  PROVE  Keeps(t, u)
  BY SameOrder DEF Keeps

\* to paint one node,
LEMMA PaintKeeps ==
  ASSUME NEW t, Shape(t), NEW n \in Spots(t), NEW c \in {"red", "black"}
  PROVE  Keeps(t, Paint(t, n, c)) /\ Paint(t, n, c) \in Trees
<1> DEFINE u == Paint(t, n, c)
<1>1. t \in Trees /\ n \in All
  BY Distinct DEF Shape, Spots, In
<1>2. u \in Trees /\ u.child = t.child /\ u.parent = t.parent
  BY <1>1, PaintIs
<1> HIDE DEF u
<1>3. Keeps(t, u)
  BY <1>2, PaintedSound, ColourKeeps
<1>4. QED
  BY <1>2, <1>3 DEF u

\* or to leave the sentinel another parent.
LEMMA ForgetKeeps ==
  ASSUME NEW t \in Trees
  PROVE  Keeps(t, Forget(t))
<1> DEFINE u == Forget(t)
<1>1. u \in Trees /\ u.child = t.child /\ u.color = t.color /\ \A n \in Node : u.parent[n] = t.parent[n]
  BY Distinct DEF Forget, Trees
<1> HIDE DEF u
<1>2. In(u) = In(t)
  BY <1>1 DEF In
<1>3. Keeps(t, u)
  BY <1>1, <1>2, ColourKeeps
<1>4. QED
  BY <1>3 DEF u

\* A rotation keeps it too, after any painting.
LEMMA TurnKeeps ==
  ASSUME NEW t, Shape(t), NEW n \in In(t), NEW s \in Side, Child(t, Other(s), n) \in In(t),
         NEW y \in Trees, y.child = t.child, y.parent = t.parent
  PROVE  Keeps(t, Rotate(y, n, s)) /\ Rotate(y, n, s) \in Trees
<1> DEFINE u == Rotate(y, n, s)
<1>1. In(y) = In(t) /\ Sound(y) /\ Ranked(y) /\ Child(y, Other(s), n) = Child(t, Other(s), n)
  BY PaintedSound DEF Shape
<1>2. Rotated(y, u, n, s)
  BY <1>1, RotateIs
<1> HIDE DEF u
<1>3. In(u) = In(y) /\ u \in Trees
  BY <1>1, <1>2, RotatedSound DEF Rotated
<1>4. Keeps(t, y)
  BY <1>1, ColourKeeps
<1>5. ASSUME NEW q, Ordered(y, q) PROVE Ordered(u, q)
  BY <1>1, <1>2, <1>3, <1>5, RotatedOrder
<1>6. Keeps(t, u)
  BY <1>4, <1>5 DEF Keeps
<1>7. QED
  BY <1>3, <1>6 DEF u

\* What keeps the order twice keeps it.
LEMMA KeepsTwice == ASSUME NEW t, NEW v, NEW u, Keeps(t, v), Keeps(v, u) PROVE Keeps(t, u)
BY DEF Keeps

\* An operation that returns what kept the order.
LEMMA ReturnKeeps ==
  ASSUME NEW t, t \in Trees, Keeps(tree, t), Return(t)
  PROVE  Keeps(tree, tree')
<1>1. tree' = Forget(t)
  BY DEF Return, Forget
<1>2. QED
  BY <1>1, ForgetKeeps, KeepsTwice

\* The rounds of js_rbtree_insert_fixup.
LEMMA InsertFixupKeeps ==
  ASSUME IInv, InsertDone \/ InsertRecolour \/ InsertRotate
  PROVE  Keeps(tree, tree')
<1> DEFINE p == tree.parent[at]
           g == tree.parent[p]
           s == SideOf(tree, p)
           k == Child(tree, Other(s), g)
<1>1. Shape(tree) /\ Inserting(tree, at) /\ Root(tree) \in Spots(tree)
  BY DEF IInv, InsertDone, InsertRecolour, InsertRotate, Shape, Sound
<1>2. CASE InsertDone
  <2> DEFINE t == Paint(tree, Root(tree), "black")
  <2>1. Return(t)
    BY <1>2 DEF InsertDone, InsertEnd
  <2>2. t \in Trees /\ Keeps(tree, t)
    BY <1>1, PaintKeeps
  <2> HIDE DEF t
  <2>3. QED
    BY <2>1, <2>2, ReturnKeeps
<1>3. ASSUME ~Black(tree, p)
      PROVE  at \in In(tree) /\ p \in In(tree) /\ g \in In(tree) /\ s \in Side /\ Other(s) \in Side
             /\ p \in All /\ g \in All /\ k \in All
  <2>1. at \in In(tree) /\ p \in In(tree) /\ g \in In(tree)
    BY <1>1, <1>3, Family
  <2>2. s \in Side /\ Other(s) \in Side
    BY SideIn, Sides
  <2>3. QED
    BY <1>1, <2>1, <2>2, LinkFacts DEF Shape
<1>4. CASE InsertRecolour
  <2> DEFINE u == Paint(Paint(Paint(tree, k, "black"), p, "black"), g, "red")
  <2>1. ~Black(tree, p) /\ tree' = u
    BY <1>4 DEF InsertRecolour, Recoloured, Uncle, Grandparent, Parent
  <2>2. tree \in Trees /\ p \in All /\ g \in All /\ k \in All
    BY <1>1, <1>3, <2>1 DEF Shape
  <2> HIDE DEF p, g, k
  <2>3. PaintedThree(tree, u, k, "black", p, "black", g, "red")
    BY <2>2, PaintedThrice
  <2> HIDE DEF u
  <2>4. u.child = tree.child /\ u.parent = tree.parent
    BY <2>3 DEF PaintedThree
  <2>5. Keeps(tree, u)
    BY <2>4, PaintedSound, ColourKeeps
  <2>6. QED
    BY <2>1, <2>5
<1>5. CASE InsertRotate
  <2> DEFINE v == IF at = Child(tree, Other(s), p) THEN Rotate(tree, p, s) ELSE tree
             c == IF at = Child(tree, Other(s), p) THEN at ELSE p
             y == Paint(Paint(v, c, "black"), g, "red")
             u == Rotate(y, g, Other(s))
             e == Paint(u, Root(u), "black")
  <2>1. ~Black(tree, p) /\ Black(tree, k) /\ Return(e)
    BY <1>5 DEF InsertRotate, InsertEnd, Uncle, Grandparent, Parent
  <2>2. at \in In(tree) /\ p \in In(tree) /\ g \in In(tree) /\ s \in Side /\ Other(s) \in Side
    BY <1>3, <2>1
  <2>3. Rising(v, g, s, c)
    BY <1>1, <2>1, OuterRises, InnerRises
  <2>4. Keeps(tree, v)
    <3>1. CASE at = Child(tree, Other(s), p)
      BY <1>1, <2>2, <3>1, TurnKeeps DEF Shape
    <3>2. CASE at # Child(tree, Other(s), p)
      BY <3>2 DEF Keeps
    <3>3. QED
      BY <3>1, <3>2
  <2> HIDE DEF v, c
  <2>5. Shape(v) /\ g \in In(v) /\ c = Child(v, s, g) /\ c \in In(v)
    BY <2>3 DEF Rising
  <2>6. Other(Other(s)) = s /\ v \in Trees /\ g \in All /\ c \in All
    BY <2>2, <2>5, Sides, LinkFacts DEF Shape
  <2>7. PaintedTwo(v, y, c, "black", g, "red")
    BY <2>6, PaintedTwice
  <2> HIDE DEF y
  <2>8. y \in Trees /\ y.child = v.child /\ y.parent = v.parent
    BY <2>7 DEF PaintedTwo
  <2>9. Keeps(v, u)
    <3> HIDE DEF s, g
    <3>1. QED
      BY <2>2, <2>5, <2>6, <2>8, TurnKeeps
  <2>10. Shape(u)
    BY <2>2, <2>3, Raised DEF y
  <2> HIDE DEF u
  <2>11. Keeps(u, e) /\ e \in Trees
    BY <2>10, PaintKeeps DEF Shape, Sound
  <2> HIDE DEF e
  <2>12. QED
    BY <2>1, <2>4, <2>9, <2>11, KeepsTwice, ReturnKeeps
<1>6. QED
  BY <1>2, <1>4, <1>5

\* The sibling comes above the parent.
LEMMA LiftedKeeps ==
  ASSUME IInv, Short
  PROVE  Keeps(tree, Lifted)
<1> DEFINE s == SideOf(tree, at)
           b == Child(tree, Other(s), Parent)
           y == Paint(Paint(tree, b, "black"), Parent, "red")
<1>1. Lacking(tree, at, Parent, s, b)
  BY SiblingIs DEF IInv, Short, Parent
<1>2. Lifted = IF Black(tree, b) THEN tree ELSE Rotate(y, Parent, s)
  BY DEF Lifted
<1> HIDE DEF s
<1>3. Shape(tree) /\ Parent \in In(tree) /\ s \in Side /\ b \in In(tree) /\ tree \in Trees
      /\ b \in All /\ Parent \in All
  <2> HIDE DEF b
  <2>1. QED
    BY <1>1, LackFacts DEF Lacking
<1>4. y \in Trees /\ y.child = tree.child /\ y.parent = tree.parent
  <2> HIDE DEF b
  <2>1. PaintedTwo(tree, y, b, "black", Parent, "red")
    BY <1>3, PaintedTwice
  <2> HIDE DEF y
  <2>2. QED
    BY <2>1 DEF PaintedTwo
<1> HIDE DEF y
<1>5. Keeps(tree, Rotate(y, Parent, s))
  BY <1>3, <1>4, TurnKeeps
<1>6. QED
  BY <1>2, <1>5 DEF Keeps

\* The rounds of js_rbtree_delete_fixup.
LEMMA DeleteFixupKeeps ==
  ASSUME IInv, DeleteUp \/ DeleteRotate \/ DeleteDone
  PROVE  Keeps(tree, tree')
<1> DEFINE s == SideOf(tree, at)
<1>1. CASE DeleteUp
  <2>1. Short /\ tree' = Paint(Lifted, Sibling, "red")
    BY <1>1 DEF DeleteUp
  <2>2. Lacking(Lifted, at, Parent, s, Sibling) /\ Keeps(tree, Lifted)
    BY <2>1, LiftedIs, LiftedKeeps
  <2>3. Shape(Lifted) /\ Sibling \in Spots(Lifted)
    BY <2>2 DEF Lacking, Spots
  <2>4. Keeps(Lifted, tree')
    BY <2>1, <2>3, PaintKeeps
  <2>5. QED
    BY <2>2, <2>4, KeepsTwice
<1>2. CASE DeleteRotate
  <2> DEFINE z == Paint(Paint(Lifted, Sibling, "red"), Inner, "black")
             v == IF Black(Lifted, Outer) THEN Rotate(z, Sibling, Other(s)) ELSE Lifted
             b == Child(v, Other(s), Parent)
             e == Child(v, Other(s), b)
             y == Paint(Paint(Paint(v, b, v.color[Parent]), Parent, "black"), e, "black")
             u == Rotate(y, Parent, s)
  <2>1. Short /\ ~(Black(Lifted, Outer) /\ Black(Lifted, Inner)) /\ Return(u)
    BY <1>2 DEF DeleteRotate
  <2>2. Lacking(Lifted, at, Parent, s, Sibling) /\ Black(Lifted, Sibling) /\ Keeps(tree, Lifted)
    BY <2>1, LiftedIs, LiftedKeeps
  <2>3. Outer = Child(Lifted, Other(s), Sibling) /\ Inner = Child(Lifted, s, Sibling)
    BY DEF Outer, Inner
  <2>4. Sibling = Child(Lifted, Other(s), Parent)
    BY DEF Sibling
  <2> HIDE DEF s
  <2>5. Lacking(v, at, Parent, s, b) /\ Black(v, b)
    <3>1. CASE Black(Lifted, Outer)
      BY <2>1, <2>2, <2>3, <3>1, Bends
    <3>2. CASE ~Black(Lifted, Outer)
      BY <2>2, <2>3, <2>4, <3>2
    <3>3. QED
      BY <3>1, <3>2
  <2>6. Keeps(Lifted, v)
    <3>1. CASE Black(Lifted, Outer)
      <4>1. /\ Shape(Lifted) /\ Lifted \in Trees /\ Sibling \in In(Lifted) /\ Sibling \in All
            /\ Inner \in Spots(Lifted) /\ Inner \in All /\ s \in Side /\ Other(s) \in Side /\ Other(Other(s)) = s
            /\ Sentinel \notin In(Lifted) /\ Lifted.color[Sentinel] = "black"
        <5>1. Shape(Lifted) /\ Sibling \in In(Lifted) /\ s \in Side
          BY <2>2 DEF Lacking
        <5>2. Sentinel \notin In(Lifted)
          BY Distinct DEF In
        <5>3. QED
          BY <2>2, <2>3, <5>1, <5>2, LackFacts
      <4>2. Inner \in In(Lifted)
        BY <2>1, <3>1, <4>1 DEF Spots, Black
      <4>3. PaintedTwo(Lifted, z, Sibling, "red", Inner, "black")
        BY <4>1, PaintedTwice
      <4> HIDE DEF z
      <4>4. z \in Trees /\ z.child = Lifted.child /\ z.parent = Lifted.parent
        BY <4>3 DEF PaintedTwo
      <4>5. Keeps(Lifted, Rotate(z, Sibling, Other(s)))
        BY <2>3, <4>1, <4>2, <4>4, TurnKeeps
      <4>6. QED
        BY <3>1, <4>5
    <3>2. CASE ~Black(Lifted, Outer)
      BY <3>2 DEF Keeps
    <3>3. QED
      BY <3>1, <3>2
  <2> HIDE DEF v
  <2>7. /\ Shape(v) /\ v \in Trees /\ Parent \in In(v) /\ Parent \in All /\ b \in In(v) /\ b \in All
        /\ e \in All /\ s \in Side /\ Other(s) \in Side /\ v.color[Parent] \in {"red", "black"}
    <3> HIDE DEF b
    <3>1. Shape(v) /\ Parent \in In(v) /\ b \in In(v) /\ s \in Side
      BY <2>5 DEF Lacking
    <3>2. QED
      BY <2>5, <3>1, LackFacts DEF Trees
  <2>8. y \in Trees /\ y.child = v.child /\ y.parent = v.parent
    <3> HIDE DEF b, e
    <3>1. PaintedThree(v, y, b, v.color[Parent], Parent, "black", e, "black")
      BY <2>7, PaintedThrice
    <3> HIDE DEF y
    <3>2. QED
      BY <3>1 DEF PaintedThree
  <2> HIDE DEF y
  <2>9. Keeps(v, u) /\ u \in Trees
    BY <2>7, <2>8, TurnKeeps
  <2> HIDE DEF u
  <2>10. QED
    BY <2>1, <2>2, <2>6, <2>9, KeepsTwice, ReturnKeeps
<1>3. CASE DeleteDone
  <2> DEFINE t == Paint(tree, at, "black")
  <2>1. Shape(tree) /\ at \in Spots(tree) /\ Return(t)
    BY <1>3 DEF IInv, DeleteDone
  <2>2. t \in Trees /\ Keeps(tree, t)
    BY <2>1, PaintKeeps
  <2> HIDE DEF t
  <2>3. QED
    BY <2>1, <2>2, ReturnKeeps
<1>4. QED
  BY <1>1, <1>2, <1>3

-----------------------------------------------------------------------------
(* The search of js_rbtree_insert and the order of the keys.               *)

\* No node stands before one with a smaller key.
Sorted(q) == \A i, j \in 1 .. Len(q) : i < j => KeyOf[q[i]] <= KeyOf[q[j]]

\* The nodes in front of those below m have no larger key than x, the nodes behind them a larger one.
Fits(q, lo, hi, x, m) ==
    /\ \A j \in 1 .. Len(q) : j < lo[m] => KeyOf[q[j]] <= KeyOf[x]
    /\ \A j \in 1 .. Len(q) : j > hi[m] => KeyOf[q[j]] > KeyOf[x]

\* A new node comes behind the nodes of the same or a smaller key and before all others.
LEMMA PlaceFits ==
  ASSUME Shape(tree), NEW x \in Node, NEW q, NEW pos, NEW lo, NEW hi, Laid(tree, q, pos, lo, hi), Sorted(q),
         Root(tree) # Sentinel
  PROVE  LET p == Place(tree, x)
             i == IF Turn(x, p) = "left" THEN pos[p] ELSE pos[p] + 1
         IN \A j \in 1 .. Len(q) : j < i <=> KeyOf[q[j]] <= KeyOf[x]
<1> DEFINE T == {m \in In(tree) : Fits(q, lo, hi, x, m)}
           p == Place(tree, x)
           i == IF Turn(x, p) = "left" THEN pos[p] ELSE pos[p] + 1
<1>1. tree \in Trees /\ Sound(tree) /\ Ranked(tree)
  BY DEF Shape
<1>2. /\ Indexed(q, In(tree), pos)
      /\ \A m \in In(tree) : /\ lo[m] \in 1 .. pos[m] /\ hi[m] \in pos[m] .. Len(q)
                             /\ \A s \in Side : Beside(pos, lo, hi, m, s, Child(tree, s, m))
      /\ lo[Root(tree)] = 1 /\ hi[Root(tree)] = Len(q)
  BY DEF Laid
<1>3. Len(q) \in Nat /\ \A j \in 1 .. Len(q) : q[j] \in Node /\ KeyOf[q[j]] \in Nat
  BY <1>2, RBTreeAssumption DEF Indexed, In
<1>4. KeyOf[x] \in Nat /\ x \in Node
  BY RBTreeAssumption
<1>5. ASSUME NEW m \in In(tree)
      PROVE  /\ pos[m] \in 1 .. Len(q) /\ lo[m] \in 1 .. pos[m] /\ hi[m] \in pos[m] .. Len(q) /\ KeyOf[m] \in Nat
             /\ Turn(x, m) \in Side
             /\ Turn(x, m) = "left" => \A j \in 1 .. Len(q) : j >= pos[m] => KeyOf[q[j]] > KeyOf[x]
             /\ Turn(x, m) # "left" => \A j \in 1 .. Len(q) : j <= pos[m] => KeyOf[q[j]] <= KeyOf[x]
             /\ Beside(pos, lo, hi, m, Turn(x, m), Child(tree, Turn(x, m), m))
  <2>1. pos[m] \in 1 .. Len(q) /\ q[pos[m]] = m /\ lo[m] \in 1 .. pos[m] /\ hi[m] \in pos[m] .. Len(q)
    BY <1>2 DEF Indexed
  <2>2. KeyOf[m] \in Nat
    BY <1>3, <2>1
  <2>3. Turn(x, m) \in Side
    BY DEF Turn, Side
  <2>4. \A j \in 1 .. Len(q) : /\ j > pos[m] => KeyOf[m] <= KeyOf[q[j]]
                               /\ j < pos[m] => KeyOf[q[j]] <= KeyOf[m]
                               /\ j = pos[m] => KeyOf[q[j]] = KeyOf[m]
    BY <2>1 DEF Sorted
  <2>5. ASSUME Turn(x, m) = "left", NEW j \in 1 .. Len(q), j >= pos[m] PROVE KeyOf[q[j]] > KeyOf[x]
    <3>1. KeyOf[x] < KeyOf[m]
      BY <2>5 DEF Turn
    <3>2. KeyOf[m] <= KeyOf[q[j]]
      BY <1>3, <2>1, <2>2, <2>4, <2>5
    <3>3. QED
      BY <1>3, <1>4, <2>2, <3>1, <3>2
  <2>6. ASSUME Turn(x, m) # "left", NEW j \in 1 .. Len(q), j <= pos[m] PROVE KeyOf[q[j]] <= KeyOf[x]
    <3>1. ~(KeyOf[x] < KeyOf[m])
      BY <2>6 DEF Turn
    <3>2. KeyOf[q[j]] <= KeyOf[m]
      BY <1>3, <2>1, <2>2, <2>4, <2>6
    <3>3. QED
      BY <1>3, <1>4, <2>2, <3>1, <3>2
  <2>7. Beside(pos, lo, hi, m, Turn(x, m), Child(tree, Turn(x, m), m))
    BY <1>2, <2>3
  <2>8. QED
    BY <2>1, <2>2, <2>3, <2>5, <2>6, <2>7
<1>6. Root(tree) \in T
  <2>1. Root(tree) \in In(tree)
    BY <1>1 DEF Sound, Spots
  <2>2. Fits(q, lo, hi, x, Root(tree))
    BY <1>2, <1>3 DEF Fits
  <2>3. QED
    BY <2>1, <2>2
<1>7. ASSUME NEW m \in T, Child(tree, Turn(x, m), m) # Sentinel PROVE Child(tree, Turn(x, m), m) \in T
  <2> DEFINE c == Child(tree, Turn(x, m), m)
  <2>1. m \in In(tree) /\ Fits(q, lo, hi, x, m)
    OBVIOUS
  <2>2. c \in In(tree) /\ c # Sentinel
    BY <1>1, <1>5, <1>7, <2>1 DEF Sound, Spots
  <2>3. Beside(pos, lo, hi, m, Turn(x, m), c)
    BY <1>5, <2>1
  <2> HIDE DEF c
  <2>4. Fits(q, lo, hi, x, c)
    <3>1. pos[m] \in Int /\ lo[m] \in Int /\ hi[m] \in Int
      BY <1>5, <2>1
    <3>2. CASE Turn(x, m) = "left"
      <4>1. lo[c] = lo[m] /\ hi[c] = pos[m] - 1
        BY <2>2, <2>3, <3>2 DEF Beside
      <4>2. \A j \in 1 .. Len(q) : j > hi[c] => KeyOf[q[j]] > KeyOf[x]
        BY <1>3, <1>5, <2>1, <3>1, <3>2, <4>1
      <4>3. QED
        BY <2>1, <4>1, <4>2 DEF Fits
    <3>3. CASE Turn(x, m) # "left"
      <4>1. lo[c] = pos[m] + 1 /\ hi[c] = hi[m]
        BY <2>2, <2>3, <3>3 DEF Beside
      <4>2. \A j \in 1 .. Len(q) : j < lo[c] => KeyOf[q[j]] <= KeyOf[x]
        BY <1>3, <1>5, <2>1, <3>1, <3>3, <4>1
      <4>3. QED
        BY <2>1, <4>1, <4>2 DEF Fits
    <3>4. QED
      BY <3>2, <3>3
  <2>5. QED
    BY <2>2, <2>4 DEF c
<1>8. p \in T /\ Child(tree, Turn(x, p), p) = Sentinel
  <2>1. T \in SUBSET In(tree)
    OBVIOUS
  <2> HIDE DEF T
  <2>2. p \in T
    BY <1>1, <1>4, <1>6, <1>7, <2>1, PlaceIs
  <2>3. p # Sentinel
    BY <2>1, <2>2, Distinct DEF In
  <2>4. QED
    BY <1>1, <1>4, <2>2, <2>3, PlaceIs
<1>9. p \in In(tree) /\ Fits(q, lo, hi, x, p)
  BY <1>8
<1> HIDE DEF p, T
<1>10. /\ pos[p] \in 1 .. Len(q) /\ lo[p] \in 1 .. pos[p] /\ hi[p] \in pos[p] .. Len(q)
       /\ Turn(x, p) = "left" => \A j \in 1 .. Len(q) : j >= pos[p] => KeyOf[q[j]] > KeyOf[x]
       /\ Turn(x, p) # "left" => \A j \in 1 .. Len(q) : j <= pos[p] => KeyOf[q[j]] <= KeyOf[x]
       /\ Beside(pos, lo, hi, p, Turn(x, p), Sentinel)
  BY <1>5, <1>8, <1>9
<1>11. /\ Turn(x, p) = "left" => lo[p] = pos[p] /\ i = pos[p]
       /\ Turn(x, p) # "left" => hi[p] = pos[p] /\ i = pos[p] + 1
  BY <1>10 DEF Beside
<1> HIDE DEF i
<1>12. ASSUME NEW j \in 1 .. Len(q) PROVE j < i <=> KeyOf[q[j]] <= KeyOf[x]
  <2>1. j < lo[p] => KeyOf[q[j]] <= KeyOf[x]
    BY <1>9 DEF Fits
  <2>2. j > hi[p] => KeyOf[q[j]] > KeyOf[x]
    BY <1>9 DEF Fits
  <2>3. KeyOf[q[j]] \in Nat
    BY <1>3
  <2>4. /\ Turn(x, p) = "left" => (j >= pos[p] => KeyOf[q[j]] > KeyOf[x])
        /\ Turn(x, p) # "left" => (j <= pos[p] => KeyOf[q[j]] <= KeyOf[x])
    BY <1>10
  <2>5. pos[p] \in Int /\ j \in Int
    BY <1>10
  <2>6. QED
    BY <1>4, <1>11, <2>1, <2>2, <2>3, <2>4, <2>5
<1>13. QED
  BY <1>12 DEF p, i

\* An insertion puts the new node at the place in the queue that its key asks for.
LEMMA InsertGoes ==
  ASSUME IInv, NEW n \in Node, Insert(n), NEW q, Ordered(tree, q), Sorted(q)
  PROVE  \E i \in 1 .. Len(q) + 1 :
           /\ \A j \in 1 .. Len(q) : j < i <=> KeyOf[q[j]] <= KeyOf[n]
           /\ Ordered(tree', InsertAt(q, i, n))
<1> DEFINE p == Place(tree, n)
           s == IF p = Sentinel THEN "left" ELSE Turn(n, p)
           u == [tree EXCEPT !.child.left[n] = Sentinel,
                             !.child.right[n] = Sentinel,
                             !.color[n] = "red",
                             !.child[s][p] = n,
                             !.parent[n] = p]
<1>1. n \notin InTree /\ tree' = u
  BY DEF Insert
<1>2. Shape(tree) /\ n \in Node \ In(tree) /\ tree \in Trees
  BY <1>1 DEF IInv, InTree, In, Shape
<1>3. /\ p \in Spots(tree) /\ s \in Side /\ Child(tree, s, p) = Sentinel
      /\ p = Sentinel => Root(tree) = Sentinel
  BY <1>2, PlaceIs DEF Shape
<1>4. Root(tree) = Sentinel => p = Sentinel
  BY DEF Place
<1>5. s = IF p = Sentinel THEN "left" ELSE Turn(n, p)
  OBVIOUS
<1>6. Root(tree) # Sentinel =>
        \A pos, lo, hi : Laid(tree, q, pos, lo, hi) =>
          LET i == IF Turn(n, p) = "left" THEN pos[p] ELSE pos[p] + 1
          IN \A j \in 1 .. Len(q) : j < i <=> KeyOf[q[j]] <= KeyOf[n]
  BY <1>2, PlaceFits
<1> HIDE DEF p, s
<1>7. p \in All /\ p # n
  BY <1>2, <1>3, Distinct DEF Spots, In
<1>8. Added(tree, u, n, p, s)
  BY <1>2, <1>3, <1>7, AddedIs
<1> HIDE DEF u
<1>9. In(u) = In(tree) \union {n}
  BY <1>2, <1>3, <1>8, AddedSound DEF Shape
<1>10. CASE Root(tree) = Sentinel
  <2>1. p = Sentinel /\ s = "left"
    BY <1>4, <1>5, <1>10
  <2>2. q = <<>> /\ Ordered(u, InsertAt(q, 1, n))
    BY <1>2, <1>8, <1>9, <1>10, <2>1, FirstOrder
  <2>3. Len(q) = 0
    BY <2>2, EmptySeq
  <2>4. 1 \in 1 .. Len(q) + 1 /\ \A j \in 1 .. Len(q) : FALSE
    BY <2>3
  <2>5. QED
    BY <1>1, <2>2, <2>4
<1>11. CASE Root(tree) # Sentinel
  <2>1. p \in In(tree) /\ s = Turn(n, p)
    BY <1>3, <1>5, <1>11 DEF Spots
  <2>2. PICK pos, lo, hi : Laid(tree, q, pos, lo, hi)
    BY DEF Ordered
  <2> DEFINE i == IF s = "left" THEN pos[p] ELSE pos[p] + 1
  <2>3. i \in 1 .. Len(q) + 1 /\ Ordered(u, InsertAt(q, i, n))
    BY <1>2, <1>3, <1>8, <1>9, <2>1, <2>2, AddedOrder
  <2>4. \A j \in 1 .. Len(q) : j < i <=> KeyOf[q[j]] <= KeyOf[n]
    BY <1>6, <1>11, <2>1, <2>2
  <2> HIDE DEF i
  <2>5. QED
    BY <1>1, <2>3, <2>4
<1>12. QED
  BY <1>10, <1>11

\* The smallest of the nodes below top comes first among them.
LEMMA MinFirst ==
  ASSUME Shape(tree), NEW q, NEW pos, NEW lo, NEW hi, Laid(tree, q, pos, lo, hi), NEW top \in In(tree)
  PROVE  BranchMin(tree, top) \in In(tree) /\ pos[BranchMin(tree, top)] = lo[top]
<1> DEFINE T == {m \in In(tree) : lo[m] = lo[top]}
           b == BranchMin(tree, top)
<1>1. tree \in Trees /\ Sound(tree) /\ Ranked(tree) /\ "left" \in Side
  BY DEF Shape, Side
<1>2. \A m \in In(tree) : Beside(pos, lo, hi, m, "left", Child(tree, "left", m))
  BY <1>1 DEF Laid
<1>3. T \in SUBSET In(tree) /\ top \in T
  OBVIOUS
<1>4. ASSUME NEW m \in T, Child(tree, "left", m) # Sentinel PROVE Child(tree, "left", m) \in T
  <2>1. m \in In(tree) /\ lo[m] = lo[top]
    OBVIOUS
  <2>2. Child(tree, "left", m) \in In(tree)
    BY <1>1, <1>4, <2>1 DEF Sound, Spots
  <2>3. lo[Child(tree, "left", m)] = lo[m]
    BY <1>2, <1>4, <2>1 DEF Beside
  <2>4. QED
    BY <2>1, <2>2, <2>3
<1>5. b \in T /\ Child(tree, "left", b) = Sentinel
  <2> HIDE DEF T
  <2>1. QED
    BY <1>1, <1>3, <1>4, BranchMinIs
<1>6. b \in In(tree) /\ lo[b] = lo[top]
  BY <1>5
<1> HIDE DEF b
<1>7. lo[b] = pos[b]
  BY <1>2, <1>5, <1>6 DEF Beside
<1>8. QED
  BY <1>6, <1>7 DEF b

\* The element behind i goes out and takes the place of the one at i: that one is gone.
LEMMA RemoveNext ==
  ASSUME NEW S, NEW q \in Seq(S), NEW i \in 1 .. Len(q) - 1
  PROVE  [RemoveAt(q, i + 1) EXCEPT ![i] = q[i + 1]] = RemoveAt(q, i)
<1> DEFINE r == RemoveAt(q, i)
           w == RemoveAt(q, i + 1)
           v == [w EXCEPT ![i] = q[i + 1]]
<1>1. Len(q) \in Nat /\ i \in 1 .. Len(q) /\ i + 1 \in 1 .. Len(q)
  OBVIOUS
<1>2. r \in Seq(S) /\ Len(r) = Len(q) - 1 /\ \A j \in 1 .. Len(q) - 1 : r[j] = IF j < i THEN q[j] ELSE q[j + 1]
  BY <1>1, RemoveAtIs
<1>3. w \in Seq(S) /\ Len(w) = Len(q) - 1 /\ \A j \in 1 .. Len(q) - 1 : w[j] = IF j < i + 1 THEN q[j] ELSE q[j + 1]
  BY <1>1, RemoveAtIs
<1> HIDE DEF r, w
<1>4. q[i + 1] \in S
  BY <1>1
<1>5. v \in Seq(S) /\ Len(v) = Len(q) - 1 /\ \A j \in 1 .. Len(q) - 1 : v[j] = IF j = i THEN q[i + 1] ELSE w[j]
  BY <1>1, <1>3, <1>4
<1> HIDE DEF v
<1>6. ASSUME NEW j \in 1 .. Len(v) PROVE v[j] = r[j]
  <2>1. j \in 1 .. Len(q) - 1
    BY <1>5
  <2>2. CASE j = i
    BY <1>2, <1>5, <2>1, <2>2
  <2>3. CASE j < i
    BY <1>2, <1>3, <1>5, <2>1, <2>3
  <2>4. CASE j > i
    <3>1. v[j] = w[j] /\ w[j] = q[j + 1] /\ r[j] = q[j + 1]
      BY <1>2, <1>3, <1>5, <2>1, <2>4
    <3>2. QED
      BY <3>1
  <2>5. QED
    BY <2>2, <2>3, <2>4
<1>7. v = r
  BY <1>2, <1>5, <1>6, SeqEqual
<1>8. QED
  BY <1>7 DEF v, w, r

\* A deletion takes the node out of the queue and leaves the others in their order.
LEMMA DeleteGoes ==
  ASSUME IInv, NEW n \in Node, Delete(n), NEW q, Ordered(tree, q)
  PROVE  \E i \in 1 .. Len(q) : q[i] = n /\ Ordered(tree', RemoveAt(q, i))
<1> DEFINE x == Subst(n)
           o == Orphan(n)
           f == ParentRelink(tree, o, x)
           v == Cleared(f, x)
           u == Cleared(IF x = n THEN f ELSE TakePlace(f, x, n), n)
           m == Child(tree, "right", n)
<1>1. /\ pc = "idle" /\ n \in InTree
      /\ \/ Black(tree, x) /\ tree' = u
         \/ ~Black(tree, x) /\ Return(u)
  BY DEF Delete, Cleared
<1>2. Shape(tree) /\ Whole(tree) /\ n \in In(tree) /\ tree \in Trees
  BY <1>1 DEF IInv, InTree, In, Shape
<1>3. /\ x \in In(tree) /\ o \in All /\ o # x
      /\ \E z \in Side : Child(tree, z, x) = Sentinel /\ o = Child(tree, Other(z), x)
      /\ x # n => o # n /\ \A y \in Side : Child(tree, y, n) # Sentinel
  BY <1>2, SubstIs
<1>4. x # n => x = BranchMin(tree, m)
  BY DEF Subst
<1> HIDE DEF x, o
<1>5. x \in All /\ tree.parent[x] \in All /\ x \in Node
  BY <1>2, <1>3, LinkFacts DEF Shape
<1>6. Spliced(tree, v, x, o)
  BY <1>2, <1>3, <1>5, SplicedIs
<1>7. f \in Trees
  BY <1>2, <1>3, <1>5, RelinkIs
<1>8. PICK z \in Side : Child(tree, z, x) = Sentinel /\ o = Child(tree, Other(z), x)
  BY <1>3
<1>9. Shape(v) /\ In(v) = In(tree) \ {x}
  <2> HIDE DEF v
  <2>1. QED
    BY <1>2, <1>3, <1>6, <1>8, Unlinks
<1>10. PICK pos, lo, hi : Laid(tree, q, pos, lo, hi)
  BY DEF Ordered
<1>11. Indexed(q, In(tree), pos) /\ q \in Seq(In(tree)) /\ pos[n] \in 1 .. Len(q) /\ q[pos[n]] = n
       /\ Len(q) \in Nat
  BY <1>2, <1>10 DEF Laid, Indexed
<1>12. Ordered(v, RemoveAt(q, pos[x]))
  <2> HIDE DEF v
  <2>1. QED
    BY <1>2, <1>3, <1>6, <1>8, <1>9, <1>10, SplicedOrder
<1> DEFINE i == pos[n]
<1>13. Ordered(u, RemoveAt(q, i)) /\ u \in Trees
  <2>1. CASE x = n
    <3>1. u = v
      BY <2>1
    <3> HIDE DEF u, v
    <3>2. QED
      BY <1>9, <1>12, <2>1, <3>1 DEF Shape
  <2>2. CASE x # n
    <3>1. n \in In(v) /\ x \in Node \ In(v) /\ n \in All
      BY <1>2, <1>5, <1>9, <2>2, Distinct DEF In
    <3>2. u = Cleared(TakePlace(f, x, n), n)
      BY <2>2
    <3>3. Sound(v) /\ Ranked(v) /\ v \in Trees
      BY <1>9 DEF Shape
    <3>4. Replaced(v, u, n, x)
      <4> HIDE DEF f, u
      <4>1. QED
        BY <1>5, <1>7, <3>1, <3>2, <3>3, ReplacedIs
    <3> HIDE DEF f, u, v
    <3>5. In(u) = (In(v) \ {n}) \union {x}
      BY <3>1, <3>3, <3>4, ReplacedSound
    <3>6. m \in In(tree) /\ Beside(pos, lo, hi, n, "right", m) /\ m # Sentinel
      <4>1. "right" \in Side
        BY DEF Side
      <4>2. m \in Spots(tree)
        BY <1>2, <4>1, LinkFacts DEF Shape
      <4>3. QED
        BY <1>2, <1>3, <1>10, <2>2, <4>1, <4>2 DEF Laid, Spots
    <3>7. pos[x] = i + 1
      <4>1. pos[x] = lo[m]
        BY <1>2, <1>4, <1>10, <2>2, <3>6, MinFirst
      <4>2. lo[m] = i + 1
        BY <3>6 DEF Beside
      <4>3. QED
        BY <4>1, <4>2
    <3>8. pos[x] \in 1 .. Len(q) /\ q[pos[x]] = x
      BY <1>3, <1>11 DEF Indexed
    <3>9. i \in 1 .. Len(q) - 1 /\ q[i + 1] = x
      BY <1>11, <3>7, <3>8
    <3> DEFINE w == RemoveAt(q, i + 1)
    <3>10. Ordered(v, w)
      BY <1>12, <3>7
    <3>11. w[i] = n /\ Len(w) = Len(q) - 1
      <4>1. i + 1 \in 1 .. Len(q) /\ i \in 1 .. Len(q) - 1 /\ i < i + 1
        BY <1>11, <3>9
      <4>2. QED
        BY <1>11, <4>1, RemoveAtIs
    <3>12. [w EXCEPT ![i] = x] = RemoveAt(q, i)
      BY <1>11, <3>9, RemoveNext
    <3> HIDE DEF w, i
    <3>13. PICK ps, a, b : Laid(v, w, ps, a, b)
      BY <3>10 DEF Ordered
    <3>14. ps[n] = i
      <4>1. Indexed(w, In(v), ps)
        BY <3>13 DEF Laid
      <4>2. i \in 1 .. Len(w)
        BY <1>11, <3>9, <3>11
      <4>3. QED
        BY <3>11, <4>1, <4>2 DEF Indexed
    <3>15. Ordered(u, [w EXCEPT ![ps[n]] = x])
      BY <1>9, <3>1, <3>4, <3>5, <3>13, ReplacedOrder
    <3>16. u \in Trees
      BY <3>4 DEF Replaced
    <3>17. QED
      BY <3>12, <3>14, <3>15, <3>16
  <2>3. QED
    BY <2>1, <2>2
<1> HIDE DEF u
<1>14. Ordered(tree', RemoveAt(q, i))
  <2>1. CASE tree' = u
    BY <1>13, <2>1
  <2>2. CASE Return(u)
    <3>1. tree' = Forget(u)
      BY <2>2 DEF Return, Forget
    <3>2. QED
      BY <1>13, <3>1, ForgetKeeps DEF Keeps
  <2>3. QED
    BY <1>1, <2>1, <2>2
<1>15. QED
  BY <1>11, <1>14

-----------------------------------------------------------------------------
(* The walk down the child links meets the nodes in this order.            *)

\* A part of a sequence falls apart at every place k.
LEMMA SubSeqSplits ==
  ASSUME NEW S, NEW q \in Seq(S), NEW k \in 1 .. Len(q), NEW a \in 1 .. k, NEW b \in k .. Len(q)
  PROVE  SubSeq(q, a, b) = SubSeq(q, a, k - 1) \o <<q[k]>> \o SubSeq(q, k + 1, b)
<1>1. Len(q) \in Nat
  OBVIOUS
<1>2. a \in 1 .. Len(q) + 1 /\ k \in a - 1 .. Len(q) /\ a \in 1 .. Len(q) /\ k \in a .. Len(q)
  BY <1>1
<1>3. SubSeq(q, a, b) = SubSeq(q, a, k) \o SubSeq(q, k + 1, b)
  BY <1>2, ConcatAdjacentSubSeq
<1>4. SubSeq(q, a, k) = SubSeq(q, a, k - 1) \o <<q[k]>>
  BY <1>2, SubSeqRecursiveSecond
<1>5. QED
  BY <1>3, <1>4

\* What the walk down the child links of t reads, as InOrder does of the tree.
OrderOf(t) ==
    LET walk[n \in Spots(t)] == IF n = Sentinel THEN <<>>
                                ELSE walk[Child(t, "left", n)] \o <<n>> \o walk[Child(t, "right", n)]
    IN walk[Root(t)]

\* The nodes below n make up the part of the queue from lo to hi.
LEMMA OrderIs ==
  ASSUME NEW t, Shape(t), NEW q, Ordered(t, q)
  PROVE  OrderOf(t) = q
<1> DEFINE S == Spots(t)
           L(n) == Child(t, "left", n)
           R(n) == Child(t, "right", n)
           g(f) == [n \in S |-> IF n = Sentinel THEN <<>> ELSE f[L(n)] \o <<n>> \o f[R(n)]]
           walk == CHOOSE f : f = g(f)
<1>1. OrderOf(t) = walk[Root(t)]
  BY DEF OrderOf
<1>2. PICK pos, lo, hi : Laid(t, q, pos, lo, hi)
  BY DEF Ordered
<1>3. /\ \A n \in In(t) : /\ n \in S /\ n # Sentinel /\ L(n) \in S /\ R(n) \in S
                          /\ L(n) # Sentinel => L(n) \in In(t)
                          /\ R(n) # Sentinel => R(n) \in In(t)
      /\ \A n \in S : n # Sentinel => n \in In(t)
      /\ Sentinel \in S /\ Root(t) \in S
  <2>1. "left" \in Side /\ "right" \in Side /\ t \in Trees /\ Sound(t)
    BY DEF Side, Shape
  <2>2. \A n \in In(t) : n # Sentinel /\ L(n) \in S /\ R(n) \in S
    BY <2>1, LinkFacts
  <2>3. \A n \in S : n # Sentinel => n \in In(t)
    BY DEF Spots
  <2>4. Sentinel \in S /\ Root(t) \in S
    BY <2>1 DEF Sound, Spots
  <2>5. QED
    BY <2>2, <2>3, <2>4 DEF Spots
<1>4. /\ q \in Seq(In(t)) /\ Len(q) \in Nat
      /\ \A n \in In(t) : /\ pos[n] \in 1 .. Len(q) /\ q[pos[n]] = n
                          /\ lo[n] \in 1 .. pos[n] /\ hi[n] \in pos[n] .. Len(q)
                          /\ Beside(pos, lo, hi, n, "left", L(n))
                          /\ Beside(pos, lo, hi, n, "right", R(n))
      /\ Root(t) # Sentinel => lo[Root(t)] = 1 /\ hi[Root(t)] = Len(q)
      /\ \A i \in 1 .. Len(q) : q[i] \in In(t)
  BY <1>2 DEF Laid, Indexed, Side
<1> HIDE DEF S, L, R
<1> DEFINE w == [n \in S |-> IF n = Sentinel THEN <<>> ELSE SubSeq(q, lo[n], hi[n])]
<1>5. w[Sentinel] = <<>> /\ \A n \in In(t) : w[n] = SubSeq(q, lo[n], hi[n])
  BY <1>3
<1> HIDE DEF w
<1>6. ASSUME NEW n \in In(t)
      PROVE  /\ w[L(n)] = SubSeq(q, lo[n], pos[n] - 1)
             /\ w[R(n)] = SubSeq(q, pos[n] + 1, hi[n])
             /\ L(n) # Sentinel => hi[L(n)] - lo[L(n)] < hi[n] - lo[n]
             /\ R(n) # Sentinel => hi[R(n)] - lo[R(n)] < hi[n] - lo[n]
             /\ hi[n] - lo[n] \in Nat
  <2>1. /\ pos[n] \in 1 .. Len(q) /\ q[pos[n]] = n
        /\ lo[n] \in 1 .. pos[n] /\ hi[n] \in pos[n] .. Len(q)
        /\ Beside(pos, lo, hi, n, "left", L(n)) /\ Beside(pos, lo, hi, n, "right", R(n))
        /\ L(n) # Sentinel => w[L(n)] = SubSeq(q, lo[L(n)], hi[L(n)])
        /\ R(n) # Sentinel => w[R(n)] = SubSeq(q, lo[R(n)], hi[R(n)])
    BY <1>3, <1>4, <1>5
  <2>2. /\ L(n) = Sentinel => lo[n] = pos[n]
        /\ L(n) # Sentinel => lo[L(n)] = lo[n] /\ hi[L(n)] = pos[n] - 1
        /\ R(n) = Sentinel => hi[n] = pos[n]
        /\ R(n) # Sentinel => lo[R(n)] = pos[n] + 1 /\ hi[R(n)] = hi[n]
    BY <2>1 DEF Beside
  <2>3. SubSeq(q, pos[n], pos[n] - 1) = <<>> /\ SubSeq(q, pos[n] + 1, pos[n]) = <<>>
    <3>1. pos[n] \in Int /\ pos[n] - 1 \in Int /\ pos[n] + 1 \in Int /\ pos[n] - 1 < pos[n] /\ pos[n] < pos[n] + 1
      BY <2>1
    <3>2. QED
      BY <3>1, SubSeqEmpty
  <2>4. w[L(n)] = SubSeq(q, lo[n], pos[n] - 1)
    BY <1>5, <2>1, <2>2, <2>3
  <2>5. w[R(n)] = SubSeq(q, pos[n] + 1, hi[n])
    BY <1>5, <2>1, <2>2, <2>3
  <2>6. pos[n] \in Int /\ lo[n] \in Int /\ hi[n] \in Int /\ lo[n] <= pos[n] /\ pos[n] <= hi[n]
    BY <2>1
  <2>7. L(n) # Sentinel => hi[L(n)] - lo[L(n)] < hi[n] - lo[n]
    BY <2>2, <2>6
  <2>8. R(n) # Sentinel => hi[R(n)] - lo[R(n)] < hi[n] - lo[n]
    BY <2>2, <2>6
  <2>9. QED
    BY <2>4, <2>5, <2>6, <2>7, <2>8
<1>7. ASSUME NEW n \in In(t) PROVE w[n] = w[L(n)] \o <<n>> \o w[R(n)]
  <2>1. pos[n] \in 1 .. Len(q) /\ q[pos[n]] = n /\ lo[n] \in 1 .. pos[n] /\ hi[n] \in pos[n] .. Len(q)
    BY <1>4
  <2>2. SubSeq(q, lo[n], hi[n]) = SubSeq(q, lo[n], pos[n] - 1) \o <<q[pos[n]]>> \o SubSeq(q, pos[n] + 1, hi[n])
    BY <1>4, <2>1, SubSeqSplits
  <2>3. QED
    BY <1>5, <1>6, <2>1, <2>2
<1>8. w = g(w)
  <2>1. w = [n \in S |-> w[n]]
    BY DEF w
  <2>2. \A n \in S : w[n] = IF n = Sentinel THEN <<>> ELSE w[L(n)] \o <<n>> \o w[R(n)]
    BY <1>3, <1>5, <1>7
  <2>3. g(w) = [n \in S |-> w[n]]
    BY <2>2
  <2>4. QED
    BY <2>1, <2>3
<1>9. walk = g(walk)
  <2> HIDE DEF g
  <2>1. QED
    BY <1>8
<1> HIDE DEF walk
<1>10. walk[Sentinel] = <<>> /\ \A n \in In(t) : walk[n] = walk[L(n)] \o <<n>> \o walk[R(n)]
  <2>1. \A n \in S : walk[n] = IF n = Sentinel THEN <<>> ELSE walk[L(n)] \o <<n>> \o walk[R(n)]
    BY <1>9
  <2> HIDE <1>9
  <2>2. QED
    BY <1>3, <2>1
<1> DEFINE Bad == {k \in Nat : \E n \in In(t) : hi[n] - lo[n] = k /\ walk[n] # w[n]}
<1> HIDE <1>8, <1>9
<1>11. Bad = {}
  <2> SUFFICES ASSUME Bad # {} PROVE FALSE
    OBVIOUS
  <2>1. Bad \in SUBSET Nat
    OBVIOUS
  <2>2. PICK k \in Bad : \A j \in Bad : k <= j
    BY <2>1, LeastNatural
  <2>3. PICK n \in In(t) : hi[n] - lo[n] = k /\ walk[n] # w[n]
    OBVIOUS
  <2>4. ASSUME NEW c \in In(t), hi[c] - lo[c] < k PROVE walk[c] = w[c]
    <3>1. hi[c] - lo[c] \in Nat /\ hi[c] - lo[c] \notin Bad
      BY <1>6, <2>1, <2>2, <2>4
    <3>2. QED
      BY <3>1
  <2> HIDE DEF Bad
  <2>5. walk[L(n)] = w[L(n)]
    BY <1>3, <1>5, <1>6, <1>10, <2>3, <2>4
  <2>6. walk[R(n)] = w[R(n)]
    BY <1>3, <1>5, <1>6, <1>10, <2>3, <2>4
  <2>7. QED
    BY <1>7, <1>10, <2>3, <2>5, <2>6
<1>12. CASE Root(t) = Sentinel
  <2>1. In(t) = {}
    BY <1>12, Rooted
  <2>2. q = <<>>
    <3>1. ~ (1 \in 1 .. Len(q))
      BY <1>4, <2>1
    <3>2. Len(q) = 0
      BY <1>4, <3>1
    <3>3. QED
      BY <1>4, <3>2, EmptySeq
  <2>3. QED
    BY <1>1, <1>10, <1>12, <2>2
<1>13. CASE Root(t) # Sentinel
  <2>1. Root(t) \in In(t)
    BY <1>3, <1>13
  <2>2. walk[Root(t)] = w[Root(t)]
    BY <1>6, <1>11, <2>1
  <2>3. w[Root(t)] = SubSeq(q, 1, Len(q))
    BY <1>4, <1>5, <1>13, <2>1
  <2>4. SubSeq(q, 1, Len(q)) = q
    BY <1>4, SubSeqFull
  <2>5. QED
    BY <1>1, <2>2, <2>3, <2>4
<1>14. QED
  BY <1>12, <1>13

\* What comes in where its key asks for leaves the queue sorted,
LEMMA InsertSorted ==
  ASSUME NEW q \in Seq(Node), Sorted(q), NEW n \in Node, NEW i \in 1 .. Len(q) + 1,
         \A j \in 1 .. Len(q) : j < i <=> KeyOf[q[j]] <= KeyOf[n]
  PROVE  Sorted(InsertAt(q, i, n))
<1> DEFINE w == InsertAt(q, i, n)
<1>1. /\ w \in Seq(Node) /\ Len(w) = Len(q) + 1 /\ w[i] = n
      /\ \A j \in 1 .. Len(q) + 1 : j # i => w[j] = IF j < i THEN q[j] ELSE q[j - 1]
  BY InsertAtIs
<1>2. Len(q) \in Nat /\ KeyOf[n] \in Nat /\ \A j \in 1 .. Len(q) : q[j] \in Node /\ KeyOf[q[j]] \in Nat
  BY RBTreeAssumption
<1> HIDE DEF w
<1>3. ASSUME NEW a \in 1 .. Len(w), NEW b \in 1 .. Len(w), a < b PROVE KeyOf[w[a]] <= KeyOf[w[b]]
  <2>1. a \in 1 .. Len(q) + 1 /\ b \in 1 .. Len(q) + 1
    BY <1>1
  <2>2. CASE a = i
    <3>1. b - 1 \in 1 .. Len(q) /\ ~ (b - 1 < i) /\ w[b] = q[b - 1]
      BY <1>1, <1>2, <1>3, <2>1, <2>2
    <3>2. ~ (KeyOf[q[b - 1]] <= KeyOf[n])
      BY <3>1
    <3>3. QED
      BY <1>1, <1>2, <2>2, <3>1, <3>2
  <2>3. CASE b = i
    <3>1. a \in 1 .. Len(q) /\ a < i /\ w[a] = q[a]
      BY <1>1, <1>2, <1>3, <2>1, <2>3
    <3>2. KeyOf[q[a]] <= KeyOf[n]
      BY <3>1
    <3>3. QED
      BY <1>1, <2>3, <3>1, <3>2
  <2>4. CASE a # i /\ b # i
    <3> DEFINE c == IF a < i THEN a ELSE a - 1
               d == IF b < i THEN b ELSE b - 1
    <3>1. c \in 1 .. Len(q) /\ d \in 1 .. Len(q) /\ c < d
      BY <1>2, <1>3, <2>1, <2>4
    <3>2. w[a] = q[c] /\ w[b] = q[d]
      BY <1>1, <2>1, <2>4
    <3> HIDE DEF c, d
    <3>3. QED
      BY <3>1, <3>2 DEF Sorted
  <2>5. QED
    BY <2>2, <2>3, <2>4
<1>4. QED
  BY <1>3 DEF Sorted, w

\* and so does what goes out.
LEMMA RemoveSorted ==
  ASSUME NEW q \in Seq(Node), Sorted(q), NEW i \in 1 .. Len(q)
  PROVE  Sorted(RemoveAt(q, i))
<1> DEFINE w == RemoveAt(q, i)
<1>1. Len(w) = Len(q) - 1 /\ \A j \in 1 .. Len(q) - 1 : w[j] = IF j < i THEN q[j] ELSE q[j + 1]
  BY RemoveAtIs
<1>2. Len(q) \in Nat
  OBVIOUS
<1> HIDE DEF w
<1>3. ASSUME NEW a \in 1 .. Len(w), NEW b \in 1 .. Len(w), a < b PROVE KeyOf[w[a]] <= KeyOf[w[b]]
  <2> DEFINE c == IF a < i THEN a ELSE a + 1
             d == IF b < i THEN b ELSE b + 1
  <2>1. a \in 1 .. Len(q) - 1 /\ b \in 1 .. Len(q) - 1
    BY <1>1
  <2>2. c \in 1 .. Len(q) /\ d \in 1 .. Len(q) /\ c < d
    BY <1>2, <1>3, <2>1
  <2>3. w[a] = q[c] /\ w[b] = q[d]
    BY <1>1, <2>1
  <2> HIDE DEF c, d
  <2>4. QED
    BY <2>2, <2>3 DEF Sorted
<1>4. QED
  BY <1>3 DEF Sorted, w

-----------------------------------------------------------------------------
(* The tree is a queue.                                                    *)

\* Some queue, sorted by the keys, is the order of the nodes.
OInv == IInv /\ \E q : Ordered(tree, q) /\ Sorted(q)

\* That queue is what the walk down the child links reads,
LEMMA InOrderIs ==
  ASSUME IInv, NEW q, Ordered(tree, q)
  PROVE  InOrder = q
<1>1. OrderOf(tree) = q
  BY OrderIs DEF IInv
<1>2. Linked = Spots(tree)
  BY DEF Linked, InTree, Spots, In
<1>3. QED
  BY <1>1, <1>2 DEF InOrder, OrderOf

\* before a step and after it.
LEMMA NextInOrder ==
  ASSUME IInv', NEW q, Ordered(tree', q)
  PROVE  InOrder' = q
<1>1. OrderOf(tree') = q
  BY OrderIs DEF IInv
<1>2. Linked' = Spots(tree')
  BY DEF Linked, InTree, Spots, In
<1>3. QED
  BY <1>1, <1>2 DEF InOrder, OrderOf

\* The tree of js_rbtree_init is the empty queue.
LEMMA InitOrder == Init => OInv /\ InOrder = <<>>
<1> SUFFICES ASSUME Init PROVE OInv /\ InOrder = <<>>
  OBVIOUS
<1>1. IInv
  BY InitInv
<1>2. In(tree) = {} /\ Root(tree) = Sentinel
  <2>1. \A n \in All : tree.parent[n] = Null
    BY DEF Init
  <2>2. tree.child["left"][Sentinel] = Sentinel
    BY Distinct DEF Init, Side
  <2>3. QED
    BY <2>1, <2>2, Distinct DEF In, Root
<1> DEFINE f == [n \in Node |-> 1]
<1>3. Len(<<>>) = 0 /\ <<>> \in Seq(In(tree))
  BY EmptySeq
<1>4. Laid(tree, <<>>, f, f, f)
  BY <1>2, <1>3 DEF Laid, Indexed
<1>5. Ordered(tree, <<>>) /\ Sorted(<<>>)
  BY <1>3, <1>4 DEF Ordered, Sorted
<1>6. QED
  BY <1>1, <1>5, InOrderIs DEF OInv

\* Each step is one of the queue's or changes nothing in it.
LEMMA StepOrder == OInv /\ [Next]_vars => OInv' /\ [Queue!Next]_InOrder
<1> SUFFICES ASSUME OInv, [Next]_vars PROVE OInv' /\ [Queue!Next]_InOrder
  OBVIOUS
<1>1. IInv /\ IInv'
  BY StepInv DEF OInv
<1>2. PICK q : Ordered(tree, q) /\ Sorted(q)
  BY DEF OInv
<1>3. InOrder = q
  BY <1>1, <1>2, InOrderIs
<1>4. /\ q \in Seq(Node) /\ Range(q) \subseteq In(tree)
  <2>1. q \in Seq(In(tree)) /\ In(tree) \subseteq Node
    BY <1>2 DEF Ordered, Laid, Indexed, In
  <2>2. QED
    BY <2>1 DEF Range
<1>5. ASSUME NEW w, Ordered(tree', w), Sorted(w) PROVE OInv' /\ InOrder' = w
  BY <1>1, <1>5, NextInOrder DEF OInv
<1>6. ASSUME NEW n \in Node, Insert(n) PROVE OInv' /\ Queue!Next
  <2>1. PICK i \in 1 .. Len(q) + 1 :
          /\ \A j \in 1 .. Len(q) : j < i <=> KeyOf[q[j]] <= KeyOf[n]
          /\ Ordered(tree', InsertAt(q, i, n))
    BY <1>1, <1>2, <1>6, InsertGoes
  <2>2. Sorted(InsertAt(q, i, n))
    BY <1>2, <1>4, <2>1, InsertSorted
  <2>3. OInv' /\ InOrder' = InsertAt(q, i, n)
    BY <1>5, <2>1, <2>2
  <2>4. n \notin Range(InOrder)
    BY <1>3, <1>4, <1>6 DEF Insert, InTree, In
  <2>5. Queue!Insert(n)
    BY <1>3, <2>1, <2>3, <2>4 DEF Queue!Insert, Queue!InsertAt, Queue!Range, InsertAt, Range
  <2>6. QED
    BY <2>3, <2>5 DEF Queue!Next
<1>7. ASSUME NEW n \in Node, Delete(n) PROVE OInv' /\ Queue!Next
  <2>1. PICK i \in 1 .. Len(q) : q[i] = n /\ Ordered(tree', RemoveAt(q, i))
    BY <1>1, <1>2, <1>7, DeleteGoes
  <2>2. Sorted(RemoveAt(q, i))
    BY <1>2, <1>4, RemoveSorted
  <2>3. OInv' /\ InOrder' = RemoveAt(q, i)
    BY <1>5, <2>1, <2>2
  <2>4. Queue!Delete(n)
    BY <1>3, <2>1, <2>3 DEF Queue!Delete, Queue!RemoveAt, RemoveAt
  <2>5. QED
    BY <2>3, <2>4 DEF Queue!Next
<1>8. CASE Fixup
  <2>1. Keeps(tree, tree')
    BY <1>1, <1>8, InsertFixupKeeps, DeleteFixupKeeps DEF Fixup
  <2>2. OInv' /\ InOrder' = q
    BY <1>2, <1>5, <2>1 DEF Keeps
  <2>3. QED
    BY <1>3, <2>2
<1>9. CASE UNCHANGED vars
  <2>1. tree' = tree
    BY <1>9 DEF vars
  <2>2. OInv' /\ InOrder' = q
    BY <1>2, <1>5, <2>1
  <2>3. QED
    BY <1>3, <2>2
<1>10. QED
  BY <1>6, <1>7, <1>8, <1>9 DEF Next

-----------------------------------------------------------------------------
(* The walk by successors meets the nodes in the same order.               *)

\* js_rbtree_branch_min of the whole tree finds the first node.
LEMMA MinOfAll ==
  ASSUME Shape(tree), NEW q, Ordered(tree, q)
  PROVE  BranchMin(tree, Sentinel) = IF Root(tree) = Sentinel THEN Sentinel ELSE q[1]
<1> DEFINE S == Linked
           L(n) == Child(tree, "left", n)
           g(f) == [n \in S |-> IF L(n) = Sentinel THEN n ELSE f[L(n)]]
           min == CHOOSE f : f = g(f)
<1>1. \A n : BranchMin(tree, n) = min[n]
  BY DEF BranchMin
<1>2. PICK pos, lo, hi : Laid(tree, q, pos, lo, hi)
  BY DEF Ordered
<1>3. /\ S = In(tree) \union {Sentinel} /\ Sentinel \notin In(tree) /\ Root(tree) = L(Sentinel)
      /\ \A n \in S : L(n) \in S
  <2>1. S = Spots(tree) /\ "left" \in Side /\ Sound(tree) /\ tree \in Trees
    BY DEF Linked, InTree, In, Spots, Side, Shape
  <2>2. \A n \in In(tree) : L(n) \in S
    BY <2>1, LinkFacts
  <2>3. Root(tree) = L(Sentinel) /\ Root(tree) \in S
    BY <2>1 DEF Root, Child, Sound
  <2>4. QED
    BY <2>1, <2>2, <2>3, Distinct DEF Spots, In
<1>4. /\ \A n \in In(tree) : q[pos[n]] = n /\ Beside(pos, lo, hi, n, "left", L(n))
      /\ Root(tree) # Sentinel => lo[Root(tree)] = 1
  BY <1>2 DEF Laid, Indexed, Side
<1> HIDE DEF S, L
<1> DEFINE w == [n \in S |-> IF n # Sentinel THEN q[lo[n]] ELSE IF Root(tree) = Sentinel THEN Sentinel ELSE q[1]]
<1>5. w[Sentinel] = (IF Root(tree) = Sentinel THEN Sentinel ELSE q[1]) /\ \A n \in In(tree) : w[n] = q[lo[n]]
  BY <1>3
<1>6. w = [n \in S |-> w[n]]
  OBVIOUS
<1> HIDE DEF w
<1>7. ASSUME NEW n \in S PROVE w[n] = IF L(n) = Sentinel THEN n ELSE w[L(n)]
  <2>1. CASE n = Sentinel
    BY <1>3, <1>4, <1>5, <2>1
  <2>2. CASE n # Sentinel
    <3>1. n \in In(tree) /\ w[n] = q[lo[n]] /\ q[pos[n]] = n /\ Beside(pos, lo, hi, n, "left", L(n))
      BY <1>3, <1>4, <1>5, <2>2
    <3>2. L(n) # Sentinel => w[L(n)] = q[lo[L(n)]]
      BY <1>3, <1>5
    <3>3. QED
      BY <3>1, <3>2 DEF Beside
  <2>3. QED
    BY <2>1, <2>2
<1>8. w = g(w)
  <2>1. g(w) = [n \in S |-> w[n]]
    BY <1>7
  <2>2. QED
    BY <1>6, <2>1
<1>9. min = g(min)
  <2> HIDE DEF g
  <2>1. QED
    BY <1>8
<1> HIDE DEF min
<1>10. min[Sentinel] = IF Root(tree) = Sentinel THEN Sentinel ELSE min[Root(tree)]
  <2>1. Sentinel \in S
    BY <1>3
  <2>2. min[Sentinel] = IF L(Sentinel) = Sentinel THEN Sentinel ELSE min[L(Sentinel)]
    BY <1>9, <2>1
  <2> HIDE <1>9
  <2>3. QED
    BY <1>3, <2>2
<1>11. CASE Root(tree) = Sentinel
  BY <1>1, <1>10, <1>11
<1>12. CASE Root(tree) # Sentinel
  <2>1. Root(tree) \in In(tree)
    BY <1>12, Rooted
  <2>2. BranchMin(tree, Root(tree)) \in In(tree) /\ pos[BranchMin(tree, Root(tree))] = 1
    BY <1>2, <1>4, <1>12, <2>1, MinFirst
  <2>3. QED
    BY <1>1, <1>4, <1>10, <1>12, <2>2
<1>13. QED
  BY <1>11, <1>12

\* js_rbtree_node_successor of a node finds the next one, or the sentinel behind the last.
LEMMA SuccessorIs ==
  ASSUME Shape(tree), NEW q, NEW pos, NEW lo, NEW hi, Laid(tree, q, pos, lo, hi), NEW n \in In(tree)
  PROVE  Successor(tree, n) = IF pos[n] = Len(q) THEN Sentinel ELSE q[pos[n] + 1]
<1> DEFINE S == InTree
           P(m) == tree.parent[m]
           onLeft(m) == SideOf(tree, m) = "left"
           g(f) == [m \in S |-> IF onLeft(m) THEN P(m) ELSE f[P(m)]]
           up == CHOOSE f : f = g(f)
           c == Child(tree, "right", n)
           after(i) == IF i = Len(q) THEN Sentinel ELSE q[i + 1]
<1>1. Successor(tree, n) = IF c # Sentinel THEN BranchMin(tree, c) ELSE up[n]
  BY DEF Successor
<1>2. S = In(tree) /\ tree \in Trees /\ Sound(tree) /\ "left" \in Side /\ "right" \in Side
  BY DEF InTree, In, Shape, Side
<1>3. /\ Len(q) \in Nat
      /\ \A m \in In(tree) : /\ pos[m] \in 1 .. Len(q) /\ q[pos[m]] = m
                             /\ lo[m] \in 1 .. pos[m] /\ hi[m] \in pos[m] .. Len(q)
                             /\ \A s \in Side : Beside(pos, lo, hi, m, s, Child(tree, s, m))
      /\ Root(tree) # Sentinel => hi[Root(tree)] = Len(q)
  BY DEF Laid, Indexed
<1>4. ASSUME NEW m \in In(tree)
      PROVE  /\ onLeft(m) => P(m) = after(hi[m])
             /\ ~onLeft(m) => P(m) \in In(tree) /\ hi[P(m)] = hi[m] /\ lo[P(m)] < lo[m]
             /\ lo[m] \in Nat
  <2>1. /\ P(m) \in Spots(tree) /\ SideOf(tree, m) \in Side /\ Child(tree, SideOf(tree, m), P(m)) = m /\ m # Sentinel
    BY <1>2, LinkFacts
  <2>2. CASE P(m) = Sentinel
    <3>1. m = Root(tree) /\ onLeft(m)
      BY <2>2, Rooted
    <3>2. hi[m] = Len(q)
      BY <1>3, <2>1, <3>1
    <3>3. QED
      BY <1>3, <2>2, <3>1, <3>2
  <2>3. CASE P(m) # Sentinel
    <3> DEFINE p == P(m)
               s == SideOf(tree, m)
    <3>1. p \in In(tree)
      BY <2>1, <2>3 DEF Spots
    <3>2. /\ pos[p] \in 1 .. Len(q) /\ q[pos[p]] = p /\ lo[p] \in 1 .. pos[p] /\ hi[p] \in pos[p] .. Len(q)
          /\ Beside(pos, lo, hi, p, s, m) /\ s \in Side
          /\ lo[m] \in 1 .. pos[m] /\ pos[m] \in 1 .. Len(q)
      BY <1>3, <2>1, <3>1
    <3> HIDE DEF p, s
    <3>3. /\ s = "left" => hi[m] = pos[p] - 1
          /\ s # "left" => lo[m] = pos[p] + 1 /\ hi[m] = hi[p]
      BY <2>1, <3>2 DEF Beside
    <3>4. s = "left" => p = after(hi[m])
      <4>1. s = "left" => hi[m] # Len(q) /\ hi[m] + 1 = pos[p]
        BY <1>3, <3>2, <3>3
      <4>2. QED
        BY <3>2, <4>1
    <3>5. s # "left" => lo[p] < lo[m]
      BY <3>2, <3>3
    <3>6. lo[m] \in Nat
      BY <3>2
    <3>7. QED
      BY <3>1, <3>3, <3>4, <3>5, <3>6 DEF p, s
  <2>4. QED
    BY <2>2, <2>3
<1>5. CASE c # Sentinel
  <2>1. c \in In(tree)
    BY <1>2, <1>5, LinkFacts DEF Spots
  <2>2. BranchMin(tree, c) \in In(tree) /\ pos[BranchMin(tree, c)] = lo[c]
    BY <2>1, MinFirst
  <2>3. lo[c] = pos[n] + 1
    BY <1>2, <1>3, <1>5 DEF Beside
  <2> DEFINE b == BranchMin(tree, c)
  <2>4. pos[b] \in 1 .. Len(q) /\ q[pos[b]] = b /\ pos[b] = pos[n] + 1 /\ pos[n] \in 1 .. Len(q)
    BY <1>3, <2>2, <2>3
  <2>5. Successor(tree, n) = b
    BY <1>1, <1>5
  <2> HIDE DEF b
  <2>6. pos[n] # Len(q)
    BY <1>3, <2>4
  <2>7. QED
    BY <2>4, <2>5, <2>6
<1>6. CASE c = Sentinel
  <2>1. hi[n] = pos[n]
    BY <1>2, <1>3, <1>6 DEF Beside
  <2> HIDE DEF S, P, onLeft, after
  <2> DEFINE w == [m \in S |-> after(hi[m])]
  <2>2. \A m \in S : w[m] = after(hi[m])
    OBVIOUS
  <2>3. w = [m \in S |-> w[m]]
    OBVIOUS
  <2> HIDE DEF w
  <2>4. \A m \in S : w[m] = IF onLeft(m) THEN P(m) ELSE w[P(m)]
    BY <1>2, <1>4, <2>2
  <2>5. w = g(w)
    <3>1. g(w) = [m \in S |-> w[m]]
      BY <2>4
    <3>2. QED
      BY <2>3, <3>1
  <2>6. up = g(up)
    <3> HIDE DEF g
    <3>1. QED
      BY <2>5
  <2> HIDE DEF up
  <2>7. \A m \in S : up[m] = IF onLeft(m) THEN P(m) ELSE up[P(m)]
    BY <2>6
  <2> HIDE <2>3, <2>5, <2>6
  <2> DEFINE Bad == {k \in Nat : \E m \in S : lo[m] = k /\ up[m] # w[m]}
  <2>8. Bad = {}
    <3> SUFFICES ASSUME Bad # {} PROVE FALSE
      OBVIOUS
    <3>1. Bad \in SUBSET Nat
      OBVIOUS
    <3>2. PICK k \in Bad : \A j \in Bad : k <= j
      BY <3>1, LeastNatural
    <3>3. PICK m \in S : lo[m] = k /\ up[m] # w[m]
      OBVIOUS
    <3>4. ~onLeft(m) /\ P(m) \in S /\ lo[P(m)] < k /\ lo[P(m)] \in Nat
      BY <1>2, <1>4, <2>4, <2>7, <3>3
    <3>5. lo[P(m)] \notin Bad
      BY <3>1, <3>2, <3>4
    <3>6. up[P(m)] = w[P(m)]
      BY <3>4, <3>5
    <3>7. QED
      BY <2>4, <2>7, <3>3, <3>4, <3>6
  <2>9. up[n] = w[n]
    BY <1>2, <1>4, <2>8
  <2>10. QED
    BY <1>1, <1>2, <1>6, <2>1, <2>2, <2>9 DEF after
<1>7. QED
  BY <1>5, <1>6

\* js_rbtree_min and the successors visit the nodes in that order and end at the sentinel.
LEMMA InvSuccessors == OInv => SuccessorInOrder
<1> SUFFICES ASSUME OInv PROVE SuccessorInOrder
  OBVIOUS
<1>1. Shape(tree) /\ IInv
  BY DEF OInv, IInv
<1>2. PICK q : Ordered(tree, q)
  BY DEF OInv
<1>3. InOrder = q
  BY <1>1, <1>2, InOrderIs
<1>4. PICK pos, lo, hi : Laid(tree, q, pos, lo, hi)
  BY <1>2 DEF Ordered
<1>5. /\ q \in Seq(In(tree)) /\ Len(q) \in Nat
      /\ \A i \in 1 .. Len(q) : q[i] \in In(tree) /\ pos[q[i]] = i
      /\ \A n \in In(tree) : pos[n] \in 1 .. Len(q)
  BY <1>4 DEF Laid, Indexed
<1> DEFINE order == q \o <<Sentinel>>
<1>6. /\ Len(order) = Len(q) + 1
      /\ \A i \in 1 .. Len(q) : order[i] = q[i]
      /\ order[Len(q) + 1] = Sentinel
  <2> DEFINE S == In(tree) \union {Sentinel}
             e == <<Sentinel>>
  <2>1. q \in Seq(S) /\ e \in Seq(S) /\ Len(e) = 1 /\ e[1] = Sentinel
    BY <1>5
  <2> HIDE DEF e, S
  <2>2. /\ Len(q \o e) = Len(q) + Len(e)
        /\ \A i \in 1 .. Len(q) + Len(e) : (q \o e)[i] = IF i <= Len(q) THEN q[i] ELSE e[i - Len(q)]
    BY <2>1, ConcatProperties
  <2>3. Len(q) + 1 \in 1 .. Len(q) + Len(e) /\ ~ (Len(q) + 1 <= Len(q)) /\ (Len(q) + 1) - Len(q) = 1
    BY <1>5, <2>1
  <2>4. (q \o e)[Len(q) + 1] = Sentinel
    BY <2>1, <2>2, <2>3
  <2>5. \A i \in 1 .. Len(q) : (q \o e)[i] = q[i]
    BY <1>5, <2>1, <2>2
  <2>6. QED
    BY <2>1, <2>2, <2>4, <2>5 DEF e
<1> HIDE DEF order
<1>7. BranchMin(tree, Sentinel) = order[1]
  <2>1. BranchMin(tree, Sentinel) = IF Root(tree) = Sentinel THEN Sentinel ELSE q[1]
    BY <1>1, <1>2, MinOfAll
  <2>2. CASE Root(tree) = Sentinel
    <3>1. In(tree) = {}
      BY <1>1, <2>2, Rooted
    <3>2. ~ (1 \in 1 .. Len(q))
      BY <1>5, <3>1
    <3>3. Len(q) = 0
      BY <1>5, <3>2
    <3>4. QED
      BY <1>6, <2>1, <2>2, <3>3
  <2>3. CASE Root(tree) # Sentinel
    <3>1. Root(tree) \in In(tree)
      BY <1>1, <2>3, Rooted
    <3>2. 1 \in 1 .. Len(q)
      BY <1>5, <3>1
    <3>3. QED
      BY <1>6, <2>1, <2>3, <3>2
  <2>4. QED
    BY <2>2, <2>3
<1>8. ASSUME NEW i \in 1 .. Len(order) - 1 PROVE Successor(tree, order[i]) = order[i + 1]
  <2>1. i \in 1 .. Len(q) /\ order[i] = q[i] /\ q[i] \in In(tree) /\ pos[q[i]] = i
    BY <1>5, <1>6
  <2>2. Successor(tree, q[i]) = IF pos[q[i]] = Len(q) THEN Sentinel ELSE q[pos[q[i]] + 1]
    BY <1>1, <1>4, <2>1, SuccessorIs
  <2>3. i # Len(q) => i + 1 \in 1 .. Len(q)
    BY <1>5, <2>1
  <2>4. QED
    BY <1>6, <2>1, <2>2, <2>3
<1>9. QED
  BY <1>3, <1>7, <1>8 DEF SuccessorInOrder, order

-----------------------------------------------------------------------------
(* How deep the fix-up loops stand.                                        *)

\* A depth counts one level for each parent: every way up ends, as the parts of the queue below
\* the nodes on it grow.
LEMMA DepthIs ==
  ASSUME NEW t, Shape(t), NEW q, Ordered(t, q), NEW n \in All
  PROVE  Depth(t, n) \in Nat /\ Depth(t, n) = IF t.parent[n] \in Node THEN 1 + Depth(t, t.parent[n]) ELSE 0
<1> DEFINE P(m) == t.parent[m]
           g(f) == [m \in All |-> IF P(m) \in Node THEN 1 + f[P(m)] ELSE 0]
           depth == CHOOSE f : f = g(f)
           F == [All -> Nat]
<1>1. \A m : Depth(t, m) = depth[m]
  BY DEF Depth
<1>2. PICK pos, lo, hi : Laid(t, q, pos, lo, hi)
  BY DEF Ordered
<1> DEFINE mu == [m \in All |-> IF m = Sentinel THEN Len(q) + 1
                                ELSE IF m \in In(t) THEN Len(q) - (hi[m] - lo[m]) ELSE 0]
           N == Len(q) + 2
<1>3. /\ t \in Trees /\ Sound(t) /\ Len(q) \in Nat
      /\ \A m \in In(t) : /\ pos[m] \in 1 .. Len(q) /\ lo[m] \in 1 .. pos[m] /\ hi[m] \in pos[m] .. Len(q)
                          /\ \A s \in Side : Beside(pos, lo, hi, m, s, Child(t, s, m))
  BY <1>2 DEF Shape, Laid, Indexed
<1>4. /\ mu[Sentinel] = Len(q) + 1
      /\ \A m \in In(t) : mu[m] = Len(q) - (hi[m] - lo[m])
      /\ \A m \in Node : m \notin In(t) => mu[m] = 0 /\ P(m) = Null
      /\ Sentinel \notin Node /\ Node \subseteq All /\ Null \notin Node /\ In(t) \subseteq Node
  BY Distinct DEF In
<1> HIDE DEF mu
<1>5. ASSUME NEW m \in Node PROVE mu[m] \in 0 .. Len(q)
  <2>1. CASE m \in In(t)
    <3>1. pos[m] \in 1 .. Len(q) /\ lo[m] \in 1 .. pos[m] /\ hi[m] \in pos[m] .. Len(q)
      BY <1>3, <2>1
    <3>2. mu[m] = Len(q) - (hi[m] - lo[m])
      BY <1>4, <2>1
    <3>3. QED
      BY <1>3, <3>1, <3>2
  <2>2. CASE m \notin In(t)
    BY <1>3, <1>4, <2>2
  <2>3. QED
    BY <2>1, <2>2
<1>6. ASSUME NEW m \in All PROVE mu[m] \in 0 .. Len(q) + 1
  BY <1>3, <1>4, <1>5, <1>6 DEF All
<1>7. ASSUME NEW m \in All, P(m) \in Node PROVE mu[P(m)] < mu[m]
  <2>1. CASE m = Sentinel
    BY <1>3, <1>4, <1>5, <1>7, <2>1
  <2>2. CASE m # Sentinel
    <3>1. m \in In(t)
      BY <1>4, <1>7, <2>2 DEF All
    <3> DEFINE p == P(m)
               s == SideOf(t, m)
    <3>2. p \in In(t) /\ s \in Side /\ Child(t, s, p) = m
      BY <1>3, <1>4, <1>7, <3>1, LinkFacts DEF Spots
    <3>3. /\ pos[p] \in 1 .. Len(q) /\ lo[p] \in 1 .. pos[p] /\ hi[p] \in pos[p] .. Len(q)
          /\ pos[m] \in 1 .. Len(q) /\ lo[m] \in 1 .. pos[m] /\ hi[m] \in pos[m] .. Len(q)
          /\ Beside(pos, lo, hi, p, s, m)
          /\ mu[p] = Len(q) - (hi[p] - lo[p]) /\ mu[m] = Len(q) - (hi[m] - lo[m])
      BY <1>3, <1>4, <3>1, <3>2
    <3> HIDE DEF p, s
    <3>4. \/ lo[m] = lo[p] /\ hi[m] = pos[p] - 1
          \/ lo[m] = pos[p] + 1 /\ hi[m] = hi[p]
      BY <2>2, <3>3 DEF Beside
    <3>5. mu[p] < mu[m]
      BY <1>3, <3>3, <3>4
    <3>6. QED
      BY <3>5 DEF p
  <2>3. QED
    BY <2>1, <2>2
<1> DEFINE step == [i \in 1 .. N |-> [f \in F |-> g(f)]]
           zero == [m \in All |-> 0]
<1>8. zero \in F
  OBVIOUS
<1>9. \A i \in 1 .. N, f \in F : step[i][f] = g(f) /\ g(f) \in F
  <2>1. \A f \in F : g(f) \in F
    BY <1>4
  <2> HIDE DEF g, F
  <2>2. QED
    BY <2>1
<1>10. N \in Nat
  BY <1>3
<1> HIDE DEF step, zero, N
<1>11. PICK h : Steps(N, zero, step, h)
  BY <1>10, StepsExist
<1>12. \A i \in 0 .. N : h[i] \in F
  <2> HIDE DEF F, g
  <2>1. QED
    BY <1>8, <1>9, <1>10, <1>11, StepsStay
<1>13. \A i \in 1 .. N : h[i] = g(h[i - 1])
  <2>1. \A i \in 1 .. N : h[i] = step[i][h[i - 1]]
    BY <1>11, Zenon DEF Steps
  <2>2. \A i \in 1 .. N : i - 1 \in 0 .. N
    BY <1>10
  <2> HIDE DEF F, g
  <2>3. QED
    BY <1>9, <1>12, <2>1, <2>2
<1>14. \A i \in 1 .. N, m \in All : h[i][m] = IF P(m) \in Node THEN 1 + h[i - 1][P(m)] ELSE 0
  BY <1>13
<1> DEFINE Good(i) == \A m \in All : mu[m] < i => h[i][m] = IF P(m) \in Node THEN 1 + h[i][P(m)] ELSE 0
           G == {i \in 0 .. N : Good(i)}
<1> HIDE DEF g
<1>15. 0 \in G
  <2>1. \A m \in All : ~ (mu[m] < 0)
    BY <1>3, <1>6
  <2>2. QED
    BY <1>10, <2>1
<1>16. ASSUME NEW i \in 1 .. N, i - 1 \in G PROVE i \in G
  <2> SUFFICES ASSUME NEW m \in All, mu[m] < i, P(m) \in Node PROVE h[i][m] = 1 + h[i][P(m)]
    BY <1>14
  <2>1. i - 1 \in 1 .. N \/ i = 1
    BY <1>10
  <2>2. mu[P(m)] < i - 1 /\ P(m) \in All
    BY <1>3, <1>4, <1>5, <1>6, <1>7
  <2>3. h[i - 1][P(m)] = IF P(P(m)) \in Node THEN 1 + h[i - 1][P(P(m))] ELSE 0
    BY <1>16, <2>2
  <2>4. h[i][P(m)] = IF P(P(m)) \in Node THEN 1 + h[i - 1][P(P(m))] ELSE 0
    BY <1>14, <2>2
  <2>5. h[i][m] = 1 + h[i - 1][P(m)]
    BY <1>14
  <2>6. QED
    BY <2>3, <2>4, <2>5
<1>17. N \in G
  <2> HIDE DEF G
  <2>1. \A i \in 0 .. N : i \in G
    BY <1>10, <1>15, <1>16, UpTo
  <2>2. QED
    BY <1>10, <2>1
<1> DEFINE d == h[N]
<1>18. \A m \in All : d[m] = IF P(m) \in Node THEN 1 + d[P(m)] ELSE 0
  <2>1. \A m \in All : mu[m] < N
    BY <1>3, <1>6 DEF N
  <2>2. QED
    BY <1>17, <2>1
<1>19. d \in F
  BY <1>10, <1>12
<1> HIDE DEF d
<1>20. d = g(d)
  <2>1. g(d) = [m \in All |-> d[m]]
    BY <1>18 DEF g
  <2>2. d = [m \in All |-> d[m]]
    BY <1>19
  <2>3. QED
    BY <2>1, <2>2
<1>21. depth = g(depth)
  BY <1>20
<1> HIDE DEF depth
<1>22. \A m \in All : depth[m] = IF P(m) \in Node THEN 1 + depth[P(m)] ELSE 0
  BY <1>21 DEF g
<1> DEFINE K == {i \in 0 .. N : \A m \in All : mu[m] < i => depth[m] \in Nat}
<1>23. 0 \in K
  BY <1>3, <1>6, <1>10
<1>24. ASSUME NEW i \in 1 .. N, i - 1 \in K PROVE i \in K
  <2> SUFFICES ASSUME NEW m \in All, mu[m] < i PROVE depth[m] \in Nat
    OBVIOUS
  <2>1. CASE P(m) \in Node
    <3>1. mu[P(m)] < i - 1 /\ P(m) \in All
      BY <1>3, <1>4, <1>5, <1>6, <1>7, <2>1
    <3>2. depth[P(m)] \in Nat
      BY <1>24, <3>1
    <3>3. QED
      BY <1>22, <2>1, <3>2
  <2>2. CASE P(m) \notin Node
    BY <1>22, <2>2
  <2>3. QED
    BY <2>1, <2>2
<1>25. N \in K
  <2> HIDE DEF K
  <2>1. \A i \in 0 .. N : i \in K
    BY <1>10, <1>23, <1>24, UpTo
  <2>2. QED
    BY <1>10, <2>1
<1>26. depth[n] \in Nat
  <2>1. mu[n] < N
    BY <1>3, <1>6 DEF N
  <2>2. QED
    BY <1>25, <2>1
<1>27. QED
  BY <1>1, <1>22, <1>26

\* A round that stays in its loop moves its node up, or leaves it at a red one.
LEMMA StepClimbs ==
  OInv /\ [Next]_vars =>
    [pc # "idle" /\ pc' = pc =>
       \/ Depth(tree', at') < Depth(tree, at)
       \/ pc = "delete" /\ ~Black(tree', at')]_vars
<1> SUFFICES ASSUME OInv, Next, pc # "idle", pc' = pc
             PROVE  \/ Depth(tree', at') < Depth(tree, at)
                    \/ pc = "delete" /\ ~Black(tree', at')
  OBVIOUS
<1>1. IInv /\ Shape(tree)
  BY DEF OInv, IInv
<1>2. PICK q : Ordered(tree, q)
  BY DEF OInv
<1>3. \A n \in All : Depth(tree, n) \in Nat
                     /\ Depth(tree, n) = IF tree.parent[n] \in Node THEN 1 + Depth(tree, tree.parent[n]) ELSE 0
  BY <1>1, <1>2, DepthIs
<1>4. \A t : t.parent = tree.parent => \A n : Depth(t, n) = Depth(tree, n)
  BY DEF Depth
<1>5. In(tree) \subseteq Node /\ Node \subseteq All
  BY Distinct DEF In
<1>6. InsertRecolour \/ DeleteUp
  BY ZenonT(30) DEF Next, Fixup, Insert, Delete, InsertDone, InsertEnd, InsertRotate, DeleteRotate, DeleteDone, Return
<1>7. CASE InsertRecolour
  <2> DEFINE p == tree.parent[at]
             g == tree.parent[p]
             k == Child(tree, Other(SideOf(tree, p)), g)
             u == Paint(Paint(Paint(tree, k, "black"), p, "black"), g, "red")
  <2>1. Inserting(tree, at) /\ ~Black(tree, p) /\ tree' = u /\ at' = g
    BY <1>1, <1>7 DEF IInv, InsertRecolour, Recoloured, Uncle, Grandparent, Parent
  <2>2. at \in In(tree) /\ p \in In(tree) /\ g \in In(tree)
    BY <1>1, <2>1, Family
  <2>3. u.parent = tree.parent
    BY DEF Paint
  <2> HIDE DEF u
  <2>4. Depth(tree', g) = Depth(tree, g)
    BY <1>4, <2>1, <2>3
  <2>5. at \in All /\ p \in All /\ g \in All /\ p \in Node /\ g \in Node
    BY <1>5, <2>2
  <2>6. Depth(tree, at) = 1 + Depth(tree, p) /\ Depth(tree, p) = 1 + Depth(tree, g) /\ Depth(tree, g) \in Nat
    BY <1>3, <2>5
  <2>7. Depth(tree', at') < Depth(tree, at)
    BY <2>1, <2>4, <2>6
  <2>8. QED
    BY <2>7
<1>8. CASE DeleteUp
  <2> DEFINE s == SideOf(tree, at)
             b == Child(tree, Other(s), Parent)
             y == Paint(Paint(tree, b, "black"), Parent, "red")
  <2>1. Short /\ tree' = Paint(Lifted, Sibling, "red") /\ at' = Parent
    BY <1>8 DEF DeleteUp, Upwards
  <2>2. Lacking(tree, at, Parent, s, b)
    BY <1>1, <2>1, SiblingIs DEF IInv, Short, Parent
  <2>3. Lifted = IF Black(tree, b) THEN tree ELSE Rotate(y, Parent, s)
    BY DEF Lifted
  <2>4. pc = "delete" /\ at \in All
    BY <1>1, <2>1, Distinct DEF IInv, Short, Spots, In
  <2>5. CASE Black(tree, b)
    <3>1. tree' = Paint(tree, Sibling, "red")
      BY <2>1, <2>3, <2>5
    <3>2. tree'.parent = tree.parent
      BY <3>1 DEF Paint
    <3>3. Depth(tree', Parent) = Depth(tree, Parent)
      BY <1>4, <3>2
    <3>4. Parent \in Node /\ Parent \in All
      BY <1>5, <2>2 DEF Lacking
    <3>5. Depth(tree, at) = 1 + Depth(tree, Parent) /\ Depth(tree, Parent) \in Nat
      BY <1>3, <2>4, <3>4 DEF Parent
    <3>6. Depth(tree', at') < Depth(tree, at)
      BY <2>1, <3>3, <3>5
    <3>7. QED
      BY <3>6
  <2>6. CASE ~Black(tree, b)
    <3> HIDE DEF s, b
    <3>1. /\ Shape(tree) /\ Parent \in In(tree) /\ s \in Side /\ b \in In(tree)
          /\ b = Child(tree, Other(s), Parent)
          /\ tree \in Trees /\ Parent \in All /\ b \in All /\ tree.color[Sentinel] = "black"
          /\ Parent # Sentinel /\ b # Sentinel
      BY <2>2, LackFacts DEF Lacking
    <3>2. PaintedTwo(tree, y, b, "black", Parent, "red")
      BY <3>1, PaintedTwice
    <3> HIDE DEF y
    <3>3. /\ y \in Trees /\ y.child = tree.child /\ y.parent = tree.parent
          /\ y.color[Sentinel] = "black" /\ y.color[Parent] = "red"
      BY <3>1, <3>2, Distinct DEF PaintedTwo
    <3> DEFINE u == Rotate(y, Parent, s)
    <3>4. Turning(tree, y, u, Parent, s, b)
      BY <3>1, <3>3, Turned
    <3>5. Lifted = u
      BY <2>3, <2>6
    <3> HIDE DEF u
    <3>6. u.color[Parent] = "red" /\ u.color \in [All -> {"red", "black"}]
      BY <3>3, <3>4 DEF Turning, Shape, Trees
    <3>7. tree' = Paint(u, Sibling, "red")
      BY <2>1, <3>5
    <3>8. tree'.color[Parent] = "red"
      BY <3>1, <3>6, <3>7 DEF Paint
    <3>9. QED
      BY <2>1, <2>4, <3>8 DEF Black
  <2>7. QED
    BY <2>5, <2>6
<1>9. QED
  BY <1>6, <1>7, <1>8

-----------------------------------------------------------------------------
(* Theorems.                                                               *)

\* In every state, also between two rounds of a fix-up loop, the nodes of the tree make up a queue
\* that is sorted by their keys: what every link write of js_rbtree.c keeps.
THEOREM OrderInvariance == Spec => []OInv
<1>1. QED
  BY InitOrder, StepOrder, PTL DEF Spec

\* js_rbtree_insert puts a node behind those of the same or a smaller key and before all others,
\* js_rbtree_delete takes out the one node, and no rotation or recolouring changes the order: the
\* tree, read down the child links, is an OrderedQueue.
THEOREM TreeIsAQueue == Spec => ImplementsQueue
<1>1. Init => Queue!Init
  BY InitOrder DEF Queue!Init
<1>2. QED
  BY <1>1, InitOrder, StepOrder, PTL DEF Spec, ImplementsQueue, Queue!Spec

\* js_rbtree_min and js_rbtree_node_successor, read up the parent links, visit every node once and
\* in that order, and end at the sentinel, also while a fix-up is under way (js_rbtree.h:30-72).
THEOREM SuccessorsStayInOrder == Spec => []SuccessorInOrder
<1>1. QED
  BY OrderInvariance, InvSuccessors, PTL

\* A round of js_rbtree_insert_fixup or js_rbtree_delete_fixup that does not leave its loop moves the
\* node it works on up, or leaves it at a red node, where the next round ends.
THEOREM FixupsClimb == Spec => FixupClimbs
<1>1. QED
  BY InitOrder, StepOrder, StepClimbs, PTL DEF Spec, FixupClimbs
=============================================================================
