---------------------------- MODULE RBTreeProofs ----------------------------
(***************************************************************************)
(* Proofs about RBTree: its links agree, no red node has a red parent and  *)
(* all paths to the leaves hold as many black nodes, in every state, for   *)
(* any nodes and keys.                                                     *)
(***************************************************************************)
EXTENDS RBTree, SeqLemmas, FiniteSetTheorems, TLAPS

-----------------------------------------------------------------------------
(* What holds of a tree t between two link writes of an operation.         *)

Trees == [child  : [Side -> [All -> All \union {Null, Callback}]],
          parent : [All -> All \union {Null}],
          color  : [All -> {"red", "black"}]]

\* The nodes of t, and the places a link of t may lead to.
In(t)    == {n \in Node : t.parent[n] # Null}
Spots(t) == In(t) \union {Sentinel}

\* Up and down links agree, and no node is a child twice.
Sound(t) ==
    /\ \A n \in In(t) : t.parent[n] \in Spots(t) /\ \E s \in Side : Child(t, s, t.parent[n]) = n
    /\ \A n \in Spots(t), s \in Side : Child(t, s, n) \in In(t) => t.parent[Child(t, s, n)] = n
    /\ \A n \in In(t), s \in Side : Child(t, s, n) \in Spots(t)
    /\ \A n \in Node \ In(t), s \in Side : Child(t, s, n) = Null
    /\ \A n \in In(t) : Child(t, "left", n) = Child(t, "right", n) => Child(t, "left", n) = Sentinel
    /\ Root(t) \in Spots(t)
    /\ Child(t, "right", Sentinel) = Callback

\* Parents rank above their children, so that every way down ends.
RankedBy(t, r) ==
    /\ r \in [All -> Nat]
    /\ \A n \in In(t) : t.parent[n] # Sentinel => r[n] < r[t.parent[n]]
Ranked(t) == \E r \in [All -> Nat] : RankedBy(t, r)

\* Heights: every path down from a node holds as many black nodes, where the child of p
\* on the side sd counts for one more.
Count(t, n) == IF Black(t, n) THEN 1 ELSE 0
Extra(p, sd, n, s) == IF n = p /\ s = sd THEN 1 ELSE 0
Balanced(t, h, p, sd) ==
    /\ h \in [All -> Nat]
    /\ h[Sentinel] = 0
    /\ \A n \in In(t), s \in Side :
         h[n] = h[Child(t, s, n)] + Count(t, Child(t, s, n)) + Extra(p, sd, n, s)

-----------------------------------------------------------------------------
(* Sides.                                                                  *)

\* The sentinel, NULL and the callback are three, and none of them is a node.
LEMMA Distinct ==
  /\ Sentinel \notin Node /\ Null \notin All /\ Callback \notin All
  /\ Null # Callback /\ Sentinel \in All /\ Node \subseteq All
BY RBTreeAssumption DEF All

\* There are two sides.
LEMMA Sides ==
  ASSUME NEW s \in Side
  PROVE  /\ Other(s) \in Side /\ Other(Other(s)) = s /\ s # Other(s)
         /\ \A x \in Side : x = s \/ x = Other(s)
         /\ "left" \in Side /\ "right" \in Side
BY DEF Side, Other

\* The code's test for the left child always names a side.
LEMMA SideIn == ASSUME NEW t, NEW n PROVE SideOf(t, n) \in Side
BY DEF SideOf, Side

-----------------------------------------------------------------------------
(* The writes.                                                             *)

\* Painting a node changes one colour and no link.
LEMMA PaintIs ==
  ASSUME NEW t \in Trees, NEW n \in All, NEW c \in {"red", "black"}
  PROVE  LET u == Paint(t, n, c)
         IN /\ u \in Trees /\ u.child = t.child /\ u.parent = t.parent
            /\ u.color = [t.color EXCEPT ![n] = c]
BY DEF Paint, Trees

\* js_rbtree_parent_relink writes one link up and one link down.
LEMMA RelinkIs ==
  ASSUME NEW t \in Trees, NEW a \in All, NEW n \in All, t.parent[n] \in All
  PROVE  LET u == ParentRelink(t, a, n)
         IN /\ u \in Trees /\ u.color = t.color
            /\ \A m \in All : u.parent[m] = IF m = a THEN t.parent[n] ELSE t.parent[m]
            /\ \A m \in All, s \in Side :
                 Child(u, s, m) = IF m = t.parent[n] /\ s = SideOf(t, n) THEN a ELSE Child(t, s, m)
BY SideIn DEF ParentRelink, Trees, Child

\* Where a node and its parent are, in a sound tree.
LEMMA LinkFacts ==
  ASSUME NEW t \in Trees, Sound(t), NEW n \in In(t)
  PROVE  /\ n \in Node /\ n \in All /\ n # Sentinel /\ n # Null
         /\ t.parent[n] \in Spots(t) /\ t.parent[n] \in All
         /\ SideOf(t, n) \in Side
         /\ Child(t, SideOf(t, n), t.parent[n]) = n
         /\ \A m \in Spots(t), s \in Side :
              Child(t, s, m) = n <=> m = t.parent[n] /\ s = SideOf(t, n)
         /\ \A s \in Side : Child(t, s, n) \in Spots(t) /\ Child(t, s, n) \in All
<1>1. n \in Node /\ n \in All /\ n # Sentinel /\ n # Null /\ Spots(t) \subseteq All
  BY Distinct DEF In, Spots, All
<1>2. t.parent[n] \in Spots(t) /\ \A s \in Side : Child(t, s, n) \in Spots(t)
  BY DEF Sound
<1>3. PICK x \in Side : Child(t, x, t.parent[n]) = n
  BY DEF Sound
<1>4. \A m \in Spots(t), s \in Side : Child(t, s, m) = n => m = t.parent[n]
  BY DEF Sound
<1>5. \A s \in Side : Child(t, s, t.parent[n]) = n => s = x
  <2>1. CASE t.parent[n] = Sentinel
    <3>1. Child(t, "right", t.parent[n]) = Callback
      BY <2>1 DEF Sound
    <3>2. Callback # n
      BY <1>1, Distinct
    <3>3. QED
      BY <1>3, <3>1, <3>2 DEF Side
  <2>2. CASE t.parent[n] \in In(t)
    <3>1. Child(t, "left", t.parent[n]) = Child(t, "right", t.parent[n])
            => Child(t, "left", t.parent[n]) = Sentinel
      BY <2>2 DEF Sound
    <3>2. QED
      BY <1>1, <1>3, <3>1 DEF Side
  <2>3. QED
    BY <1>2, <2>1, <2>2 DEF Spots
<1>6. SideOf(t, n) = x
  BY <1>3, <1>5 DEF SideOf, Side
<1>7. QED
  BY <1>1, <1>2, <1>3, <1>4, <1>5, <1>6, SideIn

\* Ranks tell a node, its child and its grandchild apart.
LEMMA RankFacts ==
  ASSUME NEW t \in Trees, Sound(t), NEW r, RankedBy(t, r), NEW n \in In(t), NEW s \in Side,
         Child(t, s, n) \in In(t)
  PROVE  /\ Child(t, s, n) # n /\ t.parent[Child(t, s, n)] = n
         /\ t.parent[n] # n /\ t.parent[n] # Child(t, s, n)
         /\ \A x \in Side : Child(t, x, Child(t, s, n)) # n /\ Child(t, x, Child(t, s, n)) # Child(t, s, n)
<1> DEFINE c == Child(t, s, n)
<1>1. /\ n # Sentinel /\ c # Sentinel /\ c \in In(t) /\ t.parent[c] = n /\ n \in All /\ c \in All
  BY LinkFacts DEF Sound, Spots
<1> HIDE DEF c
<1>2. r[c] < r[n] /\ r[c] \in Nat /\ r[n] \in Nat
  BY <1>1 DEF RankedBy
<1>3. t.parent[n] # n /\ t.parent[n] # c
  <2>1. t.parent[n] # Sentinel => r[n] < r[t.parent[n]]
    BY DEF RankedBy
  <2>2. QED
    BY <1>1, <1>2, <2>1
<1>4. ASSUME NEW x \in Side PROVE Child(t, x, c) # n /\ Child(t, x, c) # c
  <2>1. Child(t, x, c) \in In(t) => t.parent[Child(t, x, c)] = c
    BY <1>1 DEF Sound, Spots
  <2>2. QED
    BY <1>1, <1>2, <1>3, <2>1
<1>5. QED
  BY <1>1, <1>2, <1>3, <1>4 DEF c

\* What a rotation makes of the links.
Rotated(t, u, n, s) ==
    LET c == Child(t, Other(s), n)
        inner == Child(t, s, c)
    IN /\ u \in Trees /\ u.color = t.color
       /\ \A m \in All : u.parent[m] = IF m = n THEN c
                                       ELSE IF m = c THEN t.parent[n]
                                       ELSE IF m = inner THEN n ELSE t.parent[m]
       /\ Child(u, s, c) = n /\ Child(u, Other(s), c) = Child(t, Other(s), c)
       /\ Child(u, Other(s), n) = inner /\ Child(u, s, n) = Child(t, s, n)
       /\ \A m \in All \ {n, c}, x \in Side :
            Child(u, x, m) = IF m = t.parent[n] /\ x = SideOf(t, n) THEN c ELSE Child(t, x, m)

\* The writes of js_rbtree_left_rotate and its mirror image, taken together.
LEMMA RotateIs ==
  ASSUME NEW t \in Trees, Sound(t), Ranked(t), NEW n \in In(t), NEW s \in Side,
         Child(t, Other(s), n) \in In(t)
  PROVE  Rotated(t, Rotate(t, n, s), n, s)
<1> DEFINE o == Other(s)
           c == Child(t, o, n)
           inner == Child(t, s, c)
           p == t.parent[n]
           moved == [t EXCEPT !.child[o][n] = inner, !.parent[inner] = n, !.child[s][c] = n]
           v == ParentRelink(moved, c, n)
           u == [v EXCEPT !.parent[n] = c]
<1>1. Rotate(t, n, s) = u
  BY DEF Rotate
<1>2. o \in Side /\ s # o /\ \A x \in Side : x = s \/ x = o
  BY Sides
<1>3. PICK r : RankedBy(t, r)
  BY DEF Ranked
<1>4. /\ c \in In(t) /\ n \in All /\ c \in All /\ inner \in All /\ p \in All
      /\ c # n /\ p # n /\ p # c /\ inner # n /\ inner # c
  BY <1>2, <1>3, LinkFacts, RankFacts
<1>5. /\ moved \in Trees /\ moved.color = t.color
      /\ \A m \in All : moved.parent[m] = IF m = inner THEN n ELSE t.parent[m]
      /\ \A m \in All, x \in Side :
           Child(moved, x, m) = IF m = n /\ x = o THEN inner
                                ELSE IF m = c /\ x = s THEN n ELSE Child(t, x, m)
  <2> HIDE DEF o, c, inner, p
  <2>1. QED
    BY <1>2, <1>4 DEF Trees, Child
<1> HIDE DEF moved
<1>6. moved.parent[n] = p /\ SideOf(moved, n) = SideOf(t, n)
  <2>1. moved.parent[n] = p
    BY <1>4, <1>5
  <2>2. Child(moved, "left", p) = Child(t, "left", p)
    BY <1>4, <1>5 DEF Side
  <2>3. QED
    BY <2>1, <2>2 DEF SideOf
<1>7. /\ v \in Trees /\ v.color = t.color
      /\ \A m \in All : v.parent[m] = IF m = c THEN p ELSE moved.parent[m]
      /\ \A m \in All, x \in Side :
           Child(v, x, m) = IF m = p /\ x = SideOf(t, n) THEN c ELSE Child(moved, x, m)
  BY <1>4, <1>5, <1>6, RelinkIs
<1> HIDE DEF v
<1>8. /\ u \in Trees /\ u.color = t.color
      /\ \A m \in All : u.parent[m] = IF m = n THEN c ELSE v.parent[m]
      /\ u.child = v.child
  <2> HIDE DEF c
  <2>1. QED
    BY <1>4, <1>7 DEF Trees
<1> HIDE DEF u
<1>9. \A m \in All, x \in Side : Child(u, x, m) = Child(v, x, m)
  BY <1>8 DEF Child
<1>10. \A m \in All : u.parent[m] = IF m = n THEN c ELSE IF m = c THEN p
                                    ELSE IF m = inner THEN n ELSE t.parent[m]
  <2> HIDE DEF c, inner, p
  <2>1. QED
    BY <1>5, <1>7, <1>8
<1>11. \A m \in All, x \in Side :
         Child(u, x, m) = IF m = p /\ x = SideOf(t, n) THEN c
                          ELSE IF m = n /\ x = o THEN inner
                          ELSE IF m = c /\ x = s THEN n ELSE Child(t, x, m)
  <2> HIDE DEF c, inner, p, o
  <2>1. QED
    BY <1>5, <1>7, <1>9
<1>12. Rotated(t, u, n, s)
  <2>1. /\ Child(u, s, c) = n /\ Child(u, o, c) = Child(t, o, c)
        /\ Child(u, o, n) = inner /\ Child(u, s, n) = Child(t, s, n)
    <3> HIDE DEF c, inner, p, o
    <3>1. QED
      BY <1>2, <1>4, <1>11
  <2>2. \A m \in All \ {n, c}, x \in Side :
            Child(u, x, m) = IF m = p /\ x = SideOf(t, n) THEN c ELSE Child(t, x, m)
    BY <1>11
  <2>3. QED
    BY <1>8, <1>10, <2>1, <2>2 DEF Rotated
<1>13. QED
  BY <1>1, <1>12

\* A rotation keeps the links in agreement.
LEMMA RotatedSound ==
  ASSUME NEW t \in Trees, Sound(t), Ranked(t), NEW n \in In(t), NEW s \in Side,
         Child(t, Other(s), n) \in In(t), NEW u, Rotated(t, u, n, s)
  PROVE  In(u) = In(t) /\ Sound(u) /\ Ranked(u)
<1> DEFINE o == Other(s)
           c == Child(t, o, n)
           inner == Child(t, s, c)
           p == t.parent[n]
           q == SideOf(t, n)
<1>1. o \in Side /\ s # o /\ \A x \in Side : x = s \/ x = o
  BY Sides
<1>2. PICK r : RankedBy(t, r)
  BY DEF Ranked
<1>3. /\ c \in In(t) /\ n \in All /\ c \in All /\ inner \in All /\ p \in All
      /\ c # n /\ p # n /\ p # c /\ inner # n /\ inner # c
      /\ n \in Node /\ c \in Node /\ n # Null /\ c # Null
      /\ \A x \in Side : Child(t, x, c) # n /\ Child(t, x, c) # c
  BY <1>1, <1>2, LinkFacts, RankFacts
<1>4. /\ p \in Spots(t) /\ inner \in Spots(t) /\ p # Null /\ q \in Side /\ Child(t, q, p) = n
      /\ t.parent[c] = n /\ (inner \in In(t) => t.parent[inner] = c)
      /\ c \in Spots(t) /\ n \in Spots(t)
  <2>1. p \in Spots(t) /\ q \in Side /\ Child(t, q, p) = n /\ inner \in Spots(t)
    BY <1>3, LinkFacts
  <2>2. c \in Spots(t) /\ n \in Spots(t)
    BY <1>3 DEF Spots
  <2>3. t.parent[c] = n /\ (inner \in In(t) => t.parent[inner] = c)
    BY <1>1, <1>3, <2>2 DEF Sound
  <2>4. p # Null
    BY <2>1, Distinct DEF Spots, In, All
  <2>5. QED
    BY <2>1, <2>2, <2>3, <2>4
<1>5. \A m \in All : u.parent[m] = IF m = n THEN c ELSE IF m = c THEN p
                                   ELSE IF m = inner THEN n ELSE t.parent[m]
  BY DEF Rotated
<1>6. \A m \in All, x \in Side :
        Child(u, x, m) = IF m = n THEN (IF x = o THEN inner ELSE Child(t, x, n))
                         ELSE IF m = c THEN (IF x = s THEN n ELSE Child(t, x, c))
                         ELSE IF m = p /\ x = q THEN c ELSE Child(t, x, m)
  <2> TAKE m \in All, x \in Side
  <2>1. CASE m \in {n, c}
    BY <1>1, <1>3, <2>1 DEF Rotated
  <2>2. CASE m \notin {n, c}
    BY <2>2 DEF Rotated
  <2>3. QED
    BY <2>1, <2>2
<1>7. \A m \in In(t) : m \in All /\ m \in Node /\ m # Sentinel /\ m # Null
  BY LinkFacts
<1>8. Sentinel \in All /\ Node \subseteq All /\ Sentinel # Null /\ Null \notin All /\ Sentinel \notin In(t)
  BY Distinct DEF In
<1>9. \A m \in In(t) : /\ t.parent[m] \in Spots(t) /\ SideOf(t, m) \in Side
                       /\ Child(t, SideOf(t, m), t.parent[m]) = m
  BY LinkFacts
<1>10. \A m \in Spots(t), x \in Side : Child(t, x, m) \in In(t) => t.parent[Child(t, x, m)] = m
  BY DEF Sound
<1>11. \A m \in In(t), x, y \in Side : Child(t, x, m) = Child(t, y, m) /\ x # y => Child(t, x, m) = Sentinel
  BY DEF Sound, Side
<1>12. Spots(t) \subseteq All /\ \A m \in Spots(t) : m # Sentinel => m \in In(t)
  BY <1>7, <1>8 DEF Spots
<1> HIDE DEF o, c, inner, p, q
<1>13. In(u) = In(t)
  <2>1. ASSUME NEW m \in Node PROVE u.parent[m] # Null <=> t.parent[m] # Null
    <3>1. m \in All /\ m # Sentinel
      BY <1>8, Distinct
    <3>2. t.parent[n] # Null /\ t.parent[c] # Null /\ (m = inner => t.parent[m] # Null)
      BY <1>3, <1>4, <3>1 DEF In, Spots
    <3>3. QED
      BY <1>3, <1>4, <1>5, <3>1, <3>2
  <2>2. QED
    BY <2>1 DEF In
<1>14. Spots(u) = Spots(t)
  BY <1>13 DEF Spots
<1>15. ASSUME NEW m \in In(t)
       PROVE  u.parent[m] \in Spots(t) /\ \E x \in Side : Child(u, x, u.parent[m]) = m
  <2>1. CASE m = n
    <3>1. u.parent[m] = c /\ Child(u, s, c) = m
      BY <1>3, <1>5, <1>6, <2>1
    <3>2. QED
      BY <1>4, <3>1
  <2>2. CASE m = c
    <3>1. u.parent[m] = p /\ Child(u, q, p) = m
      BY <1>3, <1>4, <1>5, <1>6, <2>2
    <3>2. QED
      BY <1>4, <3>1
  <2>3. CASE m = inner
    <3>1. u.parent[m] = n /\ Child(u, o, n) = m
      BY <1>1, <1>3, <1>5, <1>6, <2>3
    <3>2. QED
      BY <1>1, <1>4, <3>1
  <2>4. CASE m # n /\ m # c /\ m # inner
    <3> DEFINE d == t.parent[m]
               y == SideOf(t, m)
    <3>1. d \in Spots(t) /\ d \in All /\ y \in Side /\ Child(t, y, d) = m /\ u.parent[m] = d
      BY <1>5, <1>7, <1>9, <1>12, <2>4
    <3> HIDE DEF d, y
    <3>2. Child(u, y, d) = m
      <4>1. CASE d = n
        BY <1>6, <2>4, <3>1, <4>1 DEF c
      <4>2. CASE d = c
        BY <1>3, <1>6, <2>4, <3>1, <4>2 DEF inner
      <4>3. CASE d # n /\ d # c
        BY <1>4, <1>6, <2>4, <3>1, <4>3
      <4>4. QED
        BY <4>1, <4>2, <4>3
    <3>3. QED
      BY <3>1, <3>2
  <2>5. QED
    BY <2>1, <2>2, <2>3, <2>4
<1>16. ASSUME NEW m \in Spots(t), NEW x \in Side, Child(u, x, m) \in In(t)
       PROVE  u.parent[Child(u, x, m)] = m
  <2>1. CASE m = n /\ x = o
    BY <1>3, <1>5, <1>6, <1>16, <2>1
  <2>2. CASE m = n /\ x # o
    <3>1. Child(u, x, m) = Child(t, x, n)
      BY <1>3, <1>6, <2>2
    <3>2. t.parent[Child(t, x, n)] = n
      BY <1>4, <1>10, <1>16, <3>1
    <3>3. Child(t, x, n) # n /\ Child(t, x, n) # inner
      BY <1>3, <1>4, <1>16, <3>1, <3>2 DEF p
    <3>4. Child(t, x, n) # c
      BY <1>1, <1>3, <1>7, <1>11, <2>2 DEF c
    <3>5. QED
      BY <1>5, <1>7, <1>16, <2>2, <3>1, <3>2, <3>3, <3>4
  <2>3. CASE m = c /\ x = s
    BY <1>3, <1>5, <1>6, <2>3
  <2>4. CASE m = c /\ x # s
    <3>1. Child(u, x, m) = Child(t, x, c)
      BY <1>3, <1>6, <2>4
    <3>2. t.parent[Child(t, x, c)] = c /\ Child(t, x, c) # n /\ Child(t, x, c) # c
      BY <1>3, <1>4, <1>10, <1>16, <3>1
    <3>3. Child(t, x, c) # inner
      BY <1>3, <1>8, <1>11, <1>16, <2>4, <3>1 DEF inner
    <3>4. QED
      BY <1>5, <1>7, <1>16, <2>4, <3>1, <3>2, <3>3
  <2>5. CASE m # n /\ m # c /\ m = p /\ x = q
    BY <1>3, <1>5, <1>6, <2>5
  <2>6. CASE m # n /\ m # c /\ ~ (m = p /\ x = q)
    <3>1. Child(u, x, m) = Child(t, x, m)
      BY <1>6, <1>12, <2>6
    <3>2. t.parent[Child(t, x, m)] = m
      BY <1>10, <1>16, <3>1
    <3>3. Child(t, x, m) # c /\ Child(t, x, m) # inner
      BY <1>4, <1>16, <2>6, <3>1, <3>2
    <3>4. Child(t, x, m) # n
      BY <2>6, LinkFacts DEF p, q
    <3>5. QED
      BY <1>5, <1>7, <1>16, <3>1, <3>2, <3>3, <3>4
  <2>7. QED
    BY <2>1, <2>2, <2>3, <2>4, <2>5, <2>6
<1>17. ASSUME NEW m \in In(t), NEW x \in Side PROVE Child(u, x, m) \in Spots(t)
  <2>1. Child(t, x, m) \in Spots(t)
    BY DEF Sound
  <2>2. QED
    BY <1>4, <1>6, <1>7, <2>1
<1>18. ASSUME NEW m \in Node \ In(t), NEW x \in Side PROVE Child(u, x, m) = Null
  <2>1. Child(t, x, m) = Null
    BY DEF Sound
  <2>2. m # n /\ m # c /\ m # p /\ m \in All
    BY <1>3, <1>4, <1>8, <1>12, Distinct
  <2>3. QED
    BY <1>6, <2>1, <2>2
<1>19. ASSUME NEW m \in In(t), NEW x \in Side, NEW y \in Side, x # y, Child(u, x, m) = Child(u, y, m)
       PROVE  Child(u, x, m) = Sentinel
  <2> SUFFICES ASSUME Child(u, x, m) # Sentinel PROVE FALSE
    OBVIOUS
  <2>1. Child(u, x, m) \in In(t)
    BY <1>12, <1>17
  <2>2. CASE m = n
    <3>1. \E z \in Side : z # o /\ Child(u, z, n) = inner /\ inner \in In(t)
      BY <1>1, <1>3, <1>6, <1>19, <2>1, <2>2
    <3>2. PICK z \in Side : z # o /\ Child(t, z, n) = inner
      BY <1>3, <1>6, <3>1
    <3>3. t.parent[inner] = n
      BY <1>4, <1>10, <3>1, <3>2
    <3>4. QED
      BY <1>3, <1>4, <3>1, <3>3
  <2>3. CASE m = c
    <3>1. \E z \in Side : Child(t, z, c) = n
      BY <1>1, <1>3, <1>6, <1>19, <2>3
    <3>2. QED
      BY <1>3, <3>1
  <2>4. CASE m # n /\ m # c
    <3>1. CASE m = p
      <4>1. \E z \in Side : Child(t, z, p) = c \/ (Child(u, x, m) = Child(t, x, m) /\ Child(u, y, m) = Child(t, y, m))
        BY <1>6, <1>7, <1>19, <2>4, <3>1
      <4>2. \A z \in Side : Child(t, z, p) # c
        BY <1>3, <1>4, <1>10
      <4>3. QED
        BY <1>11, <1>19, <4>1, <4>2
    <3>2. CASE m # p
      BY <1>6, <1>7, <1>11, <1>19, <2>4, <3>2
    <3>3. QED
      BY <3>1, <3>2
  <2>5. QED
    BY <2>2, <2>3, <2>4
<1>20. Root(u) \in Spots(t) /\ Child(u, "right", Sentinel) = Callback
  <2>1. Child(t, "left", Sentinel) \in Spots(t) /\ Child(t, "right", Sentinel) = Callback
    BY DEF Sound, Root, Child
  <2>2. p = Sentinel => q = "left"
    BY <1>3, <1>4, <1>8, <2>1, Distinct DEF Side
  <2>3. /\ Child(u, "left", Sentinel) \in Spots(t) /\ Child(u, "right", Sentinel) = Callback
    BY <1>3, <1>4, <1>6, <1>8, <2>1, <2>2, Distinct, Sides
  <2>4. QED
    BY <2>3 DEF Root, Child
<1>21. Sound(u)
  <2>1. \A m \in In(t) : Child(u, "left", m) = Child(u, "right", m) => Child(u, "left", m) = Sentinel
    BY <1>19, Sides
  <2>2. QED
    BY <1>13, <1>14, <1>15, <1>16, <1>17, <1>18, <1>20, <2>1 DEF Sound
<1>22. Ranked(u)
  <2> DEFINE f == [m \in All |-> IF m = n THEN 2 * r[n] ELSE IF m = c THEN 2 * r[n] + 1 ELSE 2 * r[m]]
  <2>1. f \in [All -> Nat] /\ \A m \in All : r[m] \in Nat
    BY <1>2, <1>3 DEF RankedBy
  <2>2. ASSUME NEW m \in In(t), u.parent[m] # Sentinel PROVE f[m] < f[u.parent[m]]
    <3>1. \A d \in In(t) : t.parent[d] # Sentinel => r[d] < r[t.parent[d]]
      BY <1>2 DEF RankedBy
    <3>2. CASE m = n
      BY <1>3, <1>5, <2>1, <3>2
    <3>3. CASE m = c
      <4>1. u.parent[m] = p /\ f[p] = 2 * r[p] /\ f[m] = 2 * r[n] + 1
        BY <1>3, <1>5, <3>3
      <4>2. r[n] < r[p] /\ r[n] \in Nat /\ r[p] \in Nat
        BY <1>3, <2>1, <2>2, <3>1, <4>1 DEF p
      <4>3. QED
        BY <4>1, <4>2
    <3>4. CASE m # n /\ m # c /\ m = inner
      <4>1. u.parent[m] = n /\ f[n] = 2 * r[n] /\ f[m] = 2 * r[m]
        BY <1>3, <1>5, <3>4
      <4>2. r[m] < r[c] /\ r[c] < r[n] /\ r[n] \in Nat /\ r[m] \in Nat /\ r[c] \in Nat
        BY <1>3, <1>4, <1>7, <2>1, <3>1, <3>4
      <4>3. QED
        BY <4>1, <4>2
    <3>5. CASE m # n /\ m # c /\ m # inner
      <4> DEFINE d == t.parent[m]
      <4>1. u.parent[m] = d /\ f[m] = 2 * r[m] /\ d \in All /\ m \in All
        BY <1>5, <1>7, <1>9, <1>12, <3>5
      <4>2. r[m] < r[d] /\ r[m] \in Nat /\ r[d] \in Nat
        BY <2>1, <2>2, <3>1, <4>1
      <4>3. f[d] >= 2 * r[d]
        <5> HIDE DEF d
        <5>1. CASE d = c
          <6>1. r[c] < r[n] /\ r[n] \in Nat
            BY <1>3, <1>4, <1>7, <2>1, <3>1
          <6>2. QED
            BY <1>3, <4>2, <5>1, <6>1
        <5>2. CASE d # c
          BY <4>1, <4>2, <5>2
        <5>3. QED
          BY <5>1, <5>2
      <4>4. f[d] \in Nat
        BY <2>1, <4>1
      <4> HIDE DEF f, d
      <4>5. QED
        BY <4>1, <4>2, <4>3, <4>4
    <3>6. QED
      BY <3>2, <3>3, <3>4, <3>5
  <2> HIDE DEF f
  <2>3. QED
    BY <1>13, <2>1, <2>2 DEF Ranked, RankedBy
<1>23. QED
  BY <1>13, <1>21, <1>22

\* Colours do not matter to the links.
LEMMA PaintedSound ==
  ASSUME NEW t, NEW u, u.child = t.child, u.parent = t.parent
  PROVE  /\ In(u) = In(t) /\ Spots(u) = Spots(t) /\ Root(u) = Root(t)
         /\ \A n : SideOf(u, n) = SideOf(t, n)
         /\ \A s, n : Child(u, s, n) = Child(t, s, n)
         /\ Sound(t) => Sound(u)
         /\ Ranked(t) => Ranked(u)
<1>1. In(u) = In(t) /\ Spots(u) = Spots(t) /\ Root(u) = Root(t)
  BY DEF In, Spots, Root
<1>2. \A s, n : Child(u, s, n) = Child(t, s, n)
  BY DEF Child
<1>3. \A n : SideOf(u, n) = SideOf(t, n)
  BY <1>2 DEF SideOf
<1>4. Sound(t) => Sound(u)
  BY <1>1, <1>2 DEF Sound
<1>5. Ranked(t) => Ranked(u)
  BY <1>1 DEF Ranked, RankedBy
<1>6. QED
  BY <1>1, <1>2, <1>3, <1>4, <1>5

\* The heights after a rotation: those of the two nodes that changed places have to be
\* right, and what the path from above counts has to be what it was.  The painting may
\* touch the two and the outer child of the lower one.
LEMMA RotatedBalanced ==
  ASSUME NEW t \in Trees, Sound(t), Ranked(t), NEW n \in In(t), NEW s \in Side,
         Child(t, Other(s), n) \in In(t),
         NEW y \in Trees, y.child = t.child, y.parent = t.parent,
         NEW u, Rotated(y, u, n, s),
         NEW h, NEW g, NEW p, NEW sd, NEW p2, NEW sd2,
         Balanced(t, h, p, sd), g \in [All -> Nat],
         NEW c, c = Child(t, Other(s), n),
         \A m \in All \ {n, c} : g[m] = h[m] /\ \A x \in Side : Extra(p2, sd2, m, x) = Extra(p, sd, m, x),
         \A m \in All \ {n, c} : m # Child(t, Other(s), c) \/ m = Sentinel => y.color[m] = t.color[m],
         g[n] = h[Child(t, s, c)] + Count(y, Child(t, s, c)) + Extra(p2, sd2, n, Other(s)),
         g[n] = h[Child(t, s, n)] + Count(y, Child(t, s, n)) + Extra(p2, sd2, n, s),
         g[c] = g[n] + Count(y, n) + Extra(p2, sd2, c, s),
         g[c] = h[Child(t, Other(s), c)] + Count(y, Child(t, Other(s), c)) + Extra(p2, sd2, c, Other(s)),
         g[c] + Count(y, c) = h[n] + Count(t, n)
  PROVE  Balanced(u, g, p2, sd2)
<1> DEFINE o == Other(s)
           inner == Child(t, s, c)
           outer == Child(t, o, c)
           pn == t.parent[n]
           q == SideOf(t, n)
<1>1. o \in Side /\ s # o /\ \A x \in Side : x = s \/ x = o
  BY Sides
<1>2. PICK r : RankedBy(t, r)
  BY DEF Ranked
<1>3. /\ c \in In(t) /\ n \in All /\ c \in All /\ n # Sentinel /\ c # Sentinel
      /\ c # n /\ inner # n /\ inner # c /\ outer # n /\ outer # c
      /\ Child(t, s, n) # n
  BY <1>1, <1>2, LinkFacts, RankFacts
<1>4. /\ inner \in All /\ outer \in All /\ Child(t, s, n) \in All
      /\ Child(t, s, n) # c
  <2>1. inner \in All /\ outer \in All /\ Child(t, s, n) \in All
    BY <1>1, <1>3, LinkFacts
  <2>2. n \in Spots(t) /\ Child(t, o, n) = c
    BY DEF Spots
  <2>3. Child(t, s, n) # c
    BY <1>1, <1>3, <2>2, LinkFacts
  <2>4. QED
    BY <2>1, <2>3
<1>5. \A m \in All, x \in Side : Child(y, x, m) = Child(t, x, m) /\ SideOf(y, m) = SideOf(t, m)
  BY PaintedSound
<1>6. /\ Child(u, s, c) = n /\ Child(u, o, c) = outer
      /\ Child(u, o, n) = inner /\ Child(u, s, n) = Child(t, s, n)
      /\ \A m \in All \ {n, c}, x \in Side :
           Child(u, x, m) = IF m = pn /\ x = q THEN c ELSE Child(t, x, m)
      /\ u.color = y.color
  BY <1>1, <1>3, <1>5 DEF Rotated
<1>7. In(u) = In(t)
  <2>1. Sound(y) /\ Ranked(y) /\ In(y) = In(t) /\ Child(y, o, n) = c
    BY <1>3, <1>5, PaintedSound
  <2>2. QED
    BY <1>3, <2>1, RotatedSound
<1>8. \A m : Count(u, m) = Count(y, m)
  BY <1>6 DEF Count, Black
<1>9. g[Sentinel] = 0
  BY <1>3, Distinct DEF Balanced
<1>10. ASSUME NEW m \in In(t), NEW x \in Side
       PROVE  g[m] = g[Child(u, x, m)] + Count(u, Child(u, x, m)) + Extra(p2, sd2, m, x)
  <2>1. CASE m = n /\ x = s
    BY <1>3, <1>4, <1>6, <1>8, <2>1
  <2>2. CASE m = n /\ x = o
    BY <1>3, <1>4, <1>6, <1>8, <2>2
  <2>3. CASE m = c /\ x = s
    BY <1>3, <1>4, <1>6, <1>8, <2>3
  <2>4. CASE m = c /\ x = o
    BY <1>3, <1>4, <1>6, <1>8, <2>4
  <2>5. CASE m # n /\ m # c
    <3>1. /\ m \in All /\ g[m] = h[m] /\ Extra(p2, sd2, m, x) = Extra(p, sd, m, x)
          /\ h[m] = h[Child(t, x, m)] + Count(t, Child(t, x, m)) + Extra(p, sd, m, x)
          /\ Child(u, x, m) = IF m = pn /\ x = q THEN c ELSE Child(t, x, m)
      BY <1>6, <2>5, LinkFacts DEF Balanced
    <3>2. CASE m = pn /\ x = q
      <4>1. Child(t, x, m) = n /\ Child(u, x, m) = c
        BY <3>1, <3>2, LinkFacts
      <4>2. QED
        <5> DEFINE e == Extra(p, sd, m, x)
        <5>1. g[m] = h[n] + Count(t, n) + e /\ g[c] + Count(u, c) = h[n] + Count(t, n)
          BY <1>8, <3>1, <4>1
        <5> HIDE DEF e
        <5>2. g[m] = g[c] + Count(u, c) + e
          BY <5>1
        <5>3. QED
          BY <3>1, <4>1, <5>2 DEF e
    <3>3. CASE ~ (m = pn /\ x = q)
      <4> DEFINE d == Child(t, x, m)
      <4>0. d \in All /\ m \in Spots(t)
        BY LinkFacts DEF Spots
      <4>1. d \in All /\ d # n
        BY <3>3, <4>0, LinkFacts
      <4>2. (d # c /\ d # outer) \/ d = Sentinel
        <5>1. d \in In(t) => t.parent[d] = m
          BY DEF Sound, Spots
        <5>2. t.parent[c] = n /\ (outer \in In(t) => t.parent[outer] = c)
          BY <1>1, <1>3 DEF Sound, Spots
        <5>3. d \in In(t) \/ d = Sentinel
          BY DEF Sound, Spots
        <5>4. QED
          BY <1>3, <2>5, <5>1, <5>2, <5>3
      <4>3. Count(t, d) = Count(u, d)
        <5>1. d # c /\ t.color[d] = y.color[d]
          BY <1>3, <4>1, <4>2
        <5>2. QED
          BY <1>8, <5>1 DEF Count, Black
      <4>4. g[d] = h[d]
        BY <1>3, <4>1, <4>2
      <4>5. QED
        BY <3>1, <3>3, <4>3, <4>4
    <3>4. QED
      BY <3>2, <3>3
  <2>6. QED
    BY <1>1, <2>1, <2>2, <2>3, <2>4, <2>5
<1>11. QED
  BY <1>7, <1>9, <1>10 DEF Balanced

\* A red child that goes above its parent takes the parent's colour and leaves it the red:
\* the heights stay.
LEMMA SwapBalanced ==
  ASSUME NEW t \in Trees, Sound(t), Ranked(t), NEW n \in In(t), NEW s \in Side,
         NEW c, c = Child(t, Other(s), n), c \in In(t), t.color[c] = "red",
         NEW y \in Trees, y.child = t.child, y.parent = t.parent,
         \A m \in All : y.color[m] = IF m = c THEN t.color[n] ELSE IF m = n THEN "red" ELSE t.color[m],
         NEW u, Rotated(y, u, n, s),
         NEW h, NEW p, NEW sd, Balanced(t, h, p, sd),
         Extra(p, sd, n, Other(s)) = 0, Extra(p, sd, c, s) = 0
  PROVE  Balanced(u, h, p, sd)
<1> DEFINE o == Other(s)
           inner == Child(t, s, c)
           outer == Child(t, o, c)
           sib == Child(t, s, n)
<1>1. o \in Side /\ s # o /\ \A x \in Side : x = s \/ x = o
  BY Sides
<1>2. PICK r : RankedBy(t, r)
  BY DEF Ranked
<1>3. /\ n \in All /\ c \in All /\ c # n /\ inner # n /\ inner # c /\ outer # n /\ outer # c
      /\ sib # n /\ sib # c /\ inner \in All /\ outer \in All /\ sib \in All
  <2>1. /\ n \in All /\ c \in All /\ c # n /\ inner # n /\ inner # c /\ outer # n /\ outer # c
        /\ inner \in All /\ outer \in All /\ sib \in All
    BY <1>1, <1>2, LinkFacts, RankFacts
  <2>2. n \in Spots(t) /\ Child(t, o, n) = c
    BY DEF Spots
  <2>3. sib # c
    BY <1>1, <2>2, LinkFacts
  <2>4. sib \in In(t) => sib # n
    BY <1>1, <1>2, RankFacts
  <2>5. n # sib
    BY <2>4
  <2>6. QED
    BY <2>1, <2>3, <2>5
<1>4. /\ h[n] = h[c] + Count(t, c) + 0
      /\ h[n] = h[sib] + Count(t, sib) + Extra(p, sd, n, s)
      /\ h[c] = h[inner] + Count(t, inner) + 0
      /\ h[c] = h[outer] + Count(t, outer) + Extra(p, sd, c, o)
  BY <1>1 DEF Balanced
<1>5. /\ Count(t, c) = 0 /\ Count(y, c) = Count(t, n) /\ Count(y, n) = 0
      /\ Count(y, inner) = Count(t, inner) /\ Count(y, outer) = Count(t, outer)
      /\ Count(y, sib) = Count(t, sib)
  BY <1>3 DEF Count, Black
<1>6. h \in [All -> Nat] /\ h[n] \in Nat /\ h[c] \in Nat /\ h[inner] \in Nat
  BY <1>3 DEF Balanced
<1>7. \A m : Count(y, m) \in {0, 1} /\ Count(t, m) \in {0, 1}
  BY DEF Count
<1>8. h[n] = h[c]
  BY <1>4, <1>5, <1>6
<1>9. /\ h[n] = h[inner] + Count(y, inner) + Extra(p, sd, n, o)
      /\ h[n] = h[sib] + Count(y, sib) + Extra(p, sd, n, s)
      /\ h[c] = h[n] + Count(y, n) + Extra(p, sd, c, s)
      /\ h[c] = h[outer] + Count(y, outer) + Extra(p, sd, c, o)
      /\ h[c] + Count(y, c) = h[n] + Count(t, n)
  BY <1>4, <1>5, <1>6, <1>8
<1>10. \A m \in All \ {n, c} : m # outer \/ m = Sentinel => y.color[m] = t.color[m]
  OBVIOUS
<1>11. \A m \in All \ {n, c} : h[m] = h[m] /\ \A x \in Side : Extra(p, sd, m, x) = Extra(p, sd, m, x)
  OBVIOUS
<1>12. QED
  BY <1>6, <1>9, <1>10, <1>11, RotatedBalanced

\* What unlinking a node x makes of the links: its child o takes its place.
Spliced(t, u, x, o) ==
    /\ u \in Trees
    /\ \A m \in All : u.parent[m] = IF m = x THEN Null ELSE IF m = o THEN t.parent[x] ELSE t.parent[m]
    /\ \A m \in All, y \in Side :
         Child(u, y, m) = IF m = x THEN Null
                          ELSE IF m = t.parent[x] /\ y = SideOf(t, x) THEN o ELSE Child(t, y, m)
    /\ \A m \in All : m # x => u.color[m] = t.color[m]

\* It keeps the links in agreement, and the heights but for what x counted.
LEMMA SplicedSound ==
  ASSUME NEW t \in Trees, Sound(t), Ranked(t), NEW x \in In(t), NEW z \in Side,
         Child(t, z, x) = Sentinel, NEW o, o = Child(t, Other(z), x),
         NEW u, Spliced(t, u, x, o)
  PROVE  /\ In(u) = In(t) \ {x} /\ Sound(u) /\ Ranked(u)
         /\ \A h : Balanced(t, h, Null, "left") =>
              IF Black(t, x) THEN Balanced(u, h, t.parent[x], SideOf(t, x))
              ELSE Balanced(u, h, Null, "left")
<1> DEFINE p == t.parent[x]
           q == SideOf(t, x)
<1>1. PICK r : RankedBy(t, r)
  BY DEF Ranked
<1>2. /\ x \in All /\ x \in Node /\ x # Sentinel /\ p \in Spots(t) /\ p \in All /\ q \in Side
      /\ Child(t, q, p) = x /\ o \in Spots(t) /\ o \in All
      /\ \A m \in Spots(t), s \in Side : Child(t, s, m) = x <=> m = p /\ s = q
  BY LinkFacts, Sides
<1>3. /\ o # x /\ p # x
      /\ o \in In(t) => t.parent[o] = x /\ r[o] < r[x]
  <2>1. CASE o \in In(t)
    BY <1>1, <1>2, <2>1, RankFacts, Sides DEF RankedBy
  <2>2. CASE o = Sentinel
    <3>1. p # Sentinel => r[x] < r[p]
      BY <1>1 DEF RankedBy
    <3>2. r[x] \in Nat
      BY <1>1, <1>2 DEF RankedBy
    <3>3. QED
      BY <1>2, <2>2, <3>1, <3>2, Distinct DEF In
  <2>3. QED
    BY <1>2, <2>1, <2>2 DEF Spots
<1>4. \A m \in All : u.parent[m] = IF m = x THEN Null ELSE IF m = o THEN p ELSE t.parent[m]
  BY DEF Spliced
<1>5. \A m \in All, y \in Side :
         Child(u, y, m) = IF m = x THEN Null ELSE IF m = p /\ y = q THEN o ELSE Child(t, y, m)
  BY DEF Spliced
<1>6. \A y \in Side : Child(t, y, x) \in {o, Sentinel}
  BY Sides
<1>7. Sentinel \in All /\ Node \subseteq All /\ Sentinel # Null /\ Null \notin All /\ Sentinel \notin In(t)
  BY Distinct DEF In
<1>8. \A m \in In(t) : /\ m \in All /\ m \in Node /\ m # Sentinel /\ m # Null
                       /\ t.parent[m] \in Spots(t) /\ SideOf(t, m) \in Side
                       /\ Child(t, SideOf(t, m), t.parent[m]) = m
  BY LinkFacts
<1>9. \A m \in Spots(t), y \in Side : Child(t, y, m) \in In(t) => t.parent[Child(t, y, m)] = m
  BY DEF Sound
<1>10. Spots(t) \subseteq All /\ \A m \in Spots(t) : m # Sentinel => m \in In(t)
  BY <1>7, <1>8 DEF Spots
<1> HIDE DEF p, q
<1>11. In(u) = In(t) \ {x}
  <2>1. ASSUME NEW m \in Node PROVE u.parent[m] # Null <=> t.parent[m] # Null /\ m # x
    <3>1. m \in All /\ m # Sentinel
      BY <1>7, Distinct
    <3>2. p # Null /\ (m = o => t.parent[m] # Null)
      BY <1>2, <1>7, <3>1 DEF In, Spots
    <3>3. QED
      BY <1>4, <3>1, <3>2
  <2>2. QED
    BY <2>1 DEF In
<1>12. Spots(u) = Spots(t) \ {x} /\ p \in Spots(u) /\ o \in Spots(u)
  BY <1>2, <1>3, <1>11 DEF Spots
<1>13. ASSUME NEW m \in In(u)
       PROVE  u.parent[m] \in Spots(u) /\ \E y \in Side : Child(u, y, u.parent[m]) = m
  <2>1. CASE m = o
    <3>1. u.parent[m] = p /\ Child(u, q, p) = m
      BY <1>2, <1>3, <1>4, <1>5, <2>1
    <3>2. QED
      BY <1>2, <1>12, <3>1
  <2>2. CASE m # o
    <3> DEFINE d == t.parent[m]
               y == SideOf(t, m)
    <3>1. /\ d \in Spots(t) /\ d \in All /\ y \in Side /\ Child(t, y, d) = m /\ u.parent[m] = d
          /\ m # x /\ m # Sentinel
      BY <1>4, <1>8, <1>10, <1>11, <2>2
    <3> HIDE DEF d, y
    <3>2. d # x
      BY <1>6, <2>2, <3>1
    <3>3. Child(u, y, d) = m
      BY <1>2, <1>5, <3>1, <3>2
    <3>4. QED
      BY <1>12, <3>1, <3>2, <3>3
  <2>3. QED
    BY <2>1, <2>2
<1>14. ASSUME NEW m \in Spots(u), NEW y \in Side, Child(u, y, m) \in In(u)
       PROVE  u.parent[Child(u, y, m)] = m
  <2>1. CASE m = p /\ y = q
    BY <1>2, <1>3, <1>4, <1>5, <2>1
  <2>2. CASE ~ (m = p /\ y = q)
    <3>1. Child(u, y, m) = Child(t, y, m) /\ m # x /\ m \in Spots(t)
      BY <1>5, <1>10, <1>12, <2>2
    <3>2. t.parent[Child(t, y, m)] = m /\ Child(t, y, m) # x
      BY <1>9, <1>11, <1>14, <3>1
    <3>3. Child(t, y, m) # o
      BY <1>3, <1>11, <1>14, <3>1, <3>2
    <3>4. QED
      BY <1>4, <1>8, <1>11, <1>14, <3>1, <3>2, <3>3
  <2>3. QED
    BY <2>1, <2>2
<1>15. ASSUME NEW m \in In(u), NEW y \in Side PROVE Child(u, y, m) \in Spots(u)
  <2>1. Child(t, y, m) \in Spots(t) /\ m # x /\ m \in All /\ m \in Spots(t)
    BY <1>8, <1>11 DEF Sound, Spots
  <2>2. QED
    BY <1>2, <1>5, <1>12, <2>1
<1>16. ASSUME NEW m \in Node \ In(u), NEW y \in Side PROVE Child(u, y, m) = Null
  <2>1. CASE m = x
    BY <1>2, <1>5, <2>1
  <2>2. CASE m # x
    <3>1. m \in Node \ In(t) /\ m \in All /\ Child(t, y, m) = Null
      BY <1>7, <1>11, <2>2 DEF Sound
    <3>2. m # p
      BY <1>2, <1>10, <3>1, Distinct
    <3>3. QED
      BY <1>5, <2>2, <3>1, <3>2
  <2>3. QED
    BY <2>1, <2>2
<1>17. ASSUME NEW m \in In(u), Child(u, "left", m) = Child(u, "right", m)
       PROVE  Child(u, "left", m) = Sentinel
  <2>1. m \in In(t) /\ m # x /\ m \in All /\ m \in Spots(t)
    BY <1>8, <1>11 DEF Spots
  <2>2. Child(t, "left", m) = Child(t, "right", m) => Child(t, "left", m) = Sentinel
    BY <2>1 DEF Sound
  <2>3. CASE m = p
    <3>1. \A y \in Side : Child(t, y, m) = o => o = Sentinel
      BY <1>2, <1>3, <1>9, <1>10, <2>1, <2>3
    <3>2. QED
      BY <1>5, <1>17, <2>1, <2>2, <2>3, <3>1 DEF Side
  <2>4. CASE m # p
    BY <1>5, <1>17, <2>1, <2>2, <2>4 DEF Side
  <2>5. QED
    BY <2>3, <2>4
<1>18. Root(u) \in Spots(u) /\ Child(u, "right", Sentinel) = Callback
  <2>1. Child(t, "left", Sentinel) \in Spots(t) /\ Child(t, "right", Sentinel) = Callback
    BY DEF Sound, Root, Child
  <2>2. p = Sentinel => q = "left"
    BY <1>2, <1>7, <2>1, Distinct DEF Side
  <2>3. Sentinel \in Spots(t) /\ Sentinel # x
    BY <1>2 DEF Spots
  <2>4. Child(u, "left", Sentinel) \in Spots(u) /\ Child(u, "right", Sentinel) = Callback
    BY <1>2, <1>5, <1>7, <1>12, <2>1, <2>2, <2>3, Sides DEF Side
  <2>5. QED
    BY <2>4 DEF Root, Child
<1>19. Sound(u)
  BY <1>13, <1>14, <1>15, <1>16, <1>17, <1>18 DEF Sound
<1>20. Ranked(u)
  <2>1. r \in [All -> Nat] /\ \A d \in In(t) : t.parent[d] # Sentinel => r[d] < r[t.parent[d]]
    BY <1>1 DEF RankedBy
  <2>2. ASSUME NEW m \in In(u), u.parent[m] # Sentinel PROVE r[m] < r[u.parent[m]]
    <3>1. m \in In(t) /\ m # x /\ m \in All
      BY <1>8, <1>11
    <3>2. CASE m = o
      <4>1. u.parent[m] = p /\ r[m] < r[x] /\ r[x] < r[p]
        BY <1>3, <1>4, <2>1, <2>2, <3>1, <3>2 DEF p
      <4>2. r[m] \in Nat /\ r[x] \in Nat /\ r[p] \in Nat
        BY <1>2, <2>1, <3>1
      <4>3. QED
        BY <4>1, <4>2
    <3>3. CASE m # o
      BY <1>4, <2>1, <2>2, <3>1, <3>3
    <3>4. QED
      BY <3>2, <3>3
  <2>3. QED
    BY <2>1, <2>2 DEF Ranked, RankedBy
<1>21. ASSUME NEW h, Balanced(t, h, Null, "left")
       PROVE  IF Black(t, x) THEN Balanced(u, h, p, q) ELSE Balanced(u, h, Null, "left")
  <2>1. h \in [All -> Nat] /\ h[Sentinel] = 0
    BY <1>21 DEF Balanced
  <2>2. \A m \in In(t), y \in Side : h[m] = h[Child(t, y, m)] + Count(t, Child(t, y, m))
    <3> TAKE m \in In(t), y \in Side
    <3>1. h[m] = h[Child(t, y, m)] + Count(t, Child(t, y, m)) + Extra(Null, "left", m, y)
      BY <1>21 DEF Balanced
    <3>2. Extra(Null, "left", m, y) = 0
      BY <1>8 DEF Extra
    <3>3. h[Child(t, y, m)] \in Nat /\ Count(t, Child(t, y, m)) \in Nat
      BY <2>1, LinkFacts DEF Count
    <3>4. QED
      BY <3>1, <3>2, <3>3
  <2>3. \A m \in All : m # x => Count(u, m) = Count(t, m)
    BY DEF Spliced, Count, Black
  <2>4. \A m \in All : h[m] \in Nat /\ Count(u, m) \in Nat /\ Count(t, m) \in Nat
    BY <2>1 DEF Count
  <2>5. ASSUME NEW m \in In(u), NEW y \in Side
        PROVE  h[m] = h[Child(u, y, m)] + Count(u, Child(u, y, m))
                        + IF m = p /\ y = q THEN Count(t, x) ELSE 0
    <3>1. m \in In(t) /\ m # x /\ m \in All /\ m \in Spots(t)
      BY <1>8, <1>11 DEF Spots
    <3>2. h[m] = h[Child(t, y, m)] + Count(t, Child(t, y, m))
      BY <2>2, <3>1
    <3>3. CASE m = p /\ y = q
      <4>1. Child(u, y, m) = o /\ Child(t, y, m) = x
        BY <1>2, <1>5, <3>1, <3>3
      <4>2. h[x] = h[o] + Count(t, o)
        BY <2>2, Sides
      <4>3. Count(u, o) = Count(t, o)
        BY <1>2, <1>3, <2>3
      <4>4. h[m] = h[o] + Count(u, o) + Count(t, x)
        BY <1>2, <2>4, <3>1, <3>2, <4>1, <4>2, <4>3
      <4>5. QED
        BY <3>3, <4>1, <4>4
    <3>4. CASE ~ (m = p /\ y = q)
      <4> DEFINE d == Child(t, y, m)
      <4>1. Child(u, y, m) = d /\ d # x /\ d \in All
        BY <1>2, <1>5, <1>10, <3>1, <3>4, LinkFacts
      <4> HIDE DEF d
      <4>2. h[m] = h[d] + Count(u, d)
        BY <2>3, <3>2, <4>1 DEF d
      <4>3. QED
        BY <2>4, <3>4, <4>1, <4>2
    <3>5. QED
      BY <3>3, <3>4
  <2>6. CASE Black(t, x)
    <3>1. \A m, y : Extra(p, q, m, y) = IF m = p /\ y = q THEN Count(t, x) ELSE 0
      BY <2>6 DEF Extra, Count
    <3>2. Balanced(u, h, p, q)
      BY <2>1, <2>5, <3>1 DEF Balanced
    <3>3. QED
      BY <2>6, <3>2
  <2>7. CASE ~ Black(t, x)
    <3>1. Count(t, x) = 0
      BY <2>7 DEF Count
    <3>2. \A m \in In(u) : \A y : Extra(Null, "left", m, y) = 0
      BY <1>8, <1>11 DEF Extra
    <3>3. Balanced(u, h, Null, "left")
      BY <2>1, <2>5, <3>1, <3>2 DEF Balanced
    <3>4. QED
      BY <2>7, <3>3
  <2>8. QED
    BY <2>6, <2>7
<1>22. QED
  BY <1>11, <1>19, <1>20, <1>21 DEF p, q

\* What it makes of the links that a node x, in no tree, takes the place of the node n.
Replaced(t, u, n, x) ==
    /\ u \in Trees
    /\ \A m \in All : u.parent[m] = IF m = n THEN Null ELSE IF m = x THEN t.parent[n]
                                    ELSE IF \E y \in Side : m = Child(t, y, n) THEN x ELSE t.parent[m]
    /\ \A m \in All, y \in Side :
         Child(u, y, m) = IF m = n THEN Null ELSE IF m = x THEN Child(t, y, n)
                          ELSE IF m = t.parent[n] /\ y = SideOf(t, n) THEN x ELSE Child(t, y, m)
    /\ \A m \in All : m # n => u.color[m] = IF m = x THEN t.color[n] ELSE t.color[m]

\* It keeps the links in agreement, and the heights.
LEMMA ReplacedSound ==
  ASSUME NEW t \in Trees, Sound(t), Ranked(t), NEW n \in In(t), NEW x \in Node \ In(t),
         NEW u, Replaced(t, u, n, x)
  PROVE  /\ In(u) = (In(t) \ {n}) \union {x} /\ Sound(u) /\ Ranked(u)
         /\ \A h, p, sd : Balanced(t, h, p, sd) /\ p # x =>
              \E g : Balanced(u, g, IF p = n THEN x ELSE p, sd)
<1> DEFINE P == t.parent[n]
           Q == SideOf(t, n)
<1>1. PICK r : RankedBy(t, r)
  BY DEF Ranked
<1>2. /\ n \in All /\ n \in Node /\ n # Sentinel /\ P \in Spots(t) /\ P \in All /\ Q \in Side
      /\ Child(t, Q, P) = n
      /\ \A y \in Side : Child(t, y, n) \in Spots(t) /\ Child(t, y, n) \in All
      /\ \A m \in Spots(t), s \in Side : Child(t, s, m) = n <=> m = P /\ s = Q
  BY LinkFacts
<1>3. /\ x \in All /\ x # Sentinel /\ x # n /\ x # P /\ x \notin Spots(t) /\ x # Null
      /\ \A y \in Side : Child(t, y, n) # x
  BY <1>2, Distinct DEF Spots, All
<1>4. P # n /\ \A y \in Side : Child(t, y, n) # n
  <2>1. r[n] \in Nat /\ (P # Sentinel => r[n] < r[P])
    BY <1>1, <1>2 DEF RankedBy
  <2>2. P # n
    BY <1>2, <2>1
  <2>3. n \in Spots(t)
    BY DEF Spots
  <2>4. QED
    BY <1>2, <2>2, <2>3
<1>5. \A m \in All : u.parent[m] = IF m = n THEN Null ELSE IF m = x THEN P
                                   ELSE IF \E y \in Side : m = Child(t, y, n) THEN x ELSE t.parent[m]
  BY DEF Replaced
<1>6. \A m \in All, y \in Side :
         Child(u, y, m) = IF m = n THEN Null ELSE IF m = x THEN Child(t, y, n)
                          ELSE IF m = P /\ y = Q THEN x ELSE Child(t, y, m)
  BY DEF Replaced
<1>7. Sentinel \in All /\ Node \subseteq All /\ Sentinel # Null /\ Null \notin All /\ Sentinel \notin In(t)
  BY Distinct DEF In
<1>8. \A m \in In(t) : /\ m \in All /\ m \in Node /\ m # Sentinel /\ m # Null /\ m # x /\ m \in Spots(t)
                       /\ t.parent[m] \in Spots(t) /\ SideOf(t, m) \in Side
                       /\ Child(t, SideOf(t, m), t.parent[m]) = m
  BY LinkFacts DEF Spots
<1>9. \A m \in Spots(t), y \in Side : Child(t, y, m) \in In(t) => t.parent[Child(t, y, m)] = m
  BY DEF Sound
<1>10. Spots(t) \subseteq All /\ \A m \in Spots(t) : m # Sentinel => m \in In(t)
  BY <1>7, <1>8 DEF Spots
<1>11. n \in Spots(t) /\ \A m \in In(t) : (\E y \in Side : m = Child(t, y, n)) <=> t.parent[m] = n
  BY <1>8, <1>9 DEF Spots
<1>12. \A m \in In(t) : u.parent[m] = IF m = n THEN Null ELSE IF t.parent[m] = n THEN x ELSE t.parent[m]
  BY <1>5, <1>8, <1>11
<1> HIDE DEF P, Q
<1>13. In(u) = (In(t) \ {n}) \union {x}
  <2>1. ASSUME NEW m \in Node
        PROVE  u.parent[m] # Null <=> (t.parent[m] # Null /\ m # n) \/ m = x
    <3>1. m \in All /\ m # Sentinel
      BY <1>7, Distinct
    <3>2. P # Null
      BY <1>2, <1>7
    <3>3. CASE m = x
      BY <1>3, <1>5, <3>1, <3>2, <3>3
    <3>4. CASE m # x
      <4>1. (\E y \in Side : m = Child(t, y, n)) => m \in In(t)
        BY <1>2, <1>10, <3>1
      <4>2. m \in In(t) <=> t.parent[m] # Null
        BY DEF In
      <4>3. QED
        BY <1>3, <1>5, <3>1, <3>4, <4>1, <4>2
    <3>5. QED
      BY <3>3, <3>4
  <2>2. QED
    BY <2>1 DEF In
<1>14. /\ Spots(u) = (Spots(t) \ {n}) \union {x} /\ P \in Spots(u) /\ x \in Spots(u)
       /\ \A y \in Side : Child(t, y, n) \in Spots(u)
  BY <1>2, <1>4, <1>13 DEF Spots
<1>15. ASSUME NEW m \in In(u)
       PROVE  u.parent[m] \in Spots(u) /\ \E y \in Side : Child(u, y, u.parent[m]) = m
  <2>1. CASE m = x
    <3>1. u.parent[m] = P /\ Child(u, Q, P) = m
      BY <1>2, <1>3, <1>4, <1>5, <1>6, <2>1
    <3>2. QED
      BY <1>2, <1>14, <3>1
  <2>2. CASE m # x
    <3> DEFINE d == t.parent[m]
               y == SideOf(t, m)
    <3>1. /\ d \in Spots(t) /\ d \in All /\ y \in Side /\ Child(t, y, d) = m
          /\ u.parent[m] = IF d = n THEN x ELSE d
          /\ m # n /\ m # Sentinel /\ m \in In(t)
      BY <1>8, <1>10, <1>12, <1>13, <2>2
    <3> HIDE DEF d, y
    <3>2. CASE d = n
      <4>1. Child(u, y, x) = m
        BY <1>3, <1>6, <3>1, <3>2
      <4>2. QED
        BY <1>14, <3>1, <3>2, <4>1
    <3>3. CASE d # n
      <4>1. d # x
        BY <1>3, <3>1
      <4>2. Child(u, y, d) = m
        BY <1>2, <1>6, <3>1, <3>3, <4>1
      <4>3. QED
        BY <1>14, <3>1, <3>3, <4>2
    <3>4. QED
      BY <3>2, <3>3
  <2>3. QED
    BY <2>1, <2>2
<1>16. ASSUME NEW m \in Spots(u), NEW y \in Side, Child(u, y, m) \in In(u)
       PROVE  u.parent[Child(u, y, m)] = m
  <2>1. CASE m = x
    <3> DEFINE d == Child(t, y, n)
    <3>1. Child(u, y, m) = d /\ d \in Spots(t) /\ d # n /\ d # x
      BY <1>2, <1>3, <1>4, <1>6, <2>1
    <3>2. d \in In(t)
      BY <1>13, <1>16, <3>1
    <3>3. t.parent[d] = n
      BY <1>9, <1>11, <3>2
    <3> HIDE DEF d
    <3>4. QED
      BY <1>12, <2>1, <3>1, <3>2, <3>3
  <2>2. CASE m # x /\ m = P /\ y = Q
    <3>1. Child(u, y, m) = x
      BY <1>2, <1>4, <1>6, <2>2
    <3>2. QED
      BY <1>3, <1>5, <2>2, <3>1
  <2>3. CASE m # x /\ ~ (m = P /\ y = Q)
    <3> DEFINE d == Child(t, y, m)
    <3>1. Child(u, y, m) = d /\ m # n /\ m \in Spots(t)
      BY <1>4, <1>6, <1>10, <1>14, <2>3
    <3>2. d \in Spots(t) /\ d # n
      <4>1. CASE m = Sentinel
        BY <1>2, <1>7, <1>13, <1>16, <2>3, <3>1, <4>1, Distinct DEF Sound, Spots, Root, Child, Side, In
      <4>2. CASE m \in In(t)
        BY <1>2, <2>3, <3>1, <4>2 DEF Sound
      <4>3. QED
        BY <1>10, <3>1, <4>1, <4>2
    <3>3. d \in In(t) /\ t.parent[d] = m
      BY <1>3, <1>9, <1>13, <1>16, <3>1, <3>2
    <3> HIDE DEF d
    <3>4. QED
      BY <1>12, <3>1, <3>2, <3>3
  <2>4. QED
    BY <2>1, <2>2, <2>3
<1>17. ASSUME NEW m \in In(u), NEW y \in Side PROVE Child(u, y, m) \in Spots(u)
  <2>1. CASE m = x
    BY <1>3, <1>6, <1>14, <2>1
  <2>2. CASE m # x
    <3>1. Child(t, y, m) \in Spots(t) /\ m # n /\ m \in All /\ m \in In(t) /\ m \in Spots(t)
      BY <1>8, <1>13, <2>2 DEF Sound
    <3>2. QED
      BY <1>2, <1>6, <1>14, <2>2, <3>1
  <2>3. QED
    BY <2>1, <2>2
<1>18. ASSUME NEW m \in Node \ In(u), NEW y \in Side PROVE Child(u, y, m) = Null
  <2>1. CASE m = n
    BY <1>2, <1>6, <2>1
  <2>2. CASE m # n
    <3>1. m \in Node \ In(t) /\ m \in All /\ Child(t, y, m) = Null /\ m # x
      BY <1>7, <1>13, <2>2 DEF Sound
    <3>2. m # P
      BY <1>2, <1>10, <3>1, Distinct
    <3>3. QED
      BY <1>6, <2>2, <3>1, <3>2
  <2>3. QED
    BY <2>1, <2>2
<1>19. ASSUME NEW m \in In(u), Child(u, "left", m) = Child(u, "right", m)
       PROVE  Child(u, "left", m) = Sentinel
  <2>1. CASE m = x
    <3>1. Child(u, "left", m) = Child(t, "left", n) /\ Child(u, "right", m) = Child(t, "right", n)
      BY <1>3, <1>6, <2>1 DEF Side
    <3>2. QED
      BY <1>19, <3>1 DEF Sound
  <2>2. CASE m # x
    <3>1. m \in In(t) /\ m # n /\ m \in All /\ m \in Spots(t)
      BY <1>8, <1>13, <2>2
    <3>2. /\ Child(t, "left", m) = Child(t, "right", m) => Child(t, "left", m) = Sentinel
          /\ \A y \in Side : Child(t, y, m) \in Spots(t)
      BY <3>1 DEF Sound
    <3>3. QED
      BY <1>3, <1>6, <1>19, <2>2, <3>1, <3>2 DEF Side
  <2>3. QED
    BY <2>1, <2>2
<1>20. Root(u) \in Spots(u) /\ Child(u, "right", Sentinel) = Callback
  <2>1. Child(t, "left", Sentinel) \in Spots(t) /\ Child(t, "right", Sentinel) = Callback
    BY DEF Sound, Root, Child
  <2>2. P = Sentinel => Q = "left"
    BY <1>2, <1>7, <2>1, Distinct DEF Side
  <2>3. Sentinel \in Spots(t) /\ Sentinel # n /\ Sentinel # x
    BY <1>2, <1>3 DEF Spots
  <2>4. Child(u, "left", Sentinel) \in Spots(u) /\ Child(u, "right", Sentinel) = Callback
    BY <1>2, <1>6, <1>7, <1>14, <2>1, <2>2, <2>3, Sides DEF Side
  <2>5. QED
    BY <2>4 DEF Root, Child
<1>21. Sound(u)
  BY <1>15, <1>16, <1>17, <1>18, <1>19, <1>20 DEF Sound
<1>22. Ranked(u)
  <2> DEFINE f == [m \in All |-> IF m = x THEN r[n] ELSE r[m]]
  <2>1. /\ r \in [All -> Nat] /\ \A d \in In(t) : t.parent[d] # Sentinel => r[d] < r[t.parent[d]]
        /\ f \in [All -> Nat]
    BY <1>1, <1>2 DEF RankedBy
  <2>2. ASSUME NEW m \in In(u), u.parent[m] # Sentinel PROVE f[m] < f[u.parent[m]]
    <3>1. CASE m = x
      BY <1>2, <1>3, <1>5, <2>1, <2>2, <3>1 DEF P
    <3>2. CASE m # x
      <4>1. m \in In(t) /\ m # n /\ m \in All /\ t.parent[m] \in Spots(t) /\ t.parent[m] \in All /\ t.parent[m] # x
        BY <1>3, <1>8, <1>10, <1>13, <3>2
      <4>2. u.parent[m] = IF t.parent[m] = n THEN x ELSE t.parent[m]
        BY <1>12, <4>1
      <4>3. t.parent[m] # Sentinel
        BY <1>2, <2>2, <4>2
      <4>4. f[m] = r[m] /\ f[u.parent[m]] = r[t.parent[m]]
        BY <1>3, <3>2, <4>1, <4>2
      <4> HIDE DEF f
      <4>5. QED
        BY <2>1, <4>1, <4>3, <4>4
    <3>3. QED
      BY <3>1, <3>2
  <2> HIDE DEF f
  <2>3. QED
    BY <2>1, <2>2 DEF Ranked, RankedBy
<1>23. ASSUME NEW h, NEW p, NEW sd, Balanced(t, h, p, sd), p # x
       PROVE  \E g : Balanced(u, g, IF p = n THEN x ELSE p, sd)
  <2> DEFINE g == [m \in All |-> IF m = x THEN h[n] ELSE h[m]]
             e == IF p = n THEN x ELSE p
  <2>1. /\ h \in [All -> Nat] /\ h[Sentinel] = 0
        /\ \A m \in In(t), y \in Side :
             h[m] = h[Child(t, y, m)] + Count(t, Child(t, y, m)) + Extra(p, sd, m, y)
    BY <1>23 DEF Balanced
  <2>2. g \in [All -> Nat] /\ g[Sentinel] = 0 /\ \A m \in All : g[m] = IF m = x THEN h[n] ELSE h[m]
    BY <1>2, <1>3, <1>7, <2>1
  <2> HIDE DEF g
  <2>3. \A m \in All : m # n => Count(u, m) = IF m = x THEN Count(t, n) ELSE Count(t, m)
    BY DEF Replaced, Count, Black
  <2>4. ASSUME NEW m \in In(u), NEW y \in Side
        PROVE  g[m] = g[Child(u, y, m)] + Count(u, Child(u, y, m)) + Extra(e, sd, m, y)
    <3>1. CASE m = x
      <4> DEFINE d == Child(t, y, n)
      <4>1. d \in All /\ d # x /\ d # n /\ Child(u, y, m) = d
        BY <1>2, <1>3, <1>4, <1>6, <3>1
      <4>2. g[m] = h[n] /\ g[d] = h[d] /\ Count(u, d) = Count(t, d)
        BY <1>3, <2>2, <2>3, <3>1, <4>1
      <4>3. h[n] = h[d] + Count(t, d) + Extra(p, sd, n, y)
        BY <2>1
      <4>4. Extra(e, sd, m, y) = Extra(p, sd, n, y)
        BY <1>3, <1>23, <3>1 DEF Extra
      <4> HIDE DEF d
      <4>5. QED
        BY <4>1, <4>2, <4>3, <4>4
    <3>2. CASE m # x
      <4>1. m \in In(t) /\ m # n /\ m \in All /\ m \in Spots(t) /\ g[m] = h[m]
        BY <1>8, <1>13, <2>2, <3>2
      <4>2. h[m] = h[Child(t, y, m)] + Count(t, Child(t, y, m)) + Extra(p, sd, m, y)
        BY <2>1, <4>1
      <4>3. Extra(e, sd, m, y) = Extra(p, sd, m, y)
        BY <3>2, <4>1 DEF Extra
      <4>4. CASE m = P /\ y = Q
        <5>1. Child(u, y, m) = x /\ Child(t, y, m) = n
          BY <1>2, <1>6, <3>2, <4>1, <4>4
        <5>2. g[x] = h[n] /\ Count(u, x) = Count(t, n)
          BY <1>3, <2>2, <2>3
        <5>3. QED
          BY <4>1, <4>2, <4>3, <5>1, <5>2
      <4>5. CASE ~ (m = P /\ y = Q)
        <5> DEFINE d == Child(t, y, m)
        <5>1. Child(u, y, m) = d /\ d # n /\ d \in All /\ d # x
          BY <1>2, <1>3, <1>6, <1>10, <3>2, <4>1, <4>5 DEF Sound
        <5>2. g[d] = h[d] /\ Count(u, d) = Count(t, d)
          BY <2>2, <2>3, <5>1
        <5> HIDE DEF d
        <5>3. QED
          BY <4>1, <4>2, <4>3, <5>1, <5>2 DEF d
      <4>6. QED
        BY <4>4, <4>5
    <3>3. QED
      BY <3>1, <3>2
  <2>5. QED
    BY <2>2, <2>4 DEF Balanced
<1>24. QED
  BY <1>13, <1>21, <1>22, <1>23

\* What hanging a red node x, in no tree, below the place p makes of the links.
Added(t, u, x, p, s) ==
    /\ u \in Trees
    /\ \A m \in All : u.parent[m] = IF m = x THEN p ELSE t.parent[m]
    /\ \A m \in All, y \in Side :
         Child(u, y, m) = IF m = x THEN Sentinel ELSE IF m = p /\ y = s THEN x ELSE Child(t, y, m)
    /\ \A m \in All : u.color[m] = IF m = x THEN "red" ELSE t.color[m]

\* It keeps the links in agreement, and the heights.
LEMMA AddedSound ==
  ASSUME NEW t \in Trees, Sound(t), Ranked(t), NEW x \in Node \ In(t), NEW p \in Spots(t), NEW s \in Side,
         Child(t, s, p) = Sentinel, t.color[Sentinel] = "black", NEW u, Added(t, u, x, p, s)
  PROVE  /\ In(u) = In(t) \union {x} /\ Sound(u) /\ Ranked(u)
         /\ \A h : Balanced(t, h, Null, "left") => \E g : Balanced(u, g, Null, "left")
<1>1. PICK r : RankedBy(t, r)
  BY DEF Ranked
<1>2. Sentinel \in All /\ Node \subseteq All /\ Sentinel # Null /\ Null \notin All /\ Sentinel \notin In(t)
      /\ Null # Callback
  BY Distinct DEF In
<1>3. \A m \in In(t) : /\ m \in All /\ m \in Node /\ m # Sentinel /\ m # Null /\ m # x /\ m \in Spots(t)
                       /\ t.parent[m] \in Spots(t) /\ SideOf(t, m) \in Side
                       /\ Child(t, SideOf(t, m), t.parent[m]) = m
                       /\ \A y \in Side : Child(t, y, m) \in Spots(t)
  BY LinkFacts DEF Spots
<1>4. Spots(t) \subseteq All /\ \A m \in Spots(t) : m # Sentinel => m \in In(t)
  BY <1>2, <1>3 DEF Spots
<1>5. x \in All /\ x # Sentinel /\ x \notin Spots(t) /\ x # p /\ p \in All /\ x # Null /\ p # Null
  BY <1>2, <1>4, Distinct DEF Spots
<1>6. \A m \in All : u.parent[m] = IF m = x THEN p ELSE t.parent[m]
  BY DEF Added
<1>7. \A m \in All, y \in Side :
        Child(u, y, m) = IF m = x THEN Sentinel ELSE IF m = p /\ y = s THEN x ELSE Child(t, y, m)
  BY DEF Added
<1>8. In(u) = In(t) \union {x}
  <2>1. \A m \in Node : u.parent[m] # Null <=> t.parent[m] # Null \/ m = x
    BY <1>2, <1>5, <1>6
  <2>2. QED
    BY <2>1 DEF In
<1>9. Spots(u) = Spots(t) \union {x}
  BY <1>8 DEF Spots
<1>10. \A m \in In(t) : t.parent[m] = p => SideOf(t, m) # s
  BY <1>3
<1>11. ASSUME NEW m \in In(u)
       PROVE  u.parent[m] \in Spots(u) /\ \E y \in Side : Child(u, y, u.parent[m]) = m
  <2>1. CASE m = x
    <3>1. u.parent[m] = p /\ Child(u, s, p) = m
      BY <1>5, <1>6, <1>7, <2>1
    <3>2. QED
      BY <1>9, <3>1
  <2>2. CASE m # x
    <3> DEFINE d == t.parent[m]
               y == SideOf(t, m)
    <3>1. d \in Spots(t) /\ d \in All /\ y \in Side /\ Child(t, y, d) = m /\ u.parent[m] = d /\ d # x
          /\ (d = p => y # s)
      BY <1>3, <1>4, <1>5, <1>6, <1>8, <1>10, <2>2
    <3> HIDE DEF d, y
    <3>2. Child(u, y, d) = m
      BY <1>7, <3>1
    <3>3. QED
      BY <1>9, <3>1, <3>2
  <2>3. QED
    BY <2>1, <2>2
<1>12. ASSUME NEW m \in Spots(u), NEW y \in Side, Child(u, y, m) \in In(u)
       PROVE  u.parent[Child(u, y, m)] = m
  <2>1. CASE m = x
    BY <1>2, <1>5, <1>7, <1>8, <1>12, <2>1
  <2>2. CASE m # x /\ m = p /\ y = s
    BY <1>5, <1>6, <1>7, <2>2
  <2>3. CASE m # x /\ ~ (m = p /\ y = s)
    <3> DEFINE d == Child(t, y, m)
    <3>1. Child(u, y, m) = d /\ m \in Spots(t)
      BY <1>4, <1>7, <1>9, <2>3
    <3>2. d # x
      <4>1. m = Sentinel => d \in Spots(t) \union {Callback}
        BY DEF Sound, Root, Child, Side
      <4>2. m \in In(t) => d \in Spots(t)
        BY <1>3
      <4>3. x # Callback
        BY <1>5, Distinct
      <4>4. QED
        BY <1>4, <1>5, <3>1, <4>1, <4>2, <4>3
    <3>3. d \in In(t) /\ t.parent[d] = m
      BY <1>8, <1>12, <3>1, <3>2 DEF Sound
    <3> HIDE DEF d
    <3>4. QED
      BY <1>3, <1>6, <3>1, <3>3
  <2>4. QED
    BY <2>1, <2>2, <2>3
<1>13. ASSUME NEW m \in In(u), NEW y \in Side PROVE Child(u, y, m) \in Spots(u)
  <2>1. CASE m = x
    BY <1>5, <1>7, <1>9, <2>1 DEF Spots
  <2>2. CASE m # x
    BY <1>3, <1>7, <1>8, <1>9, <2>2
  <2>3. QED
    BY <2>1, <2>2
<1>14. ASSUME NEW m \in Node \ In(u), NEW y \in Side PROVE Child(u, y, m) = Null
  <2>1. m \in Node \ In(t) /\ m \in All /\ Child(t, y, m) = Null /\ m # x
    BY <1>2, <1>8 DEF Sound
  <2>2. m # p
    BY <1>4, <2>1, Distinct
  <2>3. QED
    BY <1>7, <2>1, <2>2
<1>15. ASSUME NEW m \in In(u), Child(u, "left", m) = Child(u, "right", m)
       PROVE  Child(u, "left", m) = Sentinel
  <2>1. CASE m = x
    BY <1>5, <1>7, <2>1 DEF Side
  <2>2. CASE m # x
    <3>1. m \in In(t) /\ m \in All /\ \A y \in Side : Child(t, y, m) \in Spots(t) /\ Child(t, y, m) # x
      BY <1>3, <1>5, <1>8, <2>2
    <3>2. Child(t, "left", m) = Child(t, "right", m) => Child(t, "left", m) = Sentinel
      BY <3>1 DEF Sound
    <3>3. QED
      BY <1>7, <1>15, <2>2, <3>1, <3>2 DEF Side
  <2>3. QED
    BY <2>1, <2>2
<1>16. Root(u) \in Spots(u) /\ Child(u, "right", Sentinel) = Callback
  <2>1. Child(t, "left", Sentinel) \in Spots(t) /\ Child(t, "right", Sentinel) = Callback
    BY DEF Sound, Root, Child
  <2>2. p = Sentinel => s = "left"
    BY <2>1, Distinct DEF Side
  <2>3. Child(u, "left", Sentinel) \in Spots(u) /\ Child(u, "right", Sentinel) = Callback
    BY <1>2, <1>5, <1>7, <1>9, <2>1, <2>2 DEF Side
  <2>4. QED
    BY <2>3 DEF Root, Child
<1>17. Sound(u)
  BY <1>11, <1>12, <1>13, <1>14, <1>15, <1>16 DEF Sound
<1>18. Ranked(u)
  <2> DEFINE f == [m \in All |-> IF m = x THEN 0 ELSE r[m] + 1]
  <2>1. /\ r \in [All -> Nat] /\ \A d \in In(t) : t.parent[d] # Sentinel => r[d] < r[t.parent[d]]
        /\ f \in [All -> Nat]
    BY <1>1 DEF RankedBy
  <2>2. ASSUME NEW m \in In(u), u.parent[m] # Sentinel PROVE f[m] < f[u.parent[m]]
    <3>1. CASE m = x
      BY <1>5, <1>6, <2>1, <3>1
    <3>2. CASE m # x
      <4>1. m \in In(t) /\ m \in All /\ t.parent[m] \in Spots(t) /\ t.parent[m] \in All /\ t.parent[m] # x
            /\ u.parent[m] = t.parent[m]
        BY <1>3, <1>4, <1>5, <1>6, <1>8, <3>2
      <4>2. f[m] = r[m] + 1 /\ f[t.parent[m]] = r[t.parent[m]] + 1
        BY <3>2, <4>1
      <4>3. r[m] < r[t.parent[m]] /\ r[m] \in Nat /\ r[t.parent[m]] \in Nat
        BY <2>1, <2>2, <4>1
      <4> HIDE DEF f
      <4>4. QED
        BY <4>1, <4>2, <4>3
    <3>3. QED
      BY <3>1, <3>2
  <2> HIDE DEF f
  <2>3. QED
    BY <2>1, <2>2 DEF Ranked, RankedBy
<1>19. ASSUME NEW h, Balanced(t, h, Null, "left") PROVE \E g : Balanced(u, g, Null, "left")
  <2> DEFINE g == [m \in All |-> IF m = x THEN 1 ELSE h[m]]
  <2>1. /\ h \in [All -> Nat] /\ h[Sentinel] = 0
        /\ \A m \in In(t), y \in Side :
             h[m] = h[Child(t, y, m)] + Count(t, Child(t, y, m)) + Extra(Null, "left", m, y)
    BY <1>19 DEF Balanced
  <2>2. g \in [All -> Nat] /\ g[Sentinel] = 0 /\ \A m \in All : g[m] = IF m = x THEN 1 ELSE h[m]
    BY <1>5, <1>2, <2>1
  <2> HIDE DEF g
  <2>3. \A m \in All : Count(u, m) = IF m = x THEN 0 ELSE Count(t, m)
    BY DEF Added, Count, Black
  <2>4. Count(t, Sentinel) = 1 /\ \A y \in Side : Extra(Null, "left", x, y) = 0
    BY <1>5 DEF Count, Black, Extra
  <2>5. ASSUME NEW m \in In(u), NEW y \in Side
        PROVE  g[m] = g[Child(u, y, m)] + Count(u, Child(u, y, m)) + Extra(Null, "left", m, y)
    <3>1. CASE m = x
      BY <1>2, <1>5, <1>7, <2>2, <2>3, <2>4, <3>1
    <3>2. CASE m # x
      <4>1. m \in In(t) /\ m \in All /\ g[m] = h[m]
            /\ h[m] = h[Child(t, y, m)] + Count(t, Child(t, y, m)) + Extra(Null, "left", m, y)
        BY <1>3, <1>8, <2>1, <2>2, <3>2
      <4>2. CASE m = p /\ y = s
        <5>1. Child(u, y, m) = x /\ Child(t, y, m) = Sentinel
          BY <1>5, <1>7, <3>2, <4>2
        <5>2. h[m] = 0 + 1 + Extra(Null, "left", m, y) /\ g[x] = 1 /\ Count(u, x) = 0
          BY <1>5, <2>1, <2>2, <2>3, <2>4, <4>1, <5>1
        <5>3. Extra(Null, "left", m, y) \in Nat
          BY DEF Extra
        <5>4. QED
          BY <4>1, <5>1, <5>2, <5>3
      <4>3. CASE ~ (m = p /\ y = s)
        <5> DEFINE d == Child(t, y, m)
        <5>1. Child(u, y, m) = d /\ d \in All /\ d # x
          BY <1>3, <1>4, <1>5, <1>7, <3>2, <4>1, <4>3
        <5>2. g[d] = h[d] /\ Count(u, d) = Count(t, d)
          BY <2>2, <2>3, <5>1
        <5> HIDE DEF d
        <5>3. QED
          BY <4>1, <5>1, <5>2 DEF d
      <4>4. QED
        BY <4>2, <4>3
    <3>3. QED
      BY <3>1, <3>2
  <2>6. QED
    BY <2>2, <2>5 DEF Balanced
<1>20. QED
  BY <1>8, <1>17, <1>18, <1>19

-----------------------------------------------------------------------------
(* Ways down.                                                              *)

\* js_rbtree_branch_min ends at a node without a left child.
LEMMA BranchMinIs ==
  ASSUME tree \in Trees, Sound(tree), Ranked(tree), NEW top \in In(tree)
  PROVE  /\ BranchMin(tree, top) \in In(tree) /\ Child(tree, "left", BranchMin(tree, top)) = Sentinel
         /\ \A r : RankedBy(tree, r) => r[BranchMin(tree, top)] <= r[top]
         /\ \A T \in SUBSET In(tree) :
              top \in T /\ (\A n \in T : Child(tree, "left", n) # Sentinel => Child(tree, "left", n) \in T)
              => BranchMin(tree, top) \in T
<1> DEFINE S == Linked
           left == [n \in S |-> Child(tree, "left", n)]
           E == {n \in S : Child(tree, "left", n) = Sentinel}
           g(f) == [n \in S |-> IF Child(tree, "left", n) = Sentinel THEN n ELSE f[Child(tree, "left", n)]]
           min == CHOOSE f : f = g(f)
<1>1. Linked = Spots(tree) /\ InTree = In(tree)
  BY DEF Linked, InTree, Spots, In
<1>2. \A n \in S : Child(tree, "left", n) \in S
  BY <1>1, Sides DEF Sound, Spots, Root, Child, Side
<1>3. BranchMin(tree, top) = min[top]
  BY DEF BranchMin
<1>4. \A f : g(f) = [n \in S |-> IF n \in E THEN n ELSE f[left[n]]]
  OBVIOUS
<1>5. \A n \in S : n \notin E => left[n] \in S
  BY <1>2
<1>6. \E f : f = [n \in S |-> IF n \in E THEN n ELSE f[left[n]]]
  <2>1. \E f : Walk(S, E, left, f)
    <3> HIDE DEF S, E, left
    <3>1. QED
      BY <1>5, WalkExists
  <2>2. QED
    BY <2>1, Zenon DEF Walk
<1>7. \E f : f = g(f)
  BY <1>4, <1>6
<1>8. min = g(min)
  <2> HIDE DEF g
  <2>1. QED
    BY <1>7
<1> HIDE DEF min
<1>9. min = [n \in S |-> IF n \in E THEN n ELSE min[left[n]]]
  BY <1>4, <1>8
<1>10. ASSUME NEW r, RankedBy(tree, r)
       PROVE  /\ \A n \in In(tree) : r[n] \in Nat
              /\ \A n \in In(tree) : n \notin E => left[n] \in In(tree) /\ r[left[n]] < r[n]
  <2>1. \A n \in In(tree) : r[n] \in Nat
    BY <1>1, <1>10, LinkFacts DEF RankedBy
  <2>2. ASSUME NEW n \in In(tree), n \notin E
        PROVE  left[n] \in In(tree) /\ r[left[n]] < r[n]
    <3> DEFINE c == Child(tree, "left", n)
    <3>1. n \in S /\ left[n] = c /\ c \in S /\ c # Sentinel
      BY <1>1, <1>2, <2>2 DEF Spots
    <3>2. c \in In(tree)
      BY <1>1, <3>1 DEF Spots
    <3>3. tree.parent[c] = n /\ n # Sentinel
      BY <1>1, <3>1, <3>2, LinkFacts DEF Sound, Side
    <3> HIDE DEF c
    <3>4. QED
      BY <1>10, <3>1, <3>2, <3>3 DEF RankedBy
  <2>3. QED
    BY <2>1, <2>2
<1>11. ASSUME NEW r, RankedBy(tree, r), NEW T \in SUBSET In(tree), top \in T,
              \A n \in T : n \notin E => left[n] \in T
       PROVE  min[top] \in T /\ min[top] \in E
  <2>1. T \in SUBSET S /\ \A n \in T : r[n] \in Nat
    BY <1>1, <1>10, <1>11 DEF Spots
  <2>2. Walk(S, E, left, min)
    BY <1>9 DEF Walk
  <2>3. \A n \in T : n \notin E => left[n] \in T /\ r[left[n]] < r[n]
    BY <1>10, <1>11
  <2> HIDE DEF S, E, left
  <2>4. QED
    BY <1>11, <2>1, <2>2, <2>3, WalkEnds
<1>12. ASSUME NEW r, RankedBy(tree, r)
       PROVE  r[min[top]] <= r[top]
  <2> DEFINE T == {n \in In(tree) : r[n] <= r[top]}
  <2>1. T \in SUBSET In(tree) /\ top \in T
    BY <1>10, <1>12
  <2>2. ASSUME NEW n \in T, n \notin E
        PROVE  left[n] \in T
    <3>1. left[n] \in In(tree) /\ r[left[n]] < r[n] /\ n \in In(tree) /\ r[n] <= r[top]
      BY <1>10, <1>12, <2>2
    <3>2. r[left[n]] \in Nat /\ r[n] \in Nat /\ r[top] \in Nat
      BY <1>10, <1>12, <3>1
    <3> HIDE DEF left
    <3>3. QED
      BY <3>1, <3>2
  <2> HIDE DEF left, E
  <2>3. min[top] \in T
    <3> HIDE DEF T
    <3>1. QED
      BY <1>11, <1>12, <2>1, <2>2
  <2>4. QED
    BY <2>3
<1>13. PICK r : RankedBy(tree, r)
  BY DEF Ranked
<1>14. min[top] \in In(tree) /\ min[top] \in E
  <2> HIDE DEF left, E
  <2>1. QED
    BY <1>10, <1>11, <1>13
<1>15. \A T \in SUBSET In(tree) :
         top \in T /\ (\A n \in T : Child(tree, "left", n) # Sentinel => Child(tree, "left", n) \in T)
         => min[top] \in T
  <2>1. \A n \in In(tree) : left[n] = Child(tree, "left", n) /\ (n \notin E => Child(tree, "left", n) # Sentinel)
    BY <1>1 DEF Spots
  <2> HIDE DEF left, E
  <2>2. QED
    BY <1>11, <1>13, <2>1
<1>16. QED
  BY <1>3, <1>12, <1>14, <1>15

\* The search of js_rbtree_insert ends at a place that is free.
LEMMA PlaceIs ==
  ASSUME tree \in Trees, Sound(tree), Ranked(tree), NEW x \in Node
  PROVE  LET p == Place(tree, x)
             s == IF p = Sentinel THEN "left" ELSE Turn(x, p)
         IN /\ p \in Spots(tree) /\ s \in Side /\ Child(tree, s, p) = Sentinel
            /\ p = Sentinel => Root(tree) = Sentinel
            /\ \A T \in SUBSET In(tree) :
                 /\ Root(tree) \in T
                 /\ \A n \in T : Child(tree, Turn(x, n), n) # Sentinel => Child(tree, Turn(x, n), n) \in T
                 => p \in T
<1> DEFINE S == InTree
           next == [n \in S |-> Child(tree, Turn(x, n), n)]
           E == {n \in S : Child(tree, Turn(x, n), n) = Sentinel}
           g(f) == [n \in S |-> IF Child(tree, Turn(x, n), n) = Sentinel
                                THEN n ELSE f[Child(tree, Turn(x, n), n)]]
           down == CHOOSE f : f = g(f)
           p == Place(tree, x)
<1>1. InTree = In(tree)
  BY DEF InTree, In
<1>2. \A n : Turn(x, n) \in Side
  BY DEF Turn, Side
<1>3. p = IF Root(tree) = Sentinel THEN Sentinel ELSE down[Root(tree)]
  BY DEF Place
<1>4. \A f : g(f) = [n \in S |-> IF n \in E THEN n ELSE f[next[n]]]
  OBVIOUS
<1>5. PICK r : RankedBy(tree, r)
  BY DEF Ranked
<1>6. ASSUME NEW n \in S, n \notin E
      PROVE  next[n] \in S /\ r[next[n]] < r[n]
  <2> DEFINE c == Child(tree, Turn(x, n), n)
  <2>1. next[n] = c /\ c \in Spots(tree) /\ c # Sentinel
    BY <1>1, <1>2, <1>6, LinkFacts
  <2>2. c \in In(tree)
    BY <2>1 DEF Spots
  <2>3. tree.parent[c] = n /\ n # Sentinel
    BY <1>1, <1>2, <2>1, <2>2, LinkFacts DEF Sound, Spots
  <2> HIDE DEF c
  <2>4. QED
    BY <1>1, <1>5, <2>1, <2>2, <2>3 DEF RankedBy
<1>7. \E f : f = [n \in S |-> IF n \in E THEN n ELSE f[next[n]]]
  <2>1. \E f : Walk(S, E, next, f)
    <3> HIDE DEF S, E, next
    <3>1. QED
      BY <1>6, WalkExists
  <2>2. QED
    BY <2>1, Zenon DEF Walk
<1>8. \E f : f = g(f)
  BY <1>4, <1>7
<1>9. down = g(down)
  <2> HIDE DEF g
  <2>1. QED
    BY <1>8
<1> HIDE DEF down
<1>10. down = [n \in S |-> IF n \in E THEN n ELSE down[next[n]]]
  BY <1>4, <1>9
<1>11. \A n \in S : r[n] \in Nat
  BY <1>1, <1>5, LinkFacts DEF RankedBy
<1>12. ASSUME NEW T \in SUBSET S, \A n \in T : n \notin E => next[n] \in T
       PROVE  \A n \in T : down[n] \in T /\ down[n] \in E
  <2> HIDE DEF S, E, next
  <2>1. \A n \in T : r[n] \in Nat
    BY <1>11
  <2>2. Walk(S, E, next, down)
    BY <1>10 DEF Walk
  <2>3. QED
    BY <1>6, <1>12, <2>1, <2>2, WalkEnds
<1>13. CASE Root(tree) = Sentinel
  BY <1>1, <1>3, <1>13, Distinct DEF Spots, Root, Child, Side, In
<1>14. CASE Root(tree) # Sentinel
  <2>1. Root(tree) \in S
    BY <1>1, <1>14 DEF Sound, Spots
  <2>2. p \in S /\ p \in E
    <3>1. \A n \in S : n \notin E => next[n] \in S
      BY <1>6
    <3> HIDE DEF S, E, next
    <3>2. QED
      BY <1>3, <1>12, <1>14, <2>1, <3>1
  <2>3. p # Sentinel /\ p \in Spots(tree)
    BY <1>1, <2>2, LinkFacts DEF Spots
  <2>4. \A T \in SUBSET In(tree) :
          /\ Root(tree) \in T
          /\ \A n \in T : Child(tree, Turn(x, n), n) # Sentinel => Child(tree, Turn(x, n), n) \in T
          => p \in T
    <3>1. \A n \in S : next[n] = Child(tree, Turn(x, n), n) /\ (n \notin E => Child(tree, Turn(x, n), n) # Sentinel)
      OBVIOUS
    <3> HIDE DEF E, next
    <3>2. QED
      BY <1>1, <1>3, <1>12, <1>14, <3>1
  <2>5. QED
    BY <1>2, <2>2, <2>3, <2>4
<1>15. QED
  BY <1>13, <1>14

-----------------------------------------------------------------------------
(* What the operations write, in these terms.                              *)

\* A node without links, as a deletion leaves it.
Cleared(t, x) == [t EXCEPT !.child.left[x] = Null, !.child.right[x] = Null, !.parent[x] = Null,
                           !.color[x] = "black"]

\* The last writes of js_rbtree_delete: the deleted node forgets its links.
LEMMA ClearedIs ==
  ASSUME NEW t \in Trees, NEW x \in All
  PROVE  LET u == Cleared(t, x)
         IN /\ u \in Trees
            /\ \A m \in All : u.parent[m] = IF m = x THEN Null ELSE t.parent[m]
            /\ \A m \in All, y \in Side : Child(u, y, m) = IF m = x THEN Null ELSE Child(t, y, m)
            /\ \A m \in All : m # x => u.color[m] = t.color[m]
BY Sides DEF Cleared, Trees, Child, Side

\* The first part of js_rbtree_delete: the node without a left or a right child.
LEMMA SplicedIs ==
  ASSUME NEW t \in Trees, NEW x \in In(t), t.parent[x] \in All, NEW o \in All, o # x
  PROVE  Spliced(t, Cleared(ParentRelink(t, o, x), x), x, o)
<1> DEFINE f == ParentRelink(t, o, x)
           u == Cleared(f, x)
<1>1. x \in All
  BY Distinct DEF In
<1>2. /\ f \in Trees /\ f.color = t.color
      /\ \A m \in All : f.parent[m] = IF m = o THEN t.parent[x] ELSE t.parent[m]
      /\ \A m \in All, s \in Side :
           Child(f, s, m) = IF m = t.parent[x] /\ s = SideOf(t, x) THEN o ELSE Child(t, s, m)
  BY <1>1, RelinkIs
<1> HIDE DEF f
<1>3. /\ u \in Trees
      /\ \A m \in All : u.parent[m] = IF m = x THEN Null ELSE f.parent[m]
      /\ \A m \in All, y \in Side : Child(u, y, m) = IF m = x THEN Null ELSE Child(f, y, m)
      /\ \A m \in All : m # x => u.color[m] = f.color[m]
  BY <1>1, <1>2, ClearedIs
<1> HIDE DEF u
<1>4. Spliced(t, u, x, o)
  BY <1>2, <1>3 DEF Spliced
<1>5. QED
  BY <1>4 DEF u, f

\* The second part: its successor, which has left its place, takes the node's.
LEMMA ReplacedIs ==
  ASSUME NEW f \in Trees, NEW x \in Node, NEW t, t = Cleared(f, x), Sound(t), Ranked(t),
         NEW n \in In(t)
  PROVE  Replaced(t, Cleared(TakePlace(f, x, n), n), n, x)
<1> DEFINE l == Child(f, "left", n)
           r == Child(f, "right", n)
           P == f.parent[n]
           moved == [f EXCEPT !.color[x] = f.color[n],
                              !.child.left[x] = l, !.parent[l] = x,
                              !.child.right[x] = r, !.parent[r] = x]
           v == ParentRelink(moved, x, n)
           u == Cleared(v, n)
<1>1. TakePlace(f, x, n) = v
  BY DEF TakePlace
<1>2. x \in All /\ x # Null
  BY Distinct
<1>3. /\ t \in Trees
      /\ \A m \in All : t.parent[m] = IF m = x THEN Null ELSE f.parent[m]
      /\ \A m \in All, y \in Side : Child(t, y, m) = IF m = x THEN Null ELSE Child(f, y, m)
      /\ \A m \in All : m # x => t.color[m] = f.color[m]
  BY <1>2, ClearedIs
<1>4. n \in All /\ n # x /\ P = t.parent[n]
      /\ \A y \in Side : Child(f, y, n) = Child(t, y, n)
  BY <1>2, <1>3, Distinct DEF In
<1>5. x \notin Spots(t)
  BY <1>2, <1>3, Distinct DEF In, Spots
<1>6. /\ P \in All /\ P # x
      /\ \A y \in Side : Child(f, y, n) \in All /\ Child(f, y, n) \in Spots(t) /\ Child(f, y, n) # x
  BY <1>3, <1>4, <1>5, LinkFacts
<1>7. l \in All /\ r \in All /\ l # n /\ r # n /\ P # n
  <2>1. PICK k : RankedBy(t, k)
    BY DEF Ranked
  <2>2. n # Sentinel /\ k[n] \in Nat /\ P # n
    BY <1>3, <1>4, <2>1, LinkFacts DEF RankedBy
  <2>3. \A y \in Side : Child(t, y, n) # n
    BY <1>4, <2>2 DEF Sound, Spots
  <2>4. QED
    BY <1>4, <1>6, <2>2, <2>3 DEF Side
<1> HIDE DEF P
<1>8. /\ moved \in Trees /\ moved.color = [f.color EXCEPT ![x] = f.color[n]]
      /\ \A m \in All : moved.parent[m] = IF m = l \/ m = r THEN x ELSE f.parent[m]
      /\ \A m \in All : Child(moved, "left", m) = IF m = x THEN l ELSE Child(f, "left", m)
      /\ \A m \in All : Child(moved, "right", m) = IF m = x THEN r ELSE Child(f, "right", m)
  <2> HIDE DEF l, r
  <2>1. QED
    BY <1>2, <1>4, <1>7 DEF Trees, Child, Side
<1> HIDE DEF moved
<1>9. /\ \A m \in All : (m = l \/ m = r) <=> \E y \in Side : m = Child(t, y, n)
      /\ \A m \in All, y \in Side :
           Child(moved, y, m) = IF m = x THEN Child(t, y, n) ELSE Child(f, y, m)
  BY <1>4, <1>8 DEF Side
<1>10. moved.parent[n] = P /\ SideOf(moved, n) = SideOf(t, n)
  <2>1. moved.parent[n] = P
    BY <1>4, <1>7, <1>8 DEF P
  <2>2. Child(moved, "left", P) = Child(t, "left", P)
    BY <1>3, <1>6, <1>8, Sides DEF Side
  <2>3. QED
    BY <1>4, <2>1, <2>2 DEF SideOf
<1> HIDE DEF l, r
<1>11. /\ v \in Trees /\ v.color = moved.color
       /\ \A m \in All : v.parent[m] = IF m = x THEN P ELSE moved.parent[m]
       /\ \A m \in All, y \in Side :
            Child(v, y, m) = IF m = P /\ y = SideOf(t, n) THEN x ELSE Child(moved, y, m)
  BY <1>2, <1>4, <1>6, <1>8, <1>10, RelinkIs
<1> HIDE DEF v
<1>12. /\ u \in Trees
       /\ \A m \in All : u.parent[m] = IF m = n THEN Null ELSE v.parent[m]
       /\ \A m \in All, y \in Side : Child(u, y, m) = IF m = n THEN Null ELSE Child(v, y, m)
       /\ \A m \in All : m # n => u.color[m] = v.color[m]
  BY <1>4, <1>11, ClearedIs
<1> HIDE DEF u
<1>13. ASSUME NEW m \in All
       PROVE  u.parent[m] = IF m = n THEN Null ELSE IF m = x THEN t.parent[n]
                            ELSE IF \E y \in Side : m = Child(t, y, n) THEN x ELSE t.parent[m]
  BY <1>3, <1>4, <1>8, <1>9, <1>11, <1>12
<1>14. ASSUME NEW m \in All, NEW y \in Side
       PROVE  Child(u, y, m) = IF m = n THEN Null ELSE IF m = x THEN Child(t, y, n)
                               ELSE IF m = t.parent[n] /\ y = SideOf(t, n) THEN x ELSE Child(t, y, m)
  BY <1>3, <1>4, <1>6, <1>9, <1>11, <1>12
<1>15. ASSUME NEW m \in All, m # n
       PROVE  u.color[m] = IF m = x THEN t.color[n] ELSE t.color[m]
  BY <1>3, <1>4, <1>8, <1>11, <1>12, <1>15 DEF Trees
<1>16. Replaced(t, u, n, x)
  BY <1>12, <1>13, <1>14, <1>15 DEF Replaced
<1>17. QED
  BY <1>1, <1>16 DEF u, v

\* js_rbtree_insert up to its fix-up.
LEMMA AddedIs ==
  ASSUME NEW t \in Trees, NEW x \in Node, NEW p \in All, p # x, NEW s \in Side
  PROVE  Added(t, [t EXCEPT !.child.left[x] = Sentinel,
                            !.child.right[x] = Sentinel,
                            !.color[x] = "red",
                            !.child[s][p] = x,
                            !.parent[x] = p], x, p, s)
<1> DEFINE u == [t EXCEPT !.child.left[x] = Sentinel,
                          !.child.right[x] = Sentinel,
                          !.color[x] = "red",
                          !.child[s][p] = x,
                          !.parent[x] = p]
<1>1. x \in All /\ Sentinel \in All
  BY Distinct
<1>2. u \in Trees
  BY <1>1, ZenonT(30) DEF Trees, Side
<1>3. \A m \in All : u.parent[m] = IF m = x THEN p ELSE t.parent[m]
  BY <1>1 DEF Trees
<1>4. \A m \in All : u.color[m] = IF m = x THEN "red" ELSE t.color[m]
  BY <1>1 DEF Trees
<1>5. \A m \in All, y \in Side :
        Child(u, y, m) = IF m = x THEN Sentinel ELSE IF m = p /\ y = s THEN x ELSE Child(t, y, m)
  BY <1>1, ZenonT(30) DEF Trees, Child, Side
<1>6. QED
  BY <1>2, <1>3, <1>4, <1>5 DEF Added

-----------------------------------------------------------------------------
(* The invariant.                                                          *)

\* Every way up ends at the root.
Grounded(t) == \A T \in SUBSET In(t) : (\A n \in T : t.parent[n] \in T) => T = {}

Shape(t) ==
    /\ t \in Trees
    /\ Sound(t)
    /\ Ranked(t)
    /\ Grounded(t)
    /\ t.color[Sentinel] = "black"

\* The node and its parent are not both red.
Apart(t, n) == Black(t, n) \/ Black(t, t.parent[n])

\* Between two operations.
Whole(t) ==
    /\ \E h : Balanced(t, h, Null, "left")
    /\ \A n \in In(t) : Apart(t, n)
    /\ Black(t, Root(t))

\* In js_rbtree_insert_fixup: the node a is red, and so may its parent be.
Inserting(t, a) ==
    /\ a \in In(t)
    /\ ~Black(t, a)
    /\ \E h : Balanced(t, h, Null, "left")
    /\ \A n \in In(t) : Apart(t, n) \/ n = a
    /\ Black(t, Root(t)) \/ a = Root(t)

\* In js_rbtree_delete_fixup: the node a, which may be the sentinel, is one black node short.
Deleting(t, a) ==
    /\ a \in Spots(t)
    /\ t.parent[a] \in Spots(t)
    /\ Child(t, SideOf(t, a), t.parent[a]) = a
    /\ \E h : Balanced(t, h, t.parent[a], SideOf(t, a))
    /\ \A n \in In(t) : Apart(t, n) \/ a = n \/ a = t.parent[n]
    /\ Black(t, Root(t)) \/ a = Root(t)

IInv ==
    /\ Shape(tree)
    /\ pc \in {"idle", "insert", "delete"}
    /\ at \in Spots(tree)
    /\ pc = "idle" => Whole(tree)
    /\ pc = "insert" => Inserting(tree, at)
    /\ pc = "delete" => Deleting(tree, at)

-----------------------------------------------------------------------------
(* The ways up, and the writes of an operation.                            *)

\* A rotation closes no way up into a cycle,
LEMMA RotatedGrounded ==
  ASSUME NEW t \in Trees, Sound(t), Ranked(t), Grounded(t), NEW n \in In(t), NEW s \in Side,
         Child(t, Other(s), n) \in In(t), NEW u, Rotated(t, u, n, s)
  PROVE  Grounded(u)
<1> DEFINE c == Child(t, Other(s), n)
           inner == Child(t, s, c)
<1>1. In(u) = In(t)
  BY RotatedSound
<1>2. t.parent[c] = n /\ (inner \in In(t) => t.parent[inner] = c)
  BY Sides DEF Sound, Spots
<1>3. \A m \in In(t) : u.parent[m] = IF m = n THEN c
                                     ELSE IF m = c THEN t.parent[n]
                                     ELSE IF m = inner THEN n ELSE t.parent[m]
  BY Distinct DEF Rotated, In
<1> HIDE DEF c, inner
<1>4. c \in In(t)
  BY DEF c
<1>5. ASSUME NEW T \in SUBSET In(u), \A m \in T : u.parent[m] \in T
      PROVE  T = {}
  <2> DEFINE V == IF c \in T THEN T \union {n} ELSE T
  <2>1. V \in SUBSET In(t)
    BY <1>1
  <2>2. ASSUME NEW m \in V
        PROVE  t.parent[m] \in V
    BY <1>1, <1>2, <1>3, <1>4, <1>5
  <2>3. V = {}
    BY <2>1, <2>2 DEF Grounded
  <2>4. QED
    BY <2>3
<1>6. QED
  BY <1>5 DEF Grounded

\* nor does the relink that takes a node out,
LEMMA SplicedGrounded ==
  ASSUME NEW t \in Trees, Sound(t), Ranked(t), Grounded(t), NEW x \in In(t), NEW z \in Side,
         Child(t, z, x) = Sentinel, NEW o, o = Child(t, Other(z), x),
         NEW u, Spliced(t, u, x, o)
  PROVE  Grounded(u)
<1>1. In(u) = In(t) \ {x}
  BY SplicedSound
<1>2. o \in In(t) => t.parent[o] = x
  BY Sides DEF Sound, Spots
<1>3. \A m \in In(u) : u.parent[m] = IF m = o THEN t.parent[x] ELSE t.parent[m]
  BY <1>1, Distinct DEF Spliced, In
<1>4. ASSUME NEW T \in SUBSET In(u), \A m \in T : u.parent[m] \in T
      PROVE  T = {}
  <2> DEFINE V == IF o \in T THEN T \union {x} ELSE T
  <2>1. V \in SUBSET In(t)
    BY <1>1
  <2>2. \A m \in V : t.parent[m] \in V
    BY <1>1, <1>2, <1>3, <1>4
  <2>3. V = {}
    BY <2>1, <2>2 DEF Grounded
  <2>4. QED
    BY <2>3
<1>5. QED
  BY <1>4 DEF Grounded

\* nor does the node that takes the deleted one's place,
LEMMA ReplacedGrounded ==
  ASSUME NEW t \in Trees, Sound(t), Ranked(t), Grounded(t), NEW n \in In(t), NEW x \in Node \ In(t),
         NEW u, Replaced(t, u, n, x)
  PROVE  Grounded(u)
<1>1. In(u) = (In(t) \ {n}) \union {x} /\ x # n
  BY ReplacedSound
<1>2. \A m \in In(t) : (\E y \in Side : m = Child(t, y, n)) => t.parent[m] = n
  BY DEF Sound, Spots
<1>3. \A m \in In(u) : u.parent[m] = IF m = x THEN t.parent[n]
                                     ELSE IF \E y \in Side : m = Child(t, y, n) THEN x ELSE t.parent[m]
  BY <1>1, Distinct DEF Replaced, In
<1>4. ASSUME NEW T \in SUBSET In(u), \A m \in T : u.parent[m] \in T
      PROVE  T = {}
  <2> DEFINE V == IF x \in T THEN (T \ {x}) \union {n} ELSE T
  <2>1. V \in SUBSET In(t)
    BY <1>1
  <2>2. ASSUME NEW m \in V
        PROVE  t.parent[m] \in V
    <3>1. x \notin Spots(t)
      BY Distinct DEF Spots, In
    <3>2. \A k \in In(t) : t.parent[k] # x
      BY <3>1 DEF Sound
    <3>3. CASE m = n
      BY <1>1, <1>3, <1>4, <3>2, <3>3
    <3>4. CASE m # n
      <4>1. m \in T /\ m \in In(u) /\ m # x /\ m \in In(t)
        BY <1>1, <2>1, <2>2, <3>4
      <4>2. u.parent[m] \in T
        BY <1>4, <4>1
      <4>3. CASE \E y \in Side : m = Child(t, y, n)
        BY <1>2, <1>3, <4>1, <4>2, <4>3
      <4>4. CASE ~ \E y \in Side : m = Child(t, y, n)
        <5>1. t.parent[m] \in T /\ t.parent[m] # x
          BY <1>3, <3>2, <4>1, <4>2, <4>4
        <5>2. QED
          BY <5>1
      <4>5. QED
        BY <4>3, <4>4
    <3>5. QED
      BY <3>3, <3>4
  <2>3. V = {}
    BY <2>1, <2>2 DEF Grounded
  <2>4. QED
    BY <2>3
<1>5. QED
  BY <1>4 DEF Grounded

\* nor does an insertion.
LEMMA AddedGrounded ==
  ASSUME NEW t \in Trees, Sound(t), Ranked(t), Grounded(t), NEW x \in Node \ In(t), NEW p \in Spots(t),
         NEW s \in Side, Child(t, s, p) = Sentinel, t.color[Sentinel] = "black",
         NEW u, Added(t, u, x, p, s)
  PROVE  Grounded(u)
<1>1. In(u) = In(t) \union {x}
  BY AddedSound
<1>2. u.parent[x] = p /\ \A m \in In(t) : u.parent[m] = t.parent[m]
  BY Distinct DEF Added, In
<1>3. p # x /\ \A m \in In(t) : t.parent[m] # x
  BY Distinct DEF Sound, Spots, In
<1>4. ASSUME NEW T \in SUBSET In(u), \A m \in T : u.parent[m] \in T
      PROVE  T = {}
  <2>1. T \ {x} \in SUBSET In(t) /\ \A m \in T \ {x} : t.parent[m] \in T \ {x}
    BY <1>1, <1>2, <1>3, <1>4
  <2>2. T \ {x} = {}
    BY <2>1 DEF Grounded
  <2>3. x \notin T
    BY <1>2, <1>3, <1>4, <2>2
  <2>4. QED
    BY <2>2, <2>3
<1>5. QED
  BY <1>4 DEF Grounded

\* Painting and forgetting the sentinel's parent keep the shape.
LEMMA ColourOnly ==
  ASSUME NEW t, Shape(t), NEW u \in Trees, u.child = t.child, u.color[Sentinel] = "black",
         \A n \in Node : u.parent[n] = t.parent[n]
  PROVE  /\ Shape(u) /\ In(u) = In(t) /\ Spots(u) = Spots(t) /\ Root(u) = Root(t)
         /\ \A s, n : Child(u, s, n) = Child(t, s, n)
<1>1. In(u) = In(t) /\ Spots(u) = Spots(t) /\ Root(u) = Root(t) /\ \A s, n : Child(u, s, n) = Child(t, s, n)
  BY DEF In, Spots, Root, Child
<1>2. \A n \in In(t) : u.parent[n] = t.parent[n]
  BY DEF In
<1>3. Sound(u)
  <2>1. \A n \in In(u) : u.parent[n] \in Spots(u) /\ \E s \in Side : Child(u, s, u.parent[n]) = n
    BY <1>1, <1>2 DEF Shape, Sound
  <2>2. \A n \in Spots(u), s \in Side : Child(u, s, n) \in In(u) => u.parent[Child(u, s, n)] = n
    BY <1>1, <1>2 DEF Shape, Sound
  <2>3. QED
    BY <1>1, <2>1, <2>2 DEF Shape, Sound
<1>4. Ranked(u)
  BY <1>1, <1>2 DEF Shape, Ranked, RankedBy
<1>5. Grounded(u)
  BY <1>1, <1>2 DEF Shape, Grounded
<1>6. QED
  BY <1>1, <1>3, <1>4, <1>5 DEF Shape

\* A tree without a root is empty.
LEMMA Rooted ==
  ASSUME NEW t, Shape(t)
  PROVE  /\ Root(t) = Sentinel => In(t) = {}
         /\ \A n \in In(t) : t.parent[n] = Sentinel => n = Root(t) /\ SideOf(t, n) = "left"
         /\ Root(t) # Sentinel => Root(t) \in In(t) /\ t.parent[Root(t)] = Sentinel
<1>1. \A n \in In(t) : t.parent[n] = Sentinel => n = Root(t) /\ SideOf(t, n) = "left"
  <2>1. TAKE n \in In(t)
  <2>2. HAVE t.parent[n] = Sentinel
  <2>3. SideOf(t, n) \in Side /\ Child(t, SideOf(t, n), Sentinel) = n /\ n \in Node
    BY <2>2, LinkFacts DEF Shape
  <2>4. Child(t, "right", Sentinel) = Callback /\ Callback \notin Node
    BY Distinct DEF Shape, Sound, All
  <2>5. QED
    BY <2>3, <2>4 DEF Side, Root, Child
<1>2. Root(t) = Sentinel => \A n \in In(t) : t.parent[n] \in In(t)
  BY <1>1, LinkFacts DEF Shape, Spots
<1>3. Root(t) = Sentinel => In(t) = {}
  BY <1>2 DEF Shape, Grounded
<1>4. Root(t) # Sentinel => Root(t) \in In(t) /\ t.parent[Root(t)] = Sentinel
  BY DEF Shape, Sound, Spots, Root, Child, Side
<1>5. QED
  BY <1>1, <1>3, <1>4

\* The root's colour counts for no height.
LEMMA RootPainted ==
  ASSUME NEW t, Shape(t), NEW h, NEW p, NEW sd, Balanced(t, h, p, sd)
  PROVE  Balanced(Paint(t, Root(t), "black"), h, p, sd)
<1> DEFINE u == Paint(t, Root(t), "black")
<1>1. Root(t) \in All
  BY Distinct DEF Shape, Sound, Spots, In
<1>2. /\ u.child = t.child /\ u.parent = t.parent /\ u.color = [t.color EXCEPT ![Root(t)] = "black"]
  BY <1>1, PaintIs DEF Shape
<1>3. In(u) = In(t) /\ \A s, n : Child(u, s, n) = Child(t, s, n)
  BY <1>2 DEF In, Child
<1>4. ASSUME NEW n \in In(t), NEW s \in Side
      PROVE  Count(u, Child(t, s, n)) = Count(t, Child(t, s, n))
  <2> DEFINE c == Child(t, s, n)
  <2>1. c \in All /\ n # Sentinel /\ (c \in In(t) => t.parent[c] = n)
    BY <1>4, LinkFacts DEF Shape, Sound, Spots
  <2>2. c = Root(t) => c = Sentinel
    BY <2>1, Rooted
  <2>3. t.color \in [All -> {"red", "black"}] /\ t.color[Sentinel] = "black"
    BY DEF Shape, Trees
  <2> HIDE DEF c, u
  <2>4. u.color[c] = t.color[c]
    BY <1>2, <2>1, <2>2, <2>3
  <2>5. QED
    BY <2>4 DEF Count, Black, c
<1> HIDE DEF u
<1>5. QED
  BY <1>3, <1>4 DEF Balanced, u

\* The place that is a black node short, seen from below: where both children are the
\* sentinel, their heights would differ.
LEMMA HoleSide ==
  ASSUME NEW t, Shape(t), NEW h, NEW p \in Spots(t), NEW sd \in Side, Balanced(t, h, p, sd),
         NEW a \in Spots(t), Child(t, sd, p) = a, t.parent[a] = p
  PROVE  SideOf(t, a) = sd
<1>1. CASE a \in In(t)
  BY <1>1, LinkFacts DEF Shape
<1>2. CASE a = Sentinel /\ p = Sentinel
  <2>1. sd = "left"
    BY <1>2, Distinct DEF Shape, Sound, Side
  <2>2. QED
    BY <1>2, <2>1 DEF SideOf
<1>3. CASE a = Sentinel /\ p \in In(t)
  <2>1. h[p] = 0 + 1 + 1
    BY <1>3 DEF Balanced, Count, Extra, Black, Shape
  <2>2. \A s \in Side : Child(t, s, p) = Sentinel /\ s # sd => h[p] = 0 + 1 + 0
    BY <1>3 DEF Balanced, Count, Extra, Black, Shape
  <2>3. Child(t, Other(sd), p) # Sentinel
    BY <2>1, <2>2, Sides
  <2>4. QED
    BY <1>3, <2>3 DEF SideOf, Side, Other
<1>4. QED
  BY <1>1, <1>2, <1>3 DEF Spots

\* A rotation of a tree t whose colours may have changed to those of y.
Turning(t, y, u, n, s, c) ==
    /\ Rotated(y, u, n, s) /\ Shape(u) /\ In(u) = In(t) /\ Spots(u) = Spots(t) /\ u.color = y.color
    /\ u.parent[n] = c /\ u.parent[c] = t.parent[n]
    /\ \A m \in All : m \notin {n, c} => u.parent[m] = IF m = Child(t, s, c) THEN n ELSE t.parent[m]
    /\ Child(u, s, c) = n /\ Child(u, Other(s), c) = Child(t, Other(s), c)
    /\ Child(u, Other(s), n) = Child(t, s, c) /\ Child(u, s, n) = Child(t, s, n)
    /\ \A m \in Spots(t), x \in Side : m \notin {n, c} =>
         Child(u, x, m) = IF m = t.parent[n] /\ x = SideOf(t, n) THEN c ELSE Child(t, x, m)
    /\ Root(u) = IF n = Root(t) THEN c ELSE Root(t)
    /\ c # n /\ t.parent[c] = n /\ t.parent[n] \notin {n, c}
    /\ Child(t, s, n) \notin {n, c}
    /\ \A x \in Side : Child(t, x, c) \notin {n, c}

\* A rotation after a painting, with what the fix-up loops go on to read.
LEMMA Turned ==
  ASSUME NEW t, Shape(t), NEW n \in In(t), NEW s \in Side, NEW c, c = Child(t, Other(s), n), c \in In(t),
         NEW y \in Trees, y.child = t.child, y.parent = t.parent, y.color[Sentinel] = "black",
         NEW u, u = Rotate(y, n, s)
  PROVE  Turning(t, y, u, n, s, c)
<1>1. /\ In(y) = In(t) /\ Spots(y) = Spots(t) /\ Root(y) = Root(t) /\ Shape(y)
      /\ \A x, m : Child(y, x, m) = Child(t, x, m)
      /\ \A m : SideOf(y, m) = SideOf(t, m)
  BY ColourOnly, PaintedSound
<1>2. Rotated(y, u, n, s)
  BY <1>1, RotateIs DEF Shape
<1>3. Shape(u) /\ In(u) = In(t) /\ Spots(u) = Spots(t) /\ u.color = y.color
  <2>1. In(u) = In(t) /\ Sound(u) /\ Ranked(u) /\ Grounded(u)
    BY <1>1, <1>2, RotatedSound, RotatedGrounded DEF Shape
  <2>2. u \in Trees /\ u.color = y.color
    BY <1>2 DEF Rotated
  <2>3. QED
    BY <2>1, <2>2 DEF Shape, Spots
<1>4. PICK r : RankedBy(t, r)
  BY DEF Shape, Ranked
<1>5. Other(s) \in Side /\ s # Other(s) /\ n \in All /\ c \in All /\ n # Sentinel /\ c # Sentinel
  BY Sides, LinkFacts DEF Shape
<1>6. /\ c # n /\ t.parent[c] = n /\ t.parent[n] \notin {n, c}
      /\ \A x \in Side : Child(t, x, c) \notin {n, c}
  BY <1>4, <1>5, RankFacts DEF Shape
<1>7. Child(t, s, n) \notin {n, c}
  <2>1. n \in Spots(t)
    BY DEF Spots
  <2>2. Child(t, s, n) # c
    BY <1>5, <2>1, LinkFacts DEF Shape
  <2>3. Child(t, s, n) # n
    BY <1>6, <2>1 DEF Shape, Sound
  <2>4. QED
    BY <2>2, <2>3
<1>8. /\ u.parent[n] = c /\ u.parent[c] = t.parent[n]
      /\ \A m \in All : m \notin {n, c} => u.parent[m] = IF m = Child(t, s, c) THEN n ELSE t.parent[m]
  BY <1>1, <1>2, <1>5, <1>6 DEF Rotated
<1>9. /\ Child(u, s, c) = n /\ Child(u, Other(s), c) = Child(t, Other(s), c)
      /\ Child(u, Other(s), n) = Child(t, s, c) /\ Child(u, s, n) = Child(t, s, n)
  BY <1>1, <1>2 DEF Rotated
<1>10. \A m \in All \ {n, c}, x \in Side :
         Child(u, x, m) = IF m = t.parent[n] /\ x = SideOf(t, n) THEN c ELSE Child(t, x, m)
  BY <1>1, <1>2 DEF Rotated
<1>11. \A m \in Spots(t) : m \in All
  BY Distinct DEF Spots, In
<1>12. Root(u) = IF n = Root(t) THEN c ELSE Root(t)
  <2>1. Root(u) = IF Sentinel = t.parent[n] /\ "left" = SideOf(t, n) THEN c ELSE Root(t)
    BY <1>5, <1>10, Distinct DEF Root, Child, Side
  <2>2. (Sentinel = t.parent[n] /\ "left" = SideOf(t, n)) <=> n = Root(t)
    BY <1>5, Rooted
  <2>3. QED
    BY <2>1, <2>2
<1>13. QED
  BY <1>2, <1>3, <1>6, <1>7, <1>8, <1>9, <1>10, <1>11, <1>12 DEF Turning

\* A painted tree.
Painted(t, u, n, c) ==
    /\ u \in Trees /\ u.child = t.child /\ u.parent = t.parent
    /\ \A m \in All : u.color[m] = IF m = n THEN c ELSE t.color[m]

\* One, two and three nodes painted.
LEMMA PaintedIs ==
  ASSUME NEW t \in Trees, NEW n \in All, NEW c \in {"red", "black"}
  PROVE  Painted(t, Paint(t, n, c), n, c)
<1> DEFINE u == Paint(t, n, c)
<1>1. /\ u \in Trees /\ u.child = t.child /\ u.parent = t.parent
      /\ u.color = [t.color EXCEPT ![n] = c]
  BY DEF Paint, Trees
<1> HIDE DEF u
<1>2. t.color \in [All -> {"red", "black"}]
  BY DEF Trees
<1>3. \A m \in All : u.color[m] = IF m = n THEN c ELSE t.color[m]
  BY <1>1, <1>2
<1>4. Painted(t, u, n, c)
  BY <1>1, <1>3 DEF Painted
<1>5. QED
  BY <1>4 DEF u

PaintedTwo(t, u, a, c, b, d) ==
    /\ u \in Trees /\ u.child = t.child /\ u.parent = t.parent
    /\ \A m \in All : u.color[m] = IF m = b THEN d ELSE IF m = a THEN c ELSE t.color[m]

\* The later colour wins.
LEMMA PaintedTwice ==
  ASSUME NEW t \in Trees, NEW a \in All, NEW b \in All, NEW c \in {"red", "black"}, NEW d \in {"red", "black"}
  PROVE  PaintedTwo(t, Paint(Paint(t, a, c), b, d), a, c, b, d)
<1> DEFINE v == Paint(t, a, c)
           u == Paint(v, b, d)
<1>1. Painted(t, v, a, c)
  BY PaintedIs
<1> HIDE DEF v
<1>2. v \in Trees
  BY <1>1 DEF Painted
<1>3. Painted(v, u, b, d)
  BY <1>2, PaintedIs
<1> HIDE DEF u
<1>4. PaintedTwo(t, u, a, c, b, d)
  BY <1>1, <1>3 DEF Painted, PaintedTwo
<1>5. QED
  BY <1>4 DEF u, v

PaintedThree(t, u, a, c, b, d, e, f) ==
    /\ u \in Trees /\ u.child = t.child /\ u.parent = t.parent
    /\ \A m \in All : u.color[m] = IF m = e THEN f ELSE IF m = b THEN d ELSE IF m = a THEN c ELSE t.color[m]

\* The latest colour wins.
LEMMA PaintedThrice ==
  ASSUME NEW t \in Trees, NEW a \in All, NEW b \in All, NEW e \in All,
         NEW c \in {"red", "black"}, NEW d \in {"red", "black"}, NEW f \in {"red", "black"}
  PROVE  PaintedThree(t, Paint(Paint(Paint(t, a, c), b, d), e, f), a, c, b, d, e, f)
<1> DEFINE v == Paint(Paint(t, a, c), b, d)
           u == Paint(v, e, f)
<1>1. PaintedTwo(t, v, a, c, b, d)
  BY PaintedTwice
<1> HIDE DEF v
<1>2. v \in Trees
  BY <1>1 DEF PaintedTwo
<1>3. Painted(v, u, e, f)
  BY <1>2, PaintedIs
<1> HIDE DEF u
<1>4. PaintedThree(t, u, a, c, b, d, e, f)
  BY <1>1, <1>3 DEF Painted, PaintedTwo, PaintedThree
<1>5. QED
  BY <1>4 DEF u, v

\* The end of an operation, and of an insertion's fix-up.
Forget(t) == [t EXCEPT !.parent[Sentinel] = Null]

\* What an operation left as the sentinel's parent matters to no property of the tree.
LEMMA Returned ==
  ASSUME NEW t, Shape(t), Whole(t)
  PROVE  Shape(Forget(t)) /\ Whole(Forget(t)) /\ Sentinel \in Spots(Forget(t))
<1> DEFINE u == Forget(t)
<1>1. u \in Trees /\ u.child = t.child /\ u.color = t.color /\ \A n \in Node : u.parent[n] = t.parent[n]
  BY Distinct DEF Forget, Shape, Trees
<1> HIDE DEF u
<1>2. /\ Shape(u) /\ In(u) = In(t) /\ Root(u) = Root(t)
      /\ \A s, n : Child(u, s, n) = Child(t, s, n)
  BY <1>1, ColourOnly DEF Shape
<1>3. \A n : Black(u, n) = Black(t, n)
  BY <1>1 DEF Black
<1>4. \A n \in In(u) : Apart(u, n)
  BY <1>1, <1>2, <1>3 DEF Apart, Whole, In
<1>5. \E h : Balanced(u, h, Null, "left")
  BY <1>2, <1>3 DEF Whole, Balanced, Count
<1>6. QED
  BY <1>2, <1>3, <1>4, <1>5 DEF Whole, u, Spots

\* A red root is painted black, which makes every path one longer.
LEMMA Rerooted ==
  ASSUME NEW t, Shape(t), NEW h, Balanced(t, h, Null, "left"), \A n \in In(t) : Apart(t, n) \/ n = Root(t)
  PROVE  LET u == Paint(t, Root(t), "black")
         IN Shape(u) /\ Whole(u)
<1> DEFINE u == Paint(t, Root(t), "black")
<1>1. Root(t) \in All /\ t \in Trees
  BY Distinct DEF Shape, Sound, Spots, In
<1>2. /\ u \in Trees /\ u.child = t.child /\ u.parent = t.parent
      /\ \A m \in All : u.color[m] = IF m = Root(t) THEN "black" ELSE t.color[m]
  BY <1>1, PaintedIs DEF Painted
<1>3. Balanced(u, h, Null, "left")
  BY RootPainted
<1> HIDE DEF u
<1>4. u.color[Sentinel] = "black"
  BY <1>2, Distinct DEF Shape
<1>5. Shape(u) /\ In(u) = In(t) /\ Root(u) = Root(t)
  BY <1>2, <1>4, ColourOnly
<1>6. \A m \in All : Black(t, m) \/ m = Root(t) => Black(u, m)
  BY <1>2 DEF Black
<1>7. ASSUME NEW n \in In(u) PROVE Apart(u, n)
  <2>1. n \in All /\ t.parent[n] \in All /\ (Apart(t, n) \/ n = Root(t))
    BY <1>5, <1>7, LinkFacts DEF Shape
  <2>2. QED
    BY <1>2, <1>6, <2>1 DEF Apart
<1>8. Whole(u)
  BY <1>1, <1>3, <1>5, <1>6, <1>7 DEF Whole
<1>9. QED
  BY <1>5, <1>8 DEF u

-----------------------------------------------------------------------------
(* Insertion.                                                              *)

\* A red leaf keeps the heights: only its parent may be red too.
LEMMA InsertStarts ==
  ASSUME NEW t, Shape(t), Whole(t), NEW x \in Node \ In(t), NEW p \in Spots(t), NEW s \in Side,
         Child(t, s, p) = Sentinel, p = Sentinel => s = "left", NEW u, Added(t, u, x, p, s)
  PROVE  Shape(u) /\ Inserting(u, x)
<1>1. In(u) = In(t) \union {x} /\ Sound(u) /\ Ranked(u) /\ Grounded(u)
  BY AddedSound, AddedGrounded DEF Shape
<1>2. \E h : Balanced(u, h, Null, "left")
  BY AddedSound DEF Shape, Whole
<1>3. x \in All /\ Sentinel \in All /\ x # Sentinel /\ In(t) \subseteq All
  BY Distinct DEF In
<1>4. /\ u \in Trees /\ \A m \in All : u.color[m] = IF m = x THEN "red" ELSE t.color[m]
      /\ \A m \in All : u.parent[m] = IF m = x THEN p ELSE t.parent[m]
  BY DEF Added
<1>5. Shape(u)
  BY <1>1, <1>3, <1>4 DEF Shape
<1>6. x \in In(u) /\ ~Black(u, x)
  BY <1>1, <1>3, <1>4 DEF Black
<1>7. ASSUME NEW n \in In(u), n # x PROVE Apart(u, n)
  <2>1. n \in In(t) /\ t.parent[n] # x /\ t.parent[n] \in All /\ n \in All
    <3>1. n \in In(t) /\ x \notin Spots(t)
      BY <1>1, <1>3, <1>7 DEF Spots
    <3>2. QED
      BY <3>1, LinkFacts DEF Shape
  <2>2. QED
    BY <1>4, <1>7, <2>1 DEF Whole, Apart, Black
<1>8. Black(u, Root(u)) \/ x = Root(u)
  <2>1. Root(u) = IF p = Sentinel /\ s = "left" THEN x ELSE Root(t)
    BY <1>3 DEF Added, Root, Child, Side
  <2>2. Root(t) \in All /\ Root(t) # x
    BY <1>3 DEF Shape, Sound, Spots
  <2>3. QED
    BY <1>4, <2>1, <2>2 DEF Whole, Black
<1>9. QED
  BY <1>2, <1>5, <1>6, <1>7, <1>8 DEF Inserting

\* A red parent is not the root: there is a grandparent, and it is black.
LEMMA Family ==
  ASSUME NEW t, Shape(t), NEW a, Inserting(t, a), NEW p, p = t.parent[a], ~Black(t, p)
  PROVE  /\ a \in In(t) /\ p \in In(t) /\ t.parent[p] \in In(t)
         /\ Black(t, t.parent[p]) /\ Black(t, Root(t)) /\ p # Root(t) /\ a # p
<1>1. a \in In(t) /\ t.color[Sentinel] = "black" /\ t \in Trees
  BY DEF Inserting, Shape
<1>2. p \in Spots(t) /\ p # Sentinel
  BY <1>1, LinkFacts DEF Shape, Black
<1>3. p \in In(t)
  BY <1>2 DEF Spots
<1>4. Black(t, Root(t)) /\ p # Root(t)
  BY <1>2, Rooted DEF Inserting
<1>5. t.parent[p] \in In(t)
  <2>1. t.parent[p] \in Spots(t)
    BY <1>3, LinkFacts DEF Shape
  <2>2. QED
    BY <1>3, <1>4, <2>1, Rooted DEF Spots
<1>6. a # p
  <2>1. PICK r : RankedBy(t, r)
    BY DEF Shape, Ranked
  <2>2. r[a] < r[p] /\ r[a] \in Nat
    BY <1>1, <1>2, <2>1, LinkFacts DEF RankedBy, Shape
  <2>3. QED
    BY <2>2
<1>7. Black(t, t.parent[p])
  BY <1>3, <1>6 DEF Inserting, Apart
<1>8. QED
  BY <1>1, <1>3, <1>4, <1>5, <1>6, <1>7

\* The parent and the uncle are red.
LEMMA Recolours ==
  ASSUME NEW t, Shape(t), NEW a, Inserting(t, a), NEW p, p = t.parent[a], ~Black(t, p),
         NEW g, g = t.parent[p], NEW q, q = Child(t, Other(SideOf(t, p)), g), ~Black(t, q),
         NEW u, u = Paint(Paint(Paint(t, q, "black"), p, "black"), g, "red")
  PROVE  Shape(u) /\ Inserting(u, g)
<1> DEFINE s == SideOf(t, p)
<1>1. /\ a \in In(t) /\ p \in In(t) /\ g \in In(t) /\ Black(t, g) /\ Black(t, Root(t))
      /\ p # Root(t) /\ a # p
  BY Family
<1>2. /\ p \in All /\ g \in All /\ g # Sentinel /\ p # Sentinel /\ s \in Side /\ Other(s) \in Side
      /\ Child(t, s, g) = p /\ \A x \in Side : x = s \/ x = Other(s)
  BY <1>1, LinkFacts, Sides DEF Shape
<1>3. q \in In(t) /\ q \in All /\ t.parent[q] = g /\ q # Sentinel
  <2>1. q \in Spots(t) /\ q # Sentinel /\ q \in All
    BY <1>1, <1>2, LinkFacts DEF Shape, Black
  <2>2. QED
    BY <1>1, <1>2, <2>1 DEF Spots, Shape, Sound
<1>4. p # g /\ q # g /\ q # Root(t)
  <2>1. p # g /\ q # g
    BY <1>1, <1>2, <1>3 DEF Black
  <2>2. QED
    BY <1>2, <1>3, <2>1, Rooted
<1>5. /\ u \in Trees /\ u.child = t.child /\ u.parent = t.parent
      /\ \A m \in All : u.color[m] = IF m = g THEN "red" ELSE IF m = p \/ m = q THEN "black"
                                     ELSE t.color[m]
  <2>1. t \in Trees
    BY DEF Shape
  <2>2. /\ u \in Trees /\ u.child = t.child /\ u.parent = t.parent
        /\ \A m \in All : u.color[m] = IF m = g THEN "red" ELSE IF m = p THEN "black"
                                       ELSE IF m = q THEN "black" ELSE t.color[m]
    <3>1. PaintedThree(t, u, q, "black", p, "black", g, "red")
      BY <1>2, <1>3, <2>1, PaintedThrice
    <3>2. QED
      BY <3>1 DEF PaintedThree
  <2>3. QED
    BY <2>2
<1>6. Shape(u) /\ In(u) = In(t) /\ Root(u) = Root(t) /\ \A x, m : Child(u, x, m) = Child(t, x, m)
  <2>1. u.color[Sentinel] = t.color[Sentinel]
    BY <1>2, <1>3, <1>5, Distinct
  <2>2. u.color[Sentinel] = "black" /\ \A m \in Node : u.parent[m] = t.parent[m]
    BY <1>5, <2>1 DEF Shape
  <2>3. QED
    BY <1>5, <2>2, ColourOnly, SMTT(40)
<1> HIDE DEF s
<1>7. \A m \in All : m # g => (Black(u, m) <=> Black(t, m) \/ m = p \/ m = q)
  BY <1>5 DEF Black
<1>8. ~Black(u, g)
  BY <1>2, <1>5 DEF Black
<1>9. PICK h : Balanced(t, h, Null, "left")
  BY DEF Inserting
<1> DEFINE k == [h EXCEPT ![g] = h[g] + 1]
<1>10. h \in [All -> Nat] /\ \A m \in All : h[m] \in Nat
  BY <1>9 DEF Balanced
<1>11. k \in [All -> Nat] /\ \A m \in All : k[m] = IF m = g THEN h[g] + 1 ELSE h[m]
  BY <1>2, <1>10
<1> HIDE DEF k
<1>12. ASSUME NEW n \in In(u), NEW x \in Side
       PROVE  k[n] = k[Child(u, x, n)] + Count(u, Child(u, x, n)) + Extra(Null, "left", n, x)
  <2> DEFINE c == Child(t, x, n)
  <2>1. n \in In(t) /\ n \in All /\ n # Null /\ c \in All /\ c \in Spots(t) /\ c = Child(u, x, n)
        /\ (c \in In(t) => t.parent[c] = n)
    <3>1. n \in In(t) /\ c = Child(u, x, n)
      BY <1>6, <1>12
    <3>2. n \in All /\ n # Null /\ c \in All /\ c \in Spots(t)
      BY <3>1, LinkFacts DEF Shape
    <3>3. c \in In(t) => t.parent[c] = n
      BY <3>1 DEF Shape, Sound, Spots
    <3>4. QED
      BY <3>1, <3>2, <3>3
  <2>2. h[n] = h[c] + Count(t, c) + Extra(Null, "left", n, x)
    BY <1>9, <2>1 DEF Balanced
  <2>3. Extra(Null, "left", n, x) = 0
    BY <2>1 DEF Extra
  <2>4. Child(t, s, g) = p /\ Child(t, Other(s), g) = q
    BY <1>2 DEF s
  <2> HIDE DEF c
  <2>5. CASE n = g
    <3>1. c = p \/ c = q
      BY <1>2, <2>4, <2>5 DEF c
    <3>2. Count(t, c) = 0 /\ Count(u, c) = 1 /\ c # g
      BY <1>1, <1>4, <1>2, <1>3, <1>7, <3>1 DEF Count
    <3>3. k[n] = h[n] + 1 /\ k[c] = h[c]
      BY <1>11, <2>1, <2>5, <3>2
    <3>4. h[n] \in Nat /\ h[c] \in Nat
      BY <1>10, <2>1
    <3>5. k[n] = k[c] + Count(u, c) + Extra(Null, "left", n, x)
      BY <2>2, <2>3, <3>2, <3>3, <3>4
    <3>6. QED
      BY <2>1, <3>5
  <2>6. CASE c = g
    <3>1. n # g
      BY <1>1, <1>4, <2>1, <2>4, <2>6, <2>5, <1>2 DEF c
    <3>2. Count(t, c) = 1 /\ Count(u, c) = 0
      BY <1>1, <1>8, <2>6 DEF Count
    <3>3. k[n] = h[n] /\ k[c] = h[c] + 1
      BY <1>11, <2>1, <2>6, <3>1
    <3>4. h[n] \in Nat /\ h[c] \in Nat
      BY <1>10, <2>1
    <3>5. k[n] = k[c] + Count(u, c) + Extra(Null, "left", n, x)
      BY <2>2, <2>3, <3>2, <3>3, <3>4
    <3>6. QED
      BY <2>1, <3>5
  <2>7. CASE n # g /\ c # g
    <3>1. c # p /\ c # q
      BY <1>1, <1>3, <2>1, <2>7
    <3>2. Count(u, c) = Count(t, c)
      BY <1>7, <2>1, <2>7, <3>1 DEF Count
    <3>3. k[n] = h[n] /\ k[c] = h[c]
      BY <1>11, <2>1, <2>7
    <3>4. QED
      BY <2>1, <2>2, <3>2, <3>3
  <2>8. QED
    BY <2>5, <2>6, <2>7
<1>13. Balanced(u, k, Null, "left")
  <2>1. k[Sentinel] = 0
    BY <1>2, <1>9, <1>11, Distinct DEF Balanced
  <2>2. QED
    BY <1>11, <1>12, <2>1 DEF Balanced
<1>14. ASSUME NEW n \in In(u), n # g PROVE Apart(u, n)
  <2>1. n \in In(t) /\ n \in All /\ t.parent[n] \in All /\ (Apart(t, n) \/ n = a)
    BY <1>6, <1>14, LinkFacts DEF Shape, Inserting
  <2>2. CASE t.parent[n] = g
    <3>1. n = p \/ n = q
      <4>1. SideOf(t, n) \in Side /\ Child(t, SideOf(t, n), g) = n
        BY <2>1, <2>2, LinkFacts DEF Shape
      <4>2. QED
        BY <1>2, <4>1 DEF s
    <3>2. QED
      BY <1>7, <1>14, <2>1, <3>1 DEF Apart
  <2>3. CASE t.parent[n] # g /\ n = a
    BY <1>5, <1>7, <2>1, <2>3 DEF Apart
  <2>4. CASE t.parent[n] # g /\ n # a
    BY <1>5, <1>7, <1>14, <2>1, <2>4 DEF Apart
  <2>5. QED
    BY <2>2, <2>3, <2>4
<1>15. Black(u, Root(u)) \/ g = Root(u)
  <2>1. Root(t) \in All
    BY Distinct DEF Shape, Sound, Spots, In
  <2>2. QED
    BY <1>1, <1>6, <1>7, <2>1
<1>16. QED
  BY <1>1, <1>6, <1>8, <1>13, <1>14, <1>15 DEF Inserting

\* The tree from which a red node rises above its black grandparent.
Rising(t, g, s, c) ==
    /\ Shape(t) /\ g \in In(t) /\ c = Child(t, s, g) /\ c \in In(t)
    /\ ~Black(t, c) /\ Black(t, g) /\ Black(t, Child(t, Other(s), g)) /\ Black(t, Child(t, Other(s), c))
    /\ \A n \in In(t) : Apart(t, n) \/ t.parent[n] = c
    /\ \E h : Balanced(t, h, Null, "left")

\* The last rotation of an insertion: the red node c rises above the black node g.
LEMMA Raised ==
  ASSUME NEW t, NEW g, NEW s \in Side, NEW c, Rising(t, g, s, c),
         NEW u, u = Rotate(Paint(Paint(t, c, "black"), g, "red"), g, Other(s))
  PROVE  Shape(u) /\ (\E h : Balanced(u, h, Null, "left")) /\ \A n \in In(u) : Apart(u, n)
<1>0. /\ Shape(t) /\ g \in In(t) /\ c = Child(t, s, g) /\ c \in In(t)
      /\ ~Black(t, c) /\ Black(t, g) /\ Black(t, Child(t, Other(s), g)) /\ Black(t, Child(t, Other(s), c))
      /\ \A n \in In(t) : Apart(t, n) \/ t.parent[n] = c
  BY DEF Rising
<1> PICK h : Balanced(t, h, Null, "left")
  BY DEF Rising
<1> USE <1>0
<1> DEFINE o == Other(s)
           y == Paint(Paint(t, c, "black"), g, "red")
<1>1. o \in Side /\ Other(o) = s /\ s # o /\ \A x \in Side : x = s \/ x = o
  BY Sides
<1>2. c \in All /\ g \in All /\ c # Sentinel /\ g # Sentinel /\ t \in Trees
  BY LinkFacts DEF Shape
<1>3. c # g
  OBVIOUS
<1>4. /\ y \in Trees /\ y.child = t.child /\ y.parent = t.parent
      /\ \A m \in All : y.color[m] = IF m = g THEN "red" ELSE IF m = c THEN "black" ELSE t.color[m]
  <2>1. PaintedTwo(t, y, c, "black", g, "red")
    BY <1>2, PaintedTwice
  <2>2. QED
    BY <2>1 DEF PaintedTwo
<1>5. u = Rotate(y, g, o)
  OBVIOUS
<1> HIDE DEF y
<1>6. y.color[Sentinel] = "black"
  BY <1>2, <1>4, Distinct DEF Shape
<1>7. /\ Rotated(y, u, g, o) /\ Shape(u) /\ In(u) = In(t) /\ u.color = y.color
      /\ u.parent[g] = c /\ u.parent[c] = t.parent[g]
      /\ \A m \in All : m \notin {g, c} => u.parent[m] = IF m = Child(t, o, c) THEN g ELSE t.parent[m]
  <2>1. Turning(t, y, u, g, o, c)
    BY <1>1, <1>2, <1>4, <1>5, <1>6, Turned
  <2>2. QED
    BY <2>1 DEF Turning
<1>8. Balanced(u, h, Null, "left")
  <2>1. \A m \in All : y.color[m] = IF m = c THEN t.color[g] ELSE IF m = g THEN "red" ELSE t.color[m]
    BY <1>3, <1>4 DEF Black
  <2>2. t.color[c] = "red"
    BY <1>2 DEF Black, Trees
  <2>3. Extra(Null, "left", g, Other(o)) = 0 /\ Extra(Null, "left", c, o) = 0
    BY <1>2, Distinct DEF Extra
  <2>4. QED
    BY <1>1, <1>2, <1>4, <1>7, <2>1, <2>2, <2>3, SwapBalanced DEF Shape
<1>9. \A m \in All : m # g => (Black(u, m) <=> Black(t, m) \/ m = c)
  BY <1>4, <1>7 DEF Black
<1>10. ASSUME NEW n \in In(u) PROVE Apart(u, n)
  <2>1. n \in In(t) /\ n \in All /\ t.parent[n] \in All /\ (Apart(t, n) \/ t.parent[n] = c)
    BY <1>7, <1>10, LinkFacts DEF Shape
  <2>2. CASE n = g
    BY <1>2, <1>3, <1>7, <1>9, <2>2 DEF Apart
  <2>3. CASE n = c \/ n = Child(t, o, c)
    <3>1. n # g => Black(u, n)
      BY <1>9, <2>1, <2>3
    <3>2. QED
      BY <2>2, <3>1 DEF Apart
  <2>4. CASE n \notin {g, c, Child(t, o, c)}
    <3>1. u.parent[n] = t.parent[n]
      BY <1>7, <2>1, <2>4
    <3>2. CASE t.parent[n] = g
      <4>1. SideOf(t, n) \in Side /\ Child(t, SideOf(t, n), g) = n
        BY <2>1, <3>2, LinkFacts DEF Shape
      <4>2. n = Child(t, o, g)
        BY <1>1, <2>4, <4>1
      <4>3. QED
        BY <1>9, <2>1, <2>4, <4>2 DEF Apart
    <3>3. CASE t.parent[n] # g
      BY <1>9, <2>1, <2>4, <3>1, <3>3 DEF Apart
    <3>4. QED
      BY <3>2, <3>3
  <2>5. QED
    BY <2>2, <2>3, <2>4
<1>11. QED
  BY <1>7, <1>8, <1>10

\* An outer node's parent is there already.
LEMMA OuterRises ==
  ASSUME NEW t, Shape(t), NEW a, Inserting(t, a), NEW p, p = t.parent[a], ~Black(t, p),
         NEW g, g = t.parent[p], NEW s, s = SideOf(t, p), Black(t, Child(t, Other(s), g)),
         a # Child(t, Other(s), p)
  PROVE  Rising(t, g, s, p)
<1>1. a \in In(t) /\ p \in In(t) /\ g \in In(t) /\ Black(t, g)
  BY Family
<1>2. s \in Side /\ p = Child(t, s, g)
  BY <1>1, LinkFacts DEF Shape
<1> DEFINE c == Child(t, Other(s), p)
<1>3. Black(t, c)
  <2>1. c \in Spots(t)
    BY <1>1, <1>2, Sides, LinkFacts DEF Shape
  <2>2. c \in In(t) => t.parent[c] = p
    BY <1>1, <1>2, Sides DEF Shape, Sound, Spots
  <2>3. c \in In(t) => Apart(t, c)
    BY DEF Inserting
  <2>4. QED
    BY <2>1, <2>2, <2>3 DEF Spots, Apart, Shape, Black
<1>4. \A n \in In(t) : Apart(t, n) \/ t.parent[n] = p
  BY DEF Inserting
<1>5. QED
  BY <1>1, <1>2, <1>3, <1>4 DEF Rising, Inserting

\* An inner node is rotated there.
LEMMA InnerRises ==
  ASSUME NEW t, Shape(t), NEW a, Inserting(t, a), NEW p, p = t.parent[a], ~Black(t, p),
         NEW g, g = t.parent[p], NEW s, s = SideOf(t, p), Black(t, Child(t, Other(s), g)),
         a = Child(t, Other(s), p), NEW u, u = Rotate(t, p, s)
  PROVE  Rising(u, g, s, a)
<1>1. a \in In(t) /\ p \in In(t) /\ g \in In(t) /\ Black(t, g) /\ ~Black(t, a)
  BY Family DEF Inserting
<1>2. s \in Side /\ p = Child(t, s, g) /\ Other(s) \in Side /\ s # Other(s)
  <2>1. s \in Side /\ p = Child(t, s, g)
    BY <1>1, LinkFacts DEF Shape
  <2>2. QED
    BY <2>1, Sides
<1>3. t \in Trees /\ t.color[Sentinel] = "black" /\ a \in All /\ p \in All /\ g \in All /\ g \in Spots(t)
  BY <1>1, LinkFacts DEF Shape, Spots
<1>4. /\ Rotated(t, u, p, s) /\ Shape(u) /\ In(u) = In(t) /\ u.color = t.color
      /\ u.parent[p] = a /\ u.parent[a] = g
      /\ \A m \in All : m \notin {p, a} => u.parent[m] = IF m = Child(t, s, a) THEN p ELSE t.parent[m]
      /\ Child(u, Other(s), a) = Child(t, Other(s), a)
      /\ \A m \in Spots(t), x \in Side : m \notin {p, a} =>
           Child(u, x, m) = IF m = t.parent[p] /\ x = SideOf(t, p) THEN a ELSE Child(t, x, m)
      /\ a # p /\ t.parent[p] \notin {p, a}
      /\ \A x \in Side : Child(t, x, a) \notin {p, a}
  <2>1. t.child = t.child /\ t.parent = t.parent
    OBVIOUS
  <2>2. Turning(t, t, u, p, s, a)
    BY <1>1, <1>2, <1>3, <2>1, Turned
  <2>3. QED
    BY <1>2, <2>2 DEF Turning
<1>5. Child(u, s, g) = a /\ Child(u, Other(s), g) = Child(t, Other(s), g)
  <2>1. g \notin {p, a} /\ g = t.parent[p] /\ s = SideOf(t, p)
    BY <1>4
  <2>2. \A m \in Spots(t), x \in Side : m \notin {p, a} =>
          Child(u, x, m) = IF m = t.parent[p] /\ x = SideOf(t, p) THEN a ELSE Child(t, x, m)
    BY <1>4
  <2>3. Child(u, s, g) = a
    BY <1>2, <1>3, <2>1, <2>2
  <2>4. Child(u, Other(s), g) = Child(t, Other(s), g)
    BY <1>2, <1>3, <2>1, <2>2
  <2>5. QED
    BY <2>3, <2>4
<1>6. \A m : Black(u, m) = Black(t, m)
  BY <1>4 DEF Black
<1>7. ASSUME NEW x \in Side PROVE Black(t, Child(t, x, a))
  <2> DEFINE c == Child(t, x, a)
  <2>1. c \in Spots(t) /\ c # a
    BY <1>1, <1>4, LinkFacts DEF Shape
  <2>2. c \in In(t) => t.parent[c] = a
    BY <1>1 DEF Shape, Sound, Spots
  <2>3. c \in In(t) => Apart(t, c)
    BY <2>1 DEF Inserting
  <2>4. QED
    BY <1>1, <2>1, <2>2, <2>3 DEF Spots, Apart, Shape, Black
<1>8. \E h : Balanced(u, h, Null, "left")
  <2>1. PICK h : Balanced(t, h, Null, "left")
    BY DEF Inserting
  <2>2. t.color[a] = "red" /\ t.color[p] = "red"
    BY <1>1, <1>3 DEF Black, Trees
  <2>3. \A m \in All : t.color[m] = IF m = a THEN t.color[p] ELSE IF m = p THEN "red" ELSE t.color[m]
    BY <2>2
  <2>4. Extra(Null, "left", p, Other(s)) = 0 /\ Extra(Null, "left", a, s) = 0
    BY <1>3, Distinct DEF Extra
  <2> DEFINE y == t
  <2>5. y \in Trees /\ y.child = t.child /\ y.parent = t.parent /\ Rotated(y, u, p, s)
        /\ \A m \in All : y.color[m] = IF m = a THEN t.color[p] ELSE IF m = p THEN "red" ELSE t.color[m]
    BY <1>3, <1>4, <2>3
  <2> HIDE DEF y
  <2>6. /\ t \in Trees /\ Sound(t) /\ Ranked(t) /\ p \in In(t) /\ s \in Side
        /\ a = Child(t, Other(s), p) /\ a \in In(t) /\ t.color[a] = "red"
    BY <1>1, <1>2, <1>3, <2>2 DEF Shape
  <2>7. Balanced(u, h, Null, "left")
    <3> HIDE <1>1, <1>2, <1>3, <1>4
    <3>1. QED
      BY <2>1, <2>4, <2>5, <2>6, SwapBalanced, SMTT(40)
  <2>8. QED
    BY <2>7
<1>9. ASSUME NEW n \in In(u) PROVE Apart(u, n) \/ u.parent[n] = a
  <2>1. n \in In(t) /\ n \in All /\ (Apart(t, n) \/ n = a)
    BY <1>4, <1>9, LinkFacts DEF Shape, Inserting
  <2>2. CASE n = p
    BY <1>4, <2>2
  <2>3. CASE n = a
    BY <1>1, <1>4, <1>6, <2>3 DEF Apart
  <2>4. CASE n = Child(t, s, a)
    BY <1>2, <1>6, <1>7, <2>4 DEF Apart
  <2>5. CASE n \notin {p, a, Child(t, s, a)}
    <3>1. u.parent[n] = t.parent[n]
      BY <1>4, <2>1, <2>5
    <3>2. QED
      BY <1>6, <2>1, <2>5, <3>1 DEF Apart
  <2>6. QED
    BY <2>2, <2>3, <2>4, <2>5
<1>10. QED
  BY <1>1, <1>2, <1>4, <1>5, <1>6, <1>7, <1>8, <1>9 DEF Rising

\* The parent is red and the uncle black.
LEMMA InsertRotates ==
  ASSUME NEW t, Shape(t), NEW a, Inserting(t, a), NEW p, p = t.parent[a], ~Black(t, p),
         NEW g, g = t.parent[p], NEW s, s = SideOf(t, p), Black(t, Child(t, Other(s), g)),
         NEW v, v = (IF a = Child(t, Other(s), p) THEN Rotate(t, p, s) ELSE t),
         NEW c, c = (IF a = Child(t, Other(s), p) THEN a ELSE p),
         NEW u, u = Rotate(Paint(Paint(v, c, "black"), g, "red"), g, Other(s))
  PROVE  Shape(Paint(u, Root(u), "black")) /\ Whole(Paint(u, Root(u), "black"))
<1>1. s \in Side
  BY SideIn
<1>2. Rising(v, g, s, c)
  BY OuterRises, InnerRises
<1>3. Shape(u) /\ (\E h : Balanced(u, h, Null, "left")) /\ \A n \in In(u) : Apart(u, n)
  BY <1>1, <1>2, Raised
<1>4. QED
  BY <1>3, Rerooted

\* The parent is black.
LEMMA InsertEnds ==
  ASSUME NEW t, Shape(t), NEW a, Inserting(t, a), Black(t, t.parent[a])
  PROVE  Shape(Paint(t, Root(t), "black")) /\ Whole(Paint(t, Root(t), "black"))
<1>1. PICK h : Balanced(t, h, Null, "left")
  BY DEF Inserting
<1>2. \A n \in In(t) : Apart(t, n)
  BY DEF Inserting, Apart
<1>3. QED
  BY <1>1, <1>2, Rerooted

-----------------------------------------------------------------------------
(* The fix-up of a deletion.                                               *)

\* The black node a, on the side s of p, is one black node short; b is its sibling.
Lacking(t, a, p, s, b) ==
    /\ Shape(t) /\ p \in In(t) /\ s \in Side /\ a \in Spots(t) /\ b \in In(t)
    /\ a = Child(t, s, p) /\ b = Child(t, Other(s), p)
    /\ Black(t, a) /\ Black(t, Root(t))
    /\ \A n \in In(t) : Apart(t, n)
    /\ \E h : Balanced(t, h, p, s)

\* A node that is short has a sibling: the paths through it are as high.
LEMMA SiblingIs ==
  ASSUME NEW t, Shape(t), NEW a, Deleting(t, a), a # Root(t), Black(t, a)
  PROVE  Lacking(t, a, t.parent[a], SideOf(t, a), Child(t, Other(SideOf(t, a)), t.parent[a]))
<1> DEFINE p == t.parent[a]
           s == SideOf(t, a)
           b == Child(t, Other(s), p)
<1>1. /\ a \in Spots(t) /\ p \in Spots(t) /\ s \in Side /\ Other(s) \in Side /\ s # Other(s)
      /\ a = Child(t, s, p) /\ Black(t, Root(t))
  BY SideIn, Sides DEF Deleting
<1>2. p \in In(t)
  <2>1. Child(t, "right", Sentinel) = Callback /\ Callback \notin Spots(t)
    BY Distinct DEF Shape, Sound, Spots, In, All
  <2>2. p # Sentinel
    BY <1>1, <2>1 DEF Root, Child, Side
  <2>3. QED
    BY <1>1, <2>2 DEF Spots
<1>3. \A n \in In(t) : Apart(t, n)
  BY DEF Deleting, Apart
<1>4. PICK h : Balanced(t, h, p, s)
  BY DEF Deleting
<1> HIDE DEF p, s
<1>5. b \in Spots(t) /\ a \in All /\ p \in All
  BY <1>1, <1>2, LinkFacts, Distinct DEF Shape, Spots, In
<1>6. h[p] = h[a] + 1 + 1 /\ h[p] = h[b] + Count(t, b) + 0 /\ h[a] \in Nat /\ h[Sentinel] = 0
  BY <1>1, <1>2, <1>4, <1>5 DEF Balanced, Count, Extra
<1>7. b # Sentinel
  <2>1. b = Sentinel => h[b] = 0 /\ Count(t, b) = 1
    BY <1>6 DEF Count, Black, Shape
  <2>2. QED
    BY <1>6, <2>1
<1>8. Lacking(t, a, p, s, b)
  BY <1>1, <1>2, <1>3, <1>4, <1>5, <1>7 DEF Lacking, Spots
<1>9. QED
  BY <1>8 DEF p, s

\* The family of a node that is one short: its sibling is a real node.
LEMMA LackFacts ==
  ASSUME NEW t, NEW a, NEW p, NEW s, NEW b, Lacking(t, a, p, s, b)
  PROVE  /\ t \in Trees /\ Other(s) \in Side /\ s # Other(s) /\ Other(Other(s)) = s
         /\ \A x \in Side : x = s \/ x = Other(s)
         /\ a \in All /\ p \in All /\ b \in All /\ p # Sentinel /\ b # Sentinel
         /\ t.parent[b] = p /\ SideOf(t, b) = Other(s) /\ b # p /\ t.parent[p] \notin {p, b}
         /\ a # p /\ a # b /\ (a \in In(t) => t.parent[a] = p)
         /\ \A x \in Side :
              /\ Child(t, x, b) \notin {b, p} /\ Child(t, x, b) \in Spots(t) /\ Child(t, x, b) \in All
              /\ Child(t, x, b) \in In(t) => t.parent[Child(t, x, b)] = b /\ Child(t, x, b) # a
         /\ p # Root(t) => t.parent[p] \in In(t)
         /\ b # Root(t) /\ Root(t) \in All /\ t.color[Sentinel] = "black"
         /\ \A n \in In(t) : t.parent[n] = p => n = a \/ n = b
         /\ \A h : Balanced(t, h, p, s) =>
              /\ h[p] \in Nat /\ h[a] \in Nat /\ h[b] \in Nat
              /\ h[p] = h[a] + 2 /\ h[p] = h[b] + Count(t, b)
<1>1. /\ Shape(t) /\ p \in In(t) /\ s \in Side /\ a \in Spots(t) /\ b \in In(t)
      /\ a = Child(t, s, p) /\ b = Child(t, Other(s), p)
      /\ Black(t, a) /\ Black(t, Root(t))
      /\ \A n \in In(t) : Apart(t, n)
  BY DEF Lacking
<1>2. t \in Trees /\ Sound(t) /\ t.color[Sentinel] = "black"
  BY <1>1 DEF Shape
<1>3. /\ Other(s) \in Side /\ s # Other(s) /\ Other(Other(s)) = s /\ \A x \in Side : x = s \/ x = Other(s)
  BY <1>1, Sides
<1>4. /\ a \in All /\ p \in All /\ b \in All /\ p # Sentinel /\ b # Sentinel /\ Root(t) \in All
      /\ p \in Spots(t) /\ b \in Spots(t)
  BY <1>1, <1>2, Distinct DEF Spots, In, Sound
<1>5. PICK r : RankedBy(t, r)
  BY <1>1 DEF Shape, Ranked
<1>6. t.parent[b] = p /\ b # p /\ t.parent[p] \notin {p, b} /\ \A x \in Side : Child(t, x, b) \notin {b, p}
  BY <1>1, <1>2, <1>3, <1>5, RankFacts
<1>7. SideOf(t, b) = Other(s)
  BY <1>1, <1>2, <1>3, <1>4, <1>6, LinkFacts
<1>8. (a \in In(t) => t.parent[a] = p) /\ a # p
  <2>1. a \in In(t) => t.parent[a] = p
    BY <1>1, <1>2, <1>4 DEF Sound
  <2>2. QED
    BY <1>1, <1>6, <2>1
<1>9. ASSUME NEW h, Balanced(t, h, p, s)
      PROVE  /\ h[p] \in Nat /\ h[a] \in Nat /\ h[b] \in Nat
             /\ h[p] = h[a] + 2 /\ h[p] = h[b] + Count(t, b)
  <2>1. h[p] = h[a] + 1 + 1 /\ h[p] = h[b] + Count(t, b) + 0
    BY <1>1, <1>3, <1>9 DEF Balanced, Count, Extra
  <2>2. h[p] \in Nat /\ h[a] \in Nat /\ h[b] \in Nat /\ Count(t, b) \in {0, 1}
    BY <1>4, <1>9 DEF Balanced, Count
  <2>3. QED
    BY <2>1, <2>2
<1>10. a # b
  <2>1. PICK h : Balanced(t, h, p, s)
    BY DEF Lacking
  <2>2. h[a] \in Nat /\ h[p] = h[a] + 2 /\ h[p] = h[b] + Count(t, b)
    BY <1>9, <2>1
  <2>3. a = b => Count(t, b) = 1
    BY <1>1 DEF Count
  <2>4. QED
    BY <2>2, <2>3
<1>11. ASSUME NEW x \in Side
       PROVE  /\ Child(t, x, b) \notin {b, p} /\ Child(t, x, b) \in Spots(t) /\ Child(t, x, b) \in All
              /\ Child(t, x, b) \in In(t) => t.parent[Child(t, x, b)] = b /\ Child(t, x, b) # a
  <2>1. Child(t, x, b) \in Spots(t) /\ Child(t, x, b) \in All
    BY <1>1, <1>2, LinkFacts
  <2>2. Child(t, x, b) \in In(t) => t.parent[Child(t, x, b)] = b
    BY <1>2, <1>4 DEF Sound
  <2>3. Child(t, x, b) \in In(t) => Child(t, x, b) # a
    BY <1>6, <1>8, <2>2
  <2>4. QED
    BY <1>6, <2>1, <2>2, <2>3
<1>12. p # Root(t) => t.parent[p] \in In(t)
  BY <1>1, <1>2, LinkFacts, Rooted DEF Spots
<1>13. b # Root(t)
  BY <1>1, <1>4, <1>6, Rooted
<1>14. ASSUME NEW n \in In(t), t.parent[n] = p PROVE n = a \/ n = b
  BY <1>1, <1>2, <1>3, <1>14, LinkFacts
<1>15. QED
  BY <1>2, <1>3, <1>4, <1>6, <1>7, <1>8, <1>9, <1>10, <1>11, <1>12, <1>13, <1>14

\* A red sibling is rotated above the parent: its black child is the sibling then.
LEMMA Lifts ==
  ASSUME NEW t, NEW a, NEW p, NEW s, NEW b, Lacking(t, a, p, s, b), ~Black(t, b),
         NEW u, u = Rotate(Paint(Paint(t, b, "black"), p, "red"), p, s)
  PROVE  Lacking(u, a, p, s, Child(u, Other(s), p)) /\ Black(u, Child(u, Other(s), p))
<1> DEFINE o == Other(s)
           i == Child(t, s, b)
           y == Paint(Paint(t, b, "black"), p, "red")
<1>1. /\ Shape(t) /\ p \in In(t) /\ s \in Side /\ a \in Spots(t) /\ b \in In(t)
      /\ a = Child(t, s, p) /\ b = Child(t, o, p)
      /\ Black(t, a) /\ Black(t, Root(t))
      /\ \A n \in In(t) : Apart(t, n)
  BY DEF Lacking
<1>2. /\ t \in Trees /\ o \in Side /\ s # o /\ \A x \in Side : x = s \/ x = o
      /\ a \in All /\ p \in All /\ b \in All /\ p # Sentinel /\ b # Sentinel
      /\ t.parent[b] = p /\ SideOf(t, b) = o /\ b # p /\ t.parent[p] \notin {p, b}
      /\ a # p /\ a # b /\ (a \in In(t) => t.parent[a] = p)
      /\ \A x \in Side :
           /\ Child(t, x, b) \notin {b, p} /\ Child(t, x, b) \in Spots(t) /\ Child(t, x, b) \in All
           /\ Child(t, x, b) \in In(t) => t.parent[Child(t, x, b)] = b /\ Child(t, x, b) # a
      /\ b # Root(t) /\ Root(t) \in All /\ t.color[Sentinel] = "black"
      /\ \A n \in In(t) : t.parent[n] = p => n = a \/ n = b
  BY LackFacts
<1>3. PICK h : Balanced(t, h, p, s)
  BY DEF Lacking
<1>4. /\ h[p] \in Nat /\ h[a] \in Nat /\ h[b] \in Nat /\ h[p] = h[a] + 2 /\ h[p] = h[b] + Count(t, b)
  BY <1>3, LackFacts
<1>5. t.color[b] = "red" /\ t.color[p] = "black"
  BY <1>1, <1>2 DEF Black, Apart, Trees
<1>6. i \in In(t) /\ Black(t, i) /\ i \in All
  <2>1. i \in Spots(t) /\ i \in All /\ (i \in In(t) => t.parent[i] = b)
    BY <1>1, <1>2
  <2>2. h[b] = h[i] + Count(t, i) + 0
    BY <1>1, <1>2, <1>3 DEF Balanced, Extra
  <2>3. i = Sentinel => h[i] = 0 /\ Count(t, i) = 1
    BY <1>2, <1>3 DEF Balanced, Count, Black
  <2>4. Count(t, b) = 0
    BY DEF Count
  <2> HIDE DEF i
  <2>5. i # Sentinel
    BY <1>4, <2>2, <2>3, <2>4
  <2>6. i \in In(t)
    BY <2>1, <2>5 DEF Spots
  <2>7. Black(t, i)
    BY <1>1, <2>1, <2>6 DEF Apart
  <2>8. QED
    BY <2>1, <2>6, <2>7
<1>7. PaintedTwo(t, y, b, "black", p, "red") /\ u = Rotate(y, p, s)
  BY <1>2, PaintedTwice
<1> HIDE DEF y
<1>8. /\ y \in Trees /\ y.child = t.child /\ y.parent = t.parent
      /\ \A m \in All : y.color[m] = IF m = p THEN "red" ELSE IF m = b THEN "black" ELSE t.color[m]
  BY <1>7 DEF PaintedTwo
<1>9. y.color[Sentinel] = "black"
  BY <1>2, <1>8, Distinct
<1>10. Turning(t, y, u, p, s, b)
  BY <1>1, <1>2, <1>7, <1>8, <1>9, Turned
<1>11. /\ Rotated(y, u, p, s) /\ Shape(u) /\ In(u) = In(t) /\ Spots(u) = Spots(t) /\ u.color = y.color
       /\ u.parent[p] = b /\ u.parent[b] = t.parent[p]
       /\ \A m \in All : m \notin {p, b} => u.parent[m] = IF m = i THEN p ELSE t.parent[m]
       /\ Child(u, o, p) = i /\ Child(u, s, p) = a
       /\ Root(u) = IF p = Root(t) THEN b ELSE Root(t)
  BY <1>1, <1>10 DEF Turning
<1>12. \A m \in All : m # p => (Black(u, m) <=> Black(t, m) \/ m = b)
  BY <1>8, <1>11 DEF Black
<1>13. Balanced(u, h, p, s)
  <2>1. \A m \in All : y.color[m] = IF m = b THEN t.color[p] ELSE IF m = p THEN "red" ELSE t.color[m]
    BY <1>2, <1>5, <1>8
  <2>2. Extra(p, s, p, Other(s)) = 0 /\ Extra(p, s, b, s) = 0
    BY <1>2 DEF Extra
  <2>3. Sound(t) /\ Ranked(t)
    BY <1>1 DEF Shape
  <2>4. QED
    BY <1>1, <1>2, <1>3, <1>5, <1>8, <1>11, <2>1, <2>2, <2>3, SwapBalanced
<1> HIDE DEF i
<1>14. ASSUME NEW n \in In(u) PROVE Apart(u, n)
  <2>1. n \in In(t) /\ n \in All /\ t.parent[n] \in All /\ Apart(t, n)
    BY <1>1, <1>11, <1>14, LinkFacts DEF Shape
  <2>2. CASE n = p
    BY <1>2, <1>11, <1>12, <2>2 DEF Apart
  <2>3. CASE n # p /\ n \in {b, i, a}
    BY <1>1, <1>6, <1>12, <2>1, <2>3 DEF Apart
  <2>4. CASE n \notin {p, b, i, a}
    <3>1. u.parent[n] = t.parent[n] /\ t.parent[n] # p
      BY <1>2, <1>11, <2>1, <2>4
    <3>2. QED
      BY <1>12, <2>1, <2>4, <3>1 DEF Apart
  <2>5. QED
    BY <2>2, <2>3, <2>4
<1>15. Black(u, Root(u)) /\ Black(u, a) /\ Black(u, i)
  <2>1. i # p
    BY <1>1, <1>2 DEF i
  <2>2. QED
    BY <1>1, <1>2, <1>6, <1>11, <1>12, <2>1
<1>16. Lacking(u, a, p, s, i)
  BY <1>1, <1>6, <1>11, <1>13, <1>14, <1>15 DEF Lacking
<1>17. QED
  BY <1>11, <1>15, <1>16

\* The sibling and its children are black: the sibling turns red, and the parent is short.
LEMMA Ups ==
  ASSUME NEW t, NEW a, NEW p, NEW s, NEW b, Lacking(t, a, p, s, b), Black(t, b),
         \A x \in Side : Black(t, Child(t, x, b)), NEW u, u = Paint(t, b, "red")
  PROVE  Shape(u) /\ Deleting(u, p)
<1> DEFINE o == Other(s)
           q == t.parent[p]
           sd == SideOf(t, p)
<1>1. /\ Shape(t) /\ p \in In(t) /\ s \in Side /\ a \in Spots(t) /\ b \in In(t)
      /\ a = Child(t, s, p) /\ b = Child(t, o, p)
      /\ Black(t, a) /\ Black(t, Root(t))
      /\ \A n \in In(t) : Apart(t, n)
  BY DEF Lacking
<1>2. /\ t \in Trees /\ o \in Side /\ s # o /\ \A x \in Side : x = s \/ x = o
      /\ a \in All /\ p \in All /\ b \in All /\ p # Sentinel /\ b # Sentinel
      /\ t.parent[b] = p /\ b # p /\ q \notin {p, b} /\ a # p /\ a # b
      /\ b # Root(t) /\ Root(t) \in All /\ t.color[Sentinel] = "black"
  BY LackFacts
<1>3. PICK h : Balanced(t, h, p, s)
  BY DEF Lacking
<1>4. /\ h[p] \in Nat /\ h[a] \in Nat /\ h[b] \in Nat /\ h[p] = h[a] + 2 /\ h[p] = h[b] + Count(t, b)
  BY <1>3, LackFacts
<1>5. /\ sd \in Side /\ q \in Spots(t) /\ Child(t, sd, q) = p
      /\ \A m \in Spots(t), x \in Side : Child(t, x, m) = p <=> m = q /\ x = sd
  BY <1>1, LinkFacts DEF Shape
<1>6. /\ u \in Trees /\ u.child = t.child /\ u.parent = t.parent
      /\ \A m \in All : u.color[m] = IF m = b THEN "red" ELSE t.color[m]
  <2>1. Painted(t, u, b, "red")
    BY <1>2, PaintedIs
  <2>2. QED
    BY <2>1 DEF Painted
<1>7. /\ Shape(u) /\ In(u) = In(t) /\ Spots(u) = Spots(t) /\ Root(u) = Root(t) /\ SideOf(u, p) = sd
      /\ \A x, m : Child(u, x, m) = Child(t, x, m)
  <2>1. u.color[Sentinel] = "black"
    BY <1>2, <1>6, Distinct
  <2>2. QED
    BY <1>1, <1>6, <2>1, ColourOnly, PaintedSound
<1>8. \A m \in All : m # b => (Black(u, m) <=> Black(t, m))
  BY <1>6 DEF Black
<1>9. ~Black(u, b)
  BY <1>2, <1>6 DEF Black
<1> DEFINE k == [h EXCEPT ![p] = h[p] - 1]
<1>10. h \in [All -> Nat] /\ (\A m \in All : h[m] \in Nat) /\ h[p] - 1 \in Nat
  BY <1>3, <1>4 DEF Balanced
<1>11. k \in [All -> Nat] /\ \A m \in All : k[m] = IF m = p THEN h[p] - 1 ELSE h[m]
  BY <1>2, <1>10
<1> HIDE DEF k, q, sd
<1>12. ASSUME NEW n \in In(u), NEW x \in Side
       PROVE  k[n] = k[Child(u, x, n)] + Count(u, Child(u, x, n)) + Extra(q, sd, n, x)
  <2> DEFINE c == Child(t, x, n)
  <2>1. n \in In(t) /\ n \in Spots(t) /\ n \in All /\ c \in All /\ c = Child(u, x, n)
        /\ (c \in In(t) => t.parent[c] = n)
    <3>1. n \in In(t) /\ n \in Spots(t) /\ c = Child(u, x, n)
      BY <1>7, <1>12 DEF Spots
    <3>2. n \in All /\ c \in All
      BY <1>1, <3>1, LinkFacts DEF Shape
    <3>3. c \in In(t) => t.parent[c] = n
      BY <1>1, <3>1 DEF Shape, Sound
    <3>4. QED
      BY <3>1, <3>2, <3>3
  <2>2. h[n] = h[c] + Count(t, c) + Extra(p, s, n, x)
    BY <1>3, <2>1 DEF Balanced
  <2>3. (c = p <=> n = q /\ x = sd) /\ (n = p /\ x = s => c = a) /\ (n = p /\ x = o => c = b)
    BY <1>1, <1>5, <2>1
  <2> HIDE DEF c
  <2>4. CASE n = p /\ x = s
    <3>1. k[n] = h[p] - 1 /\ k[c] = h[a] /\ Count(u, c) = 1 /\ Extra(q, sd, n, x) = 0
      BY <1>1, <1>2, <1>8, <1>11, <2>3, <2>4 DEF Count, Extra
    <3>2. QED
      BY <1>4, <2>1, <3>1
  <2>5. CASE n = p /\ x = o
    <3>1. k[n] = h[p] - 1 /\ k[c] = h[b] /\ Count(u, c) = 0 /\ Count(t, b) = 1 /\ Extra(q, sd, n, x) = 0
      BY <1>1, <1>2, <1>9, <1>11, <2>3, <2>5 DEF Count, Extra
    <3>2. QED
      BY <1>4, <2>1, <3>1
  <2>6. CASE n # p /\ c = p
    <3>1. k[n] = h[n] /\ k[c] = h[p] - 1 /\ Count(u, c) = Count(t, c) /\ Extra(q, sd, n, x) = 1
          /\ Extra(p, s, n, x) = 0 /\ Count(t, c) \in {0, 1}
      BY <1>2, <1>8, <1>11, <2>1, <2>3, <2>6 DEF Count, Extra
    <3>2. h[n] = h[p] + Count(t, c) + 0
      BY <2>2, <2>6, <3>1
    <3>3. QED
      BY <1>4, <2>1, <3>1, <3>2
  <2>7. CASE n # p /\ c # p
    <3>1. c # b
      BY <1>1, <1>2, <2>1, <2>7
    <3>2. k[n] = h[n] /\ k[c] = h[c] /\ Count(u, c) = Count(t, c) /\ Extra(q, sd, n, x) = 0
          /\ Extra(p, s, n, x) = 0
      BY <1>2, <1>8, <1>11, <2>1, <2>3, <2>7, <3>1 DEF Count, Extra
    <3>3. QED
      BY <2>1, <2>2, <3>2
  <2>8. QED
    BY <1>2, <2>4, <2>5, <2>6, <2>7
<1>13. Balanced(u, k, q, sd)
  <2>1. k[Sentinel] = 0
    BY <1>2, <1>3, <1>11, Distinct DEF Balanced
  <2>2. QED
    BY <1>11, <1>12, <2>1 DEF Balanced
<1>14. ASSUME NEW n \in In(u) PROVE Apart(u, n) \/ p = n \/ p = u.parent[n]
  <2>1. n \in In(t) /\ n \in All /\ t.parent[n] \in All /\ Apart(t, n) /\ u.parent[n] = t.parent[n]
    BY <1>1, <1>6, <1>7, <1>14, LinkFacts DEF Shape
  <2>2. CASE t.parent[n] = b
    <3>1. SideOf(t, n) \in Side /\ Child(t, SideOf(t, n), b) = n
      BY <1>1, <2>1, <2>2, LinkFacts DEF Shape
    <3>2. Black(t, n) /\ n # b
      <4>1. Black(t, n)
        BY <3>1
      <4>2. QED
        BY <1>2, <2>2, <4>1
    <3>3. QED
      BY <1>8, <2>1, <3>2 DEF Apart
  <2>3. CASE t.parent[n] # b
    BY <1>2, <1>8, <2>1, <2>3 DEF Apart
  <2>4. QED
    BY <2>2, <2>3
<1>15. Black(u, Root(u))
  BY <1>1, <1>2, <1>7, <1>8
<1>16. u.parent[p] = q /\ q \in Spots(u) /\ p \in Spots(u) /\ Child(u, SideOf(u, p), q) = p
  BY <1>1, <1>5, <1>6, <1>7 DEF q, Spots
<1>17. QED
  BY <1>7, <1>13, <1>14, <1>15, <1>16 DEF Deleting

\* A red inner nephew is rotated outwards, above the sibling.
LEMMA Bends ==
  ASSUME NEW t, NEW a, NEW p, NEW s, NEW b, Lacking(t, a, p, s, b), Black(t, b),
         Black(t, Child(t, Other(s), b)), ~Black(t, Child(t, s, b)),
         NEW u, u = Rotate(Paint(Paint(t, b, "red"), Child(t, s, b), "black"), b, Other(s))
  PROVE  LET i == Child(u, Other(s), p)
         IN Lacking(u, a, p, s, i) /\ Black(u, i) /\ ~Black(u, Child(u, Other(s), i))
            /\ u.color[p] = t.color[p]
<1> DEFINE o == Other(s)
           i == Child(t, s, b)
           y == Paint(Paint(t, b, "red"), i, "black")
<1>1. /\ Shape(t) /\ p \in In(t) /\ s \in Side /\ a \in Spots(t) /\ b \in In(t)
      /\ a = Child(t, s, p) /\ b = Child(t, o, p)
      /\ Black(t, a) /\ Black(t, Root(t))
      /\ \A n \in In(t) : Apart(t, n)
  BY DEF Lacking
<1>2. /\ t \in Trees /\ o \in Side /\ s # o /\ Other(o) = s /\ \A x \in Side : x = s \/ x = o
      /\ a \in All /\ p \in All /\ b \in All /\ p # Sentinel /\ b # Sentinel
      /\ t.parent[b] = p /\ SideOf(t, b) = o /\ b # p /\ t.parent[p] \notin {p, b}
      /\ a # p /\ a # b /\ (a \in In(t) => t.parent[a] = p)
      /\ \A x \in Side :
           /\ Child(t, x, b) \notin {b, p} /\ Child(t, x, b) \in Spots(t) /\ Child(t, x, b) \in All
           /\ Child(t, x, b) \in In(t) => t.parent[Child(t, x, b)] = b /\ Child(t, x, b) # a
      /\ b # Root(t) /\ Root(t) \in All /\ t.color[Sentinel] = "black"
      /\ \A n \in In(t) : t.parent[n] = p => n = a \/ n = b
  BY LackFacts
<1>3. PICK h : Balanced(t, h, p, s)
  BY DEF Lacking
<1>4. i \in In(t) /\ i \in All /\ t.parent[i] = b /\ i \notin {b, p, a} /\ i # Sentinel
  <2>1. i # Sentinel
    BY <1>2 DEF Black
  <2>2. i \in In(t)
    BY <1>1, <1>2, <2>1 DEF Spots
  <2>3. QED
    BY <1>1, <1>2, <2>1, <2>2
<1>5. t.color[i] = "red" /\ t.color[b] = "black"
  BY <1>2, <1>4 DEF Black, Trees
<1>6. PaintedTwo(t, y, b, "red", i, "black") /\ u = Rotate(y, b, o)
  BY <1>2, <1>4, PaintedTwice
<1> HIDE DEF y
<1>7. /\ y \in Trees /\ y.child = t.child /\ y.parent = t.parent
      /\ \A m \in All : y.color[m] = IF m = i THEN "black" ELSE IF m = b THEN "red" ELSE t.color[m]
  BY <1>6 DEF PaintedTwo
<1>8. y.color[Sentinel] = "black"
  BY <1>2, <1>4, <1>7, Distinct
<1>9. Turning(t, y, u, b, o, i)
  BY <1>1, <1>2, <1>4, <1>6, <1>7, <1>8, Turned
<1>10. /\ Rotated(y, u, b, o) /\ Shape(u) /\ In(u) = In(t) /\ Spots(u) = Spots(t) /\ u.color = y.color
       /\ u.parent[b] = i /\ u.parent[i] = p
       /\ \A m \in All : m \notin {b, i} => u.parent[m] = IF m = Child(t, o, i) THEN b ELSE t.parent[m]
       /\ Child(u, o, i) = b /\ Root(u) = Root(t)
       /\ \A m \in Spots(t), x \in Side : m \notin {b, i} =>
            Child(u, x, m) = IF m = p /\ x = o THEN i ELSE Child(t, x, m)
       /\ Child(t, o, i) \notin {b, i}
  BY <1>2, <1>9 DEF Turning
<1>11. \A m \in All : m # b => (Black(u, m) <=> Black(t, m) \/ m = i)
  BY <1>7, <1>10 DEF Black
<1>12. ~Black(u, b) /\ Black(u, i) /\ u.color[p] = t.color[p]
  BY <1>2, <1>4, <1>7, <1>10 DEF Black
<1>13. Child(u, s, p) = a /\ Child(u, o, p) = i
  <2>1. p \in Spots(t)
    BY <1>1 DEF Spots
  <2>2. QED
    BY <1>1, <1>2, <1>4, <1>10, <2>1
<1>14. Balanced(u, h, p, s)
  <2>1. \A m \in All : y.color[m] = IF m = i THEN t.color[b] ELSE IF m = b THEN "red" ELSE t.color[m]
    BY <1>4, <1>5, <1>7
  <2>2. Extra(p, s, b, Other(o)) = 0 /\ Extra(p, s, i, o) = 0
    BY <1>2, <1>4 DEF Extra
  <2>3. Sound(t) /\ Ranked(t) /\ i = Child(t, Other(o), b)
    BY <1>1, <1>2 DEF Shape
  <2> HIDE DEF i
  <2>4. QED
    BY <1>1, <1>2, <1>3, <1>4, <1>5, <1>7, <1>10, <2>1, <2>2, <2>3, SwapBalanced
<1>15. ASSUME NEW n \in In(u) PROVE Apart(u, n)
  <2>1. n \in In(t) /\ n \in All /\ t.parent[n] \in All /\ Apart(t, n)
    BY <1>1, <1>10, <1>15, LinkFacts DEF Shape
  <2>2. CASE n = b
    BY <1>10, <1>12, <2>2 DEF Apart
  <2>3. CASE n = i
    BY <1>12, <2>3 DEF Apart
  <2>4. CASE n = Child(t, o, i)
    <3>1. t.parent[n] = i
      BY <1>1, <1>2, <1>4, <2>1, <2>4 DEF Shape, Sound, Spots
    <3>2. Black(t, n) /\ n # b
      BY <1>5, <1>10, <2>1, <2>4, <3>1 DEF Apart, Black
    <3>3. QED
      BY <1>11, <2>1, <3>2 DEF Apart
  <2>5. CASE n \notin {b, i, Child(t, o, i)}
    <3>1. u.parent[n] = t.parent[n]
      BY <1>10, <2>1, <2>5
    <3>2. CASE t.parent[n] = b
      <4>1. SideOf(t, n) \in Side /\ Child(t, SideOf(t, n), b) = n
        BY <1>1, <2>1, <3>2, LinkFacts DEF Shape
      <4>2. n = Child(t, o, b)
        BY <1>2, <2>5, <4>1
      <4>3. QED
        BY <1>11, <2>1, <2>5, <4>2 DEF Apart
    <3>3. CASE t.parent[n] # b
      BY <1>11, <2>1, <2>5, <3>1, <3>3 DEF Apart
    <3>4. QED
      BY <3>2, <3>3
  <2>6. QED
    BY <2>2, <2>3, <2>4, <2>5
<1>16. Black(u, Root(u)) /\ Black(u, a)
  BY <1>1, <1>2, <1>10, <1>11
<1> HIDE DEF i
<1>17. Lacking(u, a, p, s, i)
  BY <1>1, <1>4, <1>10, <1>13, <1>14, <1>15, <1>16 DEF Lacking
<1>18. QED
  BY <1>10, <1>12, <1>13, <1>17

\* With a red outer nephew, the sibling is rotated above the parent: none is short then.
LEMMA Fills ==
  ASSUME NEW t, NEW a, NEW p, NEW s, NEW b, Lacking(t, a, p, s, b), Black(t, b),
         NEW e, e = Child(t, Other(s), b), ~Black(t, e),
         NEW u, u = Rotate(Paint(Paint(Paint(t, b, t.color[p]), p, "black"), e, "black"), p, s)
  PROVE  Shape(u) /\ Whole(u)
<1> DEFINE o == Other(s)
           i == Child(t, s, b)
           y == Paint(Paint(Paint(t, b, t.color[p]), p, "black"), e, "black")
<1>1. /\ Shape(t) /\ p \in In(t) /\ s \in Side /\ a \in Spots(t) /\ b \in In(t)
      /\ a = Child(t, s, p) /\ b = Child(t, o, p)
      /\ Black(t, a) /\ Black(t, Root(t))
      /\ \A n \in In(t) : Apart(t, n)
  BY DEF Lacking
<1>2. /\ t \in Trees /\ o \in Side /\ s # o /\ \A x \in Side : x = s \/ x = o
      /\ a \in All /\ p \in All /\ b \in All /\ p # Sentinel /\ b # Sentinel
      /\ t.parent[b] = p /\ SideOf(t, b) = o /\ b # p /\ t.parent[p] \notin {p, b}
      /\ a # p /\ a # b /\ (a \in In(t) => t.parent[a] = p)
      /\ \A x \in Side :
           /\ Child(t, x, b) \notin {b, p} /\ Child(t, x, b) \in Spots(t) /\ Child(t, x, b) \in All
           /\ Child(t, x, b) \in In(t) => t.parent[Child(t, x, b)] = b /\ Child(t, x, b) # a
      /\ b # Root(t) /\ Root(t) \in All /\ t.color[Sentinel] = "black"
      /\ \A n \in In(t) : t.parent[n] = p => n = a \/ n = b
  BY LackFacts
<1>3. PICK h : Balanced(t, h, p, s)
  BY DEF Lacking
<1>4. /\ h[p] \in Nat /\ h[a] \in Nat /\ h[b] \in Nat /\ h[p] = h[a] + 2 /\ h[p] = h[b] + Count(t, b)
  BY <1>3, LackFacts
<1>5. e \in In(t) /\ e \in All /\ t.parent[e] = b /\ e \notin {b, p, a} /\ e # Sentinel
  <2>1. e # Sentinel
    BY <1>2 DEF Black
  <2>2. e \in In(t)
    BY <1>1, <1>2, <2>1 DEF Spots
  <2>3. QED
    BY <1>1, <1>2, <2>1, <2>2
<1>6. i \in All /\ i \notin {b, p} /\ (i # e)
  <2>1. b \in Spots(t)
    BY <1>1 DEF Spots
  <2>2. e = i => e = Sentinel
    <3>1. Child(t, "left", b) = Child(t, "right", b) => Child(t, "left", b) = Sentinel
      BY <1>1 DEF Shape, Sound
    <3>2. e = Child(t, o, b)
      OBVIOUS
    <3> HIDE DEF o
    <3>3. QED
      BY <1>1, <1>2, <3>1, <3>2 DEF Side
  <2>3. QED
    BY <1>1, <1>2, <1>5, <2>2
<1>7. t.color[p] \in {"red", "black"}
  BY <1>2 DEF Trees
<1>8. PaintedThree(t, y, b, t.color[p], p, "black", e, "black") /\ u = Rotate(y, p, s)
  BY <1>2, <1>5, <1>7, PaintedThrice
<1> HIDE DEF y
<1>9. /\ y \in Trees /\ y.child = t.child /\ y.parent = t.parent
      /\ \A m \in All : y.color[m] = IF m = e THEN "black" ELSE IF m = p THEN "black"
                                     ELSE IF m = b THEN t.color[p] ELSE t.color[m]
  BY <1>8 DEF PaintedThree
<1>10. y.color[Sentinel] = "black"
  BY <1>2, <1>5, <1>9, Distinct
<1>11. Turning(t, y, u, p, s, b)
  BY <1>1, <1>2, <1>8, <1>9, <1>10, Turned
<1>12. /\ Rotated(y, u, p, s) /\ Shape(u) /\ In(u) = In(t) /\ u.color = y.color
       /\ u.parent[p] = b /\ u.parent[b] = t.parent[p]
       /\ \A m \in All : m \notin {p, b} => u.parent[m] = IF m = i THEN p ELSE t.parent[m]
       /\ Root(u) = IF p = Root(t) THEN b ELSE Root(t)
  BY <1>11 DEF Turning
<1>13. \A m \in All : m # b => (Black(u, m) <=> Black(t, m) \/ m = p \/ m = e)
  BY <1>9, <1>12 DEF Black
<1>14. Black(u, b) <=> Black(t, p)
  BY <1>2, <1>5, <1>9, <1>12 DEF Black
<1> HIDE DEF i
<1>15. Black(u, Root(u))
  BY <1>1, <1>2, <1>12, <1>13, <1>14
<1>16. ASSUME NEW n \in In(u) PROVE Apart(u, n)
  <2>1. n \in In(t) /\ n \in All /\ t.parent[n] \in All /\ Apart(t, n)
    BY <1>1, <1>12, <1>16, LinkFacts DEF Shape
  <2>2. CASE n = p \/ n = e
    BY <1>2, <1>5, <1>13, <2>2 DEF Apart
  <2>3. CASE n = b
    <3>1. t.parent[p] \in All /\ Apart(t, p) /\ t.parent[p] # b
      BY <1>1, <1>2, LinkFacts DEF Shape
    <3>2. QED
      BY <1>12, <1>13, <1>14, <2>3, <3>1 DEF Apart
  <2>4. CASE n \notin {p, b, e}
    <3>1. CASE n = i
      <4>1. u.parent[n] = p /\ Black(u, p)
        BY <1>2, <1>12, <1>13, <2>1, <2>4, <3>1
      <4>2. QED
        BY <4>1 DEF Apart
    <3>2. CASE n # i
      <4>1. u.parent[n] = t.parent[n]
        BY <1>12, <2>1, <2>4, <3>2
      <4>2. t.parent[n] # b
        <5>1. t.parent[n] = b => SideOf(t, n) \in Side /\ Child(t, SideOf(t, n), b) = n
          BY <1>1, <2>1, LinkFacts DEF Shape
        <5>2. QED
          BY <1>2, <2>4, <3>2, <5>1 DEF i
      <4>3. QED
        BY <1>13, <2>1, <2>4, <4>1, <4>2 DEF Apart
    <3>3. QED
      BY <3>1, <3>2
  <2>5. QED
    BY <2>2, <2>3, <2>4
<1> DEFINE g == [h EXCEPT ![p] = h[b], ![b] = h[p]]
<1>17. h \in [All -> Nat] /\ \A m \in All : h[m] \in Nat
  BY <1>3 DEF Balanced
<1>18. g \in [All -> Nat] /\ g[p] = h[b] /\ g[b] = h[p] /\ \A m \in All \ {p, b} : g[m] = h[m]
  BY <1>2, <1>17
<1> HIDE DEF g
<1>19. /\ Count(t, b) = 1 /\ Count(y, p) = 1 /\ Count(y, e) = 1 /\ Count(t, e) = 0 /\ Count(y, a) = 1
       /\ Count(y, i) = Count(t, i) /\ Count(y, b) = Count(t, p)
  BY <1>1, <1>2, <1>5, <1>6, <1>9 DEF Count, Black
<1>20. /\ h[b] = h[i] + Count(t, i) + 0 /\ h[b] = h[e] + Count(t, e) + 0
  BY <1>1, <1>2, <1>3 DEF Balanced, Extra, i
<1>21. \A m, x : Extra(Null, "left", m, x) = IF m = Null /\ x = "left" THEN 1 ELSE 0
  BY DEF Extra
<1>22. p # Null /\ b # Null
  BY <1>2, Distinct
<1>23. /\ g[p] = h[i] + Count(y, i) + Extra(Null, "left", p, o)
       /\ g[p] = h[a] + Count(y, a) + Extra(Null, "left", p, s)
       /\ g[b] = g[p] + Count(y, p) + Extra(Null, "left", b, s)
       /\ g[b] = h[e] + Count(y, e) + Extra(Null, "left", b, o)
       /\ g[b] + Count(y, b) = h[p] + Count(t, p)
  <2>1. h[i] \in Nat /\ h[e] \in Nat /\ h[a] \in Nat /\ Count(t, i) \in {0, 1} /\ Count(t, p) \in {0, 1}
    BY <1>2, <1>5, <1>6, <1>17 DEF Count
  <2>2. h[p] = h[b] + 1 /\ h[b] = h[a] + 1 /\ h[b] = h[e]
    BY <1>4, <1>19, <1>20, <2>1
  <2>3. /\ Extra(Null, "left", p, o) = 0 /\ Extra(Null, "left", p, s) = 0
        /\ Extra(Null, "left", b, s) = 0 /\ Extra(Null, "left", b, o) = 0
    BY <1>21, <1>22
  <2>4. QED
    BY <1>18, <1>19, <1>20, <2>1, <2>2, <2>3
<1>24. \A m \in All \ {p, b} : g[m] = h[m] /\ \A x \in Side : Extra(Null, "left", m, x) = Extra(p, s, m, x)
  BY <1>18, <1>21, Distinct DEF Extra
<1>25. \A m \in All \ {p, b} : m # e \/ m = Sentinel => y.color[m] = t.color[m]
  BY <1>5, <1>9
<1>26. Balanced(u, g, Null, "left")
  <2>1. /\ t \in Trees /\ Sound(t) /\ Ranked(t) /\ p \in In(t) /\ s \in Side
        /\ Child(t, Other(s), p) \in In(t) /\ b = Child(t, Other(s), p)
        /\ y \in Trees /\ y.child = t.child /\ y.parent = t.parent
        /\ Rotated(y, u, p, s) /\ Balanced(t, h, p, s) /\ g \in [All -> Nat]
    BY <1>1, <1>2, <1>3, <1>9, <1>12, <1>18 DEF Shape
  <2>2. \A m \in All \ {p, b} : m # Child(t, Other(s), b) \/ m = Sentinel => y.color[m] = t.color[m]
    BY <1>25
  <2>3. /\ g[p] = h[Child(t, s, b)] + Count(y, Child(t, s, b)) + Extra(Null, "left", p, Other(s))
        /\ g[p] = h[Child(t, s, p)] + Count(y, Child(t, s, p)) + Extra(Null, "left", p, s)
        /\ g[b] = g[p] + Count(y, p) + Extra(Null, "left", b, s)
        /\ g[b] = h[Child(t, Other(s), b)] + Count(y, Child(t, Other(s), b)) + Extra(Null, "left", b, Other(s))
        /\ g[b] + Count(y, b) = h[p] + Count(t, p)
    BY <1>1, <1>23 DEF i
  <2>4. QED
    <3> HIDE <1>1, <1>2, <1>3, <1>9, <1>12, <1>18, <1>23, <1>25
    <3>1. QED
      BY <1>24, <2>1, <2>2, <2>3, RotatedBalanced
<1>27. QED
  BY <1>12, <1>15, <1>16, <1>26 DEF Whole

\* The node is the root or red: painted black, it counts for the one that was short.
LEMMA DeleteEnds ==
  ASSUME NEW t, Shape(t), NEW a, Deleting(t, a), a = Root(t) \/ ~Black(t, a), NEW u, u = Paint(t, a, "black")
  PROVE  Shape(u) /\ Whole(u)
<1> DEFINE p == t.parent[a]
           s == SideOf(t, a)
<1>1. /\ a \in Spots(t) /\ p \in Spots(t) /\ Child(t, s, p) = a /\ s \in Side /\ t \in Trees
      /\ t.color[Sentinel] = "black" /\ a \in All
  BY SideIn, Distinct DEF Deleting, Shape, Spots, In
<1>2. PICK h : Balanced(t, h, p, s)
  BY DEF Deleting
<1>3. /\ u \in Trees /\ u.child = t.child /\ u.parent = t.parent
      /\ \A m \in All : u.color[m] = IF m = a THEN "black" ELSE t.color[m]
  <2>1. Painted(t, u, a, "black")
    BY <1>1, PaintedIs
  <2>2. QED
    BY <2>1 DEF Painted
<1>4. /\ Shape(u) /\ In(u) = In(t) /\ Root(u) = Root(t)
      /\ \A x, m : Child(u, x, m) = Child(t, x, m)
  <2>1. u.color[Sentinel] = "black"
    BY <1>1, <1>3, Distinct
  <2>2. QED
    BY <1>3, <2>1, ColourOnly
<1>5. \A m \in All : Black(u, m) <=> Black(t, m) \/ m = a
  BY <1>3 DEF Black
<1>6. p \in In(t) => a # Root(t) /\ ~Black(t, a)
  <2>1. p \in In(t) /\ a = Root(t) => a # Sentinel
    BY Rooted
  <2>2. p \in In(t) => p # Sentinel
    BY LinkFacts DEF Shape
  <2>3. QED
    BY <2>1, <2>2, Rooted
<1> HIDE DEF p, s
<1>7. ASSUME NEW n \in In(u), NEW x \in Side
      PROVE  h[n] = h[Child(u, x, n)] + Count(u, Child(u, x, n)) + Extra(Null, "left", n, x)
  <2> DEFINE c == Child(t, x, n)
  <2>1. n \in In(t) /\ n \in All /\ n \in Spots(t) /\ n # Null /\ c \in All /\ c \in Spots(t) /\ c = Child(u, x, n)
    <3>1. n \in In(t) /\ n \in Spots(t) /\ c = Child(u, x, n)
      BY <1>4, <1>7 DEF Spots
    <3>2. QED
      BY <3>1, LinkFacts DEF Shape
  <2>2. h[n] = h[c] + Count(t, c) + Extra(p, s, n, x)
    BY <1>2, <2>1 DEF Balanced
  <2>3. Extra(Null, "left", n, x) = 0 /\ h[c] \in Nat
    BY <1>2, <2>1 DEF Extra, Balanced
  <2>4. n = p /\ x = s => c = a
    BY <1>1
  <2>5. c = a /\ a \in In(t) => n = p /\ x = s
    BY <2>1, LinkFacts DEF Shape, p, s
  <2> HIDE DEF c
  <2>6. CASE n = p /\ x = s
    <3>1. Count(t, c) = 0 /\ Count(u, c) = 1 /\ Extra(p, s, n, x) = 1
      BY <1>1, <1>5, <1>6, <2>1, <2>4, <2>6 DEF Count, Extra
    <3>2. QED
      BY <2>1, <2>2, <2>3, <3>1
  <2>7. CASE ~ (n = p /\ x = s)
    <3>1. c = a => c = Sentinel
      BY <1>1, <2>5, <2>7 DEF Spots
    <3>2. Count(u, c) = Count(t, c) /\ Extra(p, s, n, x) = 0
      BY <1>1, <1>5, <2>1, <2>7, <3>1 DEF Count, Extra, Black
    <3>3. QED
      BY <2>1, <2>2, <2>3, <3>2
  <2>8. QED
    BY <2>6, <2>7
<1>8. Balanced(u, h, Null, "left")
  BY <1>2, <1>7 DEF Balanced
<1>9. ASSUME NEW n \in In(u) PROVE Apart(u, n)
  <2>1. n \in In(t) /\ n \in All /\ t.parent[n] \in All /\ (Apart(t, n) \/ a = n \/ a = t.parent[n])
    BY <1>4, <1>9, LinkFacts DEF Shape, Deleting
  <2>2. QED
    BY <1>3, <1>5, <2>1 DEF Apart
<1>10. Black(u, Root(u))
  <2>1. Root(t) \in All
    BY Distinct DEF Shape, Sound, Spots, In
  <2>2. QED
    BY <1>4, <1>5, <2>1 DEF Deleting
<1>11. QED
  BY <1>4, <1>8, <1>9, <1>10 DEF Whole

\* A node with at most one child leaves its place to it.
LEMMA Unlinks ==
  ASSUME NEW t, Shape(t), Whole(t), NEW x \in In(t), NEW z \in Side, Child(t, z, x) = Sentinel,
         NEW o, o = Child(t, Other(z), x), NEW u, Spliced(t, u, x, o)
  PROVE  /\ Shape(u) /\ In(u) = In(t) \ {x} /\ u.parent[o] = t.parent[x]
         /\ Black(t, x) => Deleting(u, o)
         /\ ~Black(t, x) => Whole(u)
<1> DEFINE p == t.parent[x]
           q == SideOf(t, x)
<1>1. t \in Trees /\ Sound(t) /\ Ranked(t) /\ Grounded(t) /\ t.color[Sentinel] = "black"
  BY DEF Shape
<1>2. Other(z) \in Side /\ \A y \in Side : y = z \/ y = Other(z)
  BY Sides
<1>3. /\ x \in All /\ x # Sentinel /\ p \in Spots(t) /\ p \in All /\ q \in Side
      /\ o \in Spots(t) /\ o \in All
      /\ \A m \in Spots(t), s \in Side : Child(t, s, m) = x <=> m = p /\ s = q
  BY <1>1, <1>2, LinkFacts
<1>4. o # x /\ p # x
  <2>1. PICK r : RankedBy(t, r)
    BY <1>1 DEF Ranked
  <2>2. r[x] \in Nat /\ (p # Sentinel => r[x] < r[p])
    BY <1>3, <2>1 DEF RankedBy
  <2>3. p # x
    BY <1>3, <2>2
  <2>4. o \in In(t) => t.parent[o] = x
    BY <1>1, <1>2 DEF Sound, Spots
  <2>5. QED
    BY <1>3, <2>3, <2>4
<1>5. /\ In(u) = In(t) \ {x} /\ Sound(u) /\ Ranked(u) /\ Grounded(u)
  BY <1>1, SplicedSound, SplicedGrounded
<1>6. PICK h : Balanced(t, h, Null, "left")
  BY DEF Whole
<1>7. IF Black(t, x) THEN Balanced(u, h, p, q) ELSE Balanced(u, h, Null, "left")
  BY <1>1, <1>6, SplicedSound
<1>8. /\ u \in Trees
      /\ \A m \in All : u.parent[m] = IF m = x THEN Null ELSE IF m = o THEN p ELSE t.parent[m]
      /\ \A m \in All, y \in Side :
           Child(u, y, m) = IF m = x THEN Null ELSE IF m = p /\ y = q THEN o ELSE Child(t, y, m)
      /\ \A m \in All : m # x => u.color[m] = t.color[m]
  BY DEF Spliced
<1>9. Shape(u)
  BY <1>1, <1>3, <1>5, <1>8, Distinct DEF Shape
<1>10. u.parent[o] = p /\ p \in Spots(u) /\ o \in Spots(u) /\ Child(u, q, p) = o
  BY <1>3, <1>4, <1>5, <1>8 DEF Spots
<1> HIDE DEF p, q
<1>11. \A m \in All : m # x => (Black(u, m) <=> Black(t, m))
  BY <1>8 DEF Black
<1>12. ASSUME NEW m \in In(u), m # o PROVE Apart(u, m)
  <2>1. m \in In(t) /\ m # x /\ m \in All /\ t.parent[m] \in All /\ Apart(t, m)
    BY <1>1, <1>5, <1>12, LinkFacts DEF Whole
  <2>2. t.parent[m] # x
    <3>1. t.parent[m] = x => SideOf(t, m) \in Side /\ Child(t, SideOf(t, m), x) = m
      BY <1>1, <2>1, LinkFacts
    <3>2. m # Sentinel
      BY <1>1, <2>1, LinkFacts
    <3>3. QED
      BY <1>2, <1>12, <3>1, <3>2
  <2>3. u.parent[m] = t.parent[m]
    BY <1>8, <1>12, <2>1
  <2>4. QED
    BY <1>11, <2>1, <2>2, <2>3 DEF Apart
<1>13. Root(u) = (IF x = Root(t) THEN o ELSE Root(t)) /\ Root(t) \in All
  <2>1. Root(u) = IF Sentinel = p /\ "left" = q THEN o ELSE Root(t)
    BY <1>3, <1>8, Distinct DEF Root, Child, Side
  <2>2. (Sentinel = p /\ "left" = q) <=> x = Root(t)
    BY <1>3, Rooted DEF p, q
  <2>3. QED
    BY <1>1, <2>1, <2>2, Distinct DEF Sound, Spots, In
<1>14. Black(u, Root(u)) \/ (x = Root(t) /\ o = Root(u))
  BY <1>11, <1>13 DEF Whole
<1>15. ASSUME Black(t, x) PROVE Deleting(u, o)
  <2>1. Balanced(u, h, p, q)
    BY <1>7, <1>15
  <2>2. SideOf(u, o) = q
    BY <1>3, <1>9, <1>10, <2>1, HoleSide
  <2>3. QED
    BY <1>10, <1>12, <1>14, <2>1, <2>2 DEF Deleting
<1>16. ASSUME ~Black(t, x) PROVE Whole(u)
  <2>1. x # Root(t)
    BY <1>16 DEF Whole
  <2>2. ASSUME o \in In(u) PROVE Apart(u, o)
    <3>1. o \in In(t) /\ t.parent[o] = x
      BY <1>1, <1>2, <1>5, <2>2 DEF Sound, Spots
    <3>2. Black(t, o)
      BY <1>16, <3>1 DEF Whole, Apart
    <3>3. QED
      BY <1>3, <1>4, <1>11, <3>2 DEF Apart
  <2>3. \A m \in In(u) : Apart(u, m)
    BY <1>12, <2>2
  <2>4. QED
    BY <1>7, <1>14, <1>16, <2>1, <2>3 DEF Whole
<1>17. QED
  BY <1>5, <1>9, <1>10, <1>15, <1>16 DEF p

\* A node x that takes the place of n changes no colour and no height.
LEMMA Replaces ==
  ASSUME NEW t, Shape(t), NEW n \in In(t), NEW x \in Node \ In(t), NEW u, Replaced(t, u, n, x)
  PROVE  /\ Shape(u)
         /\ Whole(t) => Whole(u)
         /\ \A a : Deleting(t, a) /\ a # n /\ (\A y \in Side : Child(t, y, n) = a => t.parent[a] = n)
              => Deleting(u, a)
<1>1. t \in Trees /\ Sound(t) /\ Ranked(t) /\ Grounded(t) /\ t.color[Sentinel] = "black"
  BY DEF Shape
<1>2. /\ In(u) = (In(t) \ {n}) \union {x} /\ Sound(u) /\ Ranked(u) /\ Grounded(u)
  BY <1>1, ReplacedSound, ReplacedGrounded
<1>3. \A h, p, sd : Balanced(t, h, p, sd) /\ p # x => \E g : Balanced(u, g, IF p = n THEN x ELSE p, sd)
  BY <1>1, ReplacedSound
<1>4. /\ n \in All /\ n # Sentinel /\ x \in All /\ x # Sentinel /\ x # n /\ x \notin Spots(t) /\ x # Null /\ n # Null
      /\ Sentinel \in All /\ \A m \in Spots(t) : m \in All
  BY <1>1, LinkFacts, Distinct DEF Spots, In
<1>5. /\ u \in Trees
      /\ \A m \in All : u.parent[m] = IF m = n THEN Null ELSE IF m = x THEN t.parent[n]
                                      ELSE IF \E y \in Side : m = Child(t, y, n) THEN x ELSE t.parent[m]
      /\ \A m \in All, y \in Side :
           Child(u, y, m) = IF m = n THEN Null ELSE IF m = x THEN Child(t, y, n)
                            ELSE IF m = t.parent[n] /\ y = SideOf(t, n) THEN x ELSE Child(t, y, m)
      /\ \A m \in All : m # n => u.color[m] = IF m = x THEN t.color[n] ELSE t.color[m]
  BY DEF Replaced
<1>6. Shape(u)
  BY <1>1, <1>2, <1>4, <1>5 DEF Shape
<1> DEFINE Back(m) == IF m = x THEN n ELSE m
<1>7. ASSUME NEW m \in In(u)
      PROVE  /\ Back(m) \in In(t) /\ u.parent[m] \in All
             /\ u.parent[m] # n /\ Back(u.parent[m]) = t.parent[Back(m)]
  <2>1. \A k \in In(t) : t.parent[k] # x /\ k \in All /\ t.parent[k] \in All
    BY <1>1, <1>4, LinkFacts
  <2>2. t.parent[n] # n
    <3>1. PICK r : RankedBy(t, r)
      BY <1>1 DEF Ranked
    <3>2. r[n] \in Nat /\ (t.parent[n] # Sentinel => r[n] < r[t.parent[n]])
      BY <1>4, <3>1 DEF RankedBy
    <3>3. QED
      BY <1>4, <3>2
  <2>3. CASE m = x
    BY <1>4, <1>5, <2>1, <2>2, <2>3
  <2>4. CASE m # x
    <3>1. m \in In(t) /\ m # n /\ m \in All
      BY <1>2, <1>7, <2>1, <2>4
    <3>2. (\E y \in Side : m = Child(t, y, n)) <=> t.parent[m] = n
      <4>1. (\E y \in Side : m = Child(t, y, n)) => t.parent[m] = n
        BY <1>1, <3>1 DEF Sound, Spots
      <4>2. t.parent[m] = n => SideOf(t, m) \in Side /\ m = Child(t, SideOf(t, m), n)
        BY <1>1, <3>1, LinkFacts
      <4>3. QED
        BY <4>1, <4>2
    <3>3. u.parent[m] = IF t.parent[m] = n THEN x ELSE t.parent[m]
      BY <1>5, <2>4, <3>1, <3>2
    <3>4. QED
      BY <1>4, <2>1, <2>4, <3>1, <3>3
  <2>5. QED
    BY <2>3, <2>4
<1>8. \A m \in All : m # n => (Black(u, m) <=> Black(t, Back(m)))
  BY <1>5 DEF Black
<1>9. ASSUME NEW m \in In(u) PROVE Apart(u, m) <=> Apart(t, Back(m))
  <2>1. m \in All /\ m # n
    BY <1>2, <1>4, <1>9 DEF Spots
  <2>2. QED
    BY <1>7, <1>8, <2>1 DEF Apart
<1>10. /\ Root(u) = IF n = Root(t) THEN x ELSE Root(t)
       /\ Root(t) \in All /\ Root(t) # x
  <2>1. Root(u) = IF Sentinel = t.parent[n] /\ "left" = SideOf(t, n) THEN x ELSE Root(t)
    BY <1>4, <1>5 DEF Root, Child, Side
  <2>2. (Sentinel = t.parent[n] /\ "left" = SideOf(t, n)) <=> n = Root(t)
    <3>1. n = Root(t) => t.parent[n] = Sentinel
      BY <1>4, Rooted
    <3>2. t.parent[n] = Sentinel => n = Root(t) /\ SideOf(t, n) = "left"
      BY Rooted
    <3>3. QED
      BY <3>1, <3>2
  <2>3. Root(t) \in Spots(t)
    BY <1>1 DEF Sound
  <2>4. QED
    BY <1>4, <2>1, <2>2, <2>3
<1>11. Black(u, Root(u)) <=> Black(t, Root(t))
  BY <1>4, <1>8, <1>10
<1>12. ASSUME Whole(t) PROVE Whole(u)
  <2>1. PICK h : Balanced(t, h, Null, "left")
    BY <1>12 DEF Whole
  <2>2. \E g : Balanced(u, g, IF Null = n THEN x ELSE Null, "left")
    BY <1>3, <1>4, <2>1
  <2>3. \A m \in In(u) : Apart(u, m)
    BY <1>7, <1>9, <1>12 DEF Whole
  <2>4. QED
    BY <1>4, <1>11, <1>12, <2>2, <2>3 DEF Whole
<1>13. ASSUME NEW a, Deleting(t, a), a # n, \A y \in Side : Child(t, y, n) = a => t.parent[a] = n
       PROVE  Deleting(u, a)
  <2> DEFINE P == t.parent[a]
             sd == SideOf(t, a)
             Q == IF P = n THEN x ELSE P
  <2>1. a \in Spots(t) /\ P \in Spots(t) /\ Child(t, sd, P) = a /\ sd \in Side
    BY <1>13, SideIn DEF Deleting
  <2>2. a \in All /\ P \in All /\ a # x /\ P # x
    BY <1>4, <2>1
  <2>3. (\E y \in Side : a = Child(t, y, n)) <=> P = n
    BY <1>13, <2>1
  <2>4. u.parent[a] = Q
    BY <1>5, <1>13, <2>2, <2>3
  <2>5. a \in Spots(u) /\ Q \in Spots(u)
    BY <1>2, <1>13, <2>1 DEF Spots
  <2>6. Child(u, sd, Q) = a
    <3>1. CASE P = n
      BY <1>4, <1>5, <2>1, <3>1
    <3>2. CASE P # n
      <4>1. ~ (P = t.parent[n] /\ sd = SideOf(t, n))
        BY <1>1, <1>13, <2>1, LinkFacts
      <4>2. QED
        BY <1>5, <2>1, <2>2, <3>2, <4>1
    <3>3. QED
      BY <3>1, <3>2
  <2>7. PICK h : Balanced(t, h, P, sd)
    BY <1>13 DEF Deleting
  <2>8. PICK g : Balanced(u, g, Q, sd)
    BY <1>3, <2>2, <2>7
  <2> HIDE DEF P, sd, Q
  <2>9. SideOf(u, a) = sd
    BY <1>6, <2>1, <2>4, <2>5, <2>6, <2>8, HoleSide
  <2>10. ASSUME NEW m \in In(u) PROVE Apart(u, m) \/ a = m \/ a = u.parent[m]
    <3>1. Back(m) \in In(t) /\ Back(u.parent[m]) = t.parent[Back(m)]
      BY <1>7, <2>10
    <3>2. Apart(t, Back(m)) \/ a = Back(m) \/ a = t.parent[Back(m)]
      BY <1>13, <3>1 DEF Deleting
    <3>3. QED
      BY <1>9, <1>13, <2>10, <3>1, <3>2
  <2>11. Black(u, Root(u)) \/ a = Root(u)
    BY <1>10, <1>11, <1>13 DEF Deleting
  <2>12. QED
    BY <2>4, <2>5, <2>6, <2>8, <2>9, <2>10, <2>11 DEF Deleting
<1>14. QED
  BY <1>6, <1>12, <1>13

-----------------------------------------------------------------------------
(* The steps.                                                              *)

\* js_rbtree_init makes an empty tree, which is whole.
LEMMA InitInv == Init => IInv
<1> SUFFICES ASSUME Init PROVE IInv
  OBVIOUS
<1>1. /\ tree = [child  |-> [s \in Side |-> [n \in All |->
                              IF n # Sentinel THEN Null ELSE IF s = "left" THEN Sentinel ELSE Callback]],
                 parent |-> [n \in All |-> Null],
                 color  |-> [n \in All |-> "black"]]
      /\ pc = "idle" /\ at = Sentinel
  BY DEF Init
<1>2. In(tree) = {} /\ Spots(tree) = {Sentinel}
  BY <1>1, Distinct DEF In, Spots
<1>3. tree \in Trees
  BY <1>1, Distinct DEF Trees, All
<1>4. \A s \in Side, n \in All :
        Child(tree, s, n) = IF n # Sentinel THEN Null ELSE IF s = "left" THEN Sentinel ELSE Callback
  BY <1>1 DEF Child
<1>5. Root(tree) = Sentinel /\ Child(tree, "right", Sentinel) = Callback
  BY <1>4, Distinct DEF Root, Child, Side
<1>6. Sound(tree)
  BY <1>2, <1>4, <1>5, Distinct DEF Sound
<1> DEFINE zero == [n \in All |-> 0]
<1>7. zero \in [All -> Nat] /\ zero[Sentinel] = 0
  BY Distinct
<1> HIDE DEF zero
<1>8. Ranked(tree)
  BY <1>2, <1>7 DEF Ranked, RankedBy
<1>9. Grounded(tree)
  BY <1>2 DEF Grounded
<1>10. tree.color[Sentinel] = "black"
  BY <1>1, Distinct
<1>11. Balanced(tree, zero, Null, "left")
  BY <1>2, <1>7 DEF Balanced
<1>12. Whole(tree)
  BY <1>2, <1>5, <1>10, <1>11 DEF Whole, Black
<1>13. QED
  BY <1>1, <1>2, <1>3, <1>6, <1>8, <1>9, <1>10, <1>12 DEF IInv, Shape

\* An operation that returns a whole tree.
LEMMA ReturnStep ==
  ASSUME NEW t, Shape(t), Whole(t), Return(t)
  PROVE  IInv'
<1>1. tree' = Forget(t) /\ pc' = "idle" /\ at' = Sentinel
  BY DEF Return, Forget
<1>2. Shape(tree') /\ Whole(tree') /\ Sentinel \in Spots(tree')
  BY <1>1, Returned
<1>3. QED
  BY <1>1, <1>2 DEF IInv

\* js_rbtree_insert, up to its fix-up.
LEMMA InsertStep ==
  ASSUME IInv, NEW n \in Node, Insert(n)
  PROVE  IInv'
<1> DEFINE p == Place(tree, n)
           s == IF p = Sentinel THEN "left" ELSE Turn(n, p)
           u == [tree EXCEPT !.child.left[n] = Sentinel,
                             !.child.right[n] = Sentinel,
                             !.color[n] = "red",
                             !.child[s][p] = n,
                             !.parent[n] = p]
<1>1. pc = "idle" /\ n \notin InTree /\ tree' = u /\ pc' = "insert" /\ at' = n
  BY DEF Insert
<1>2. Shape(tree) /\ Whole(tree) /\ n \in Node \ In(tree)
  BY <1>1 DEF IInv, InTree, In
<1>3. p \in Spots(tree) /\ s \in Side /\ Child(tree, s, p) = Sentinel
  BY <1>2, PlaceIs DEF Shape
<1>4. p = Sentinel => s = "left"
  OBVIOUS
<1> HIDE DEF p, s
<1>5. p \in All /\ p # n
  BY <1>2, <1>3, Distinct DEF Spots, In
<1>6. Added(tree, u, n, p, s)
  BY <1>2, <1>3, <1>5, AddedIs DEF Shape
<1> HIDE DEF u
<1>7. Shape(u) /\ Inserting(u, n)
  BY <1>2, <1>3, <1>4, <1>6, InsertStarts
<1>8. QED
  BY <1>1, <1>7 DEF IInv, Inserting, Spots

\* js_rbtree_insert_fixup meets a black parent.
LEMMA InsertDoneStep ==
  ASSUME IInv, InsertDone
  PROVE  IInv'
<1>1. Shape(tree) /\ Inserting(tree, at) /\ Black(tree, tree.parent[at])
  BY DEF IInv, InsertDone, Parent
<1>2. Shape(Paint(tree, Root(tree), "black")) /\ Whole(Paint(tree, Root(tree), "black"))
  BY <1>1, InsertEnds
<1>3. Return(Paint(tree, Root(tree), "black"))
  BY DEF InsertDone, InsertEnd
<1>4. QED
  BY <1>2, <1>3, ReturnStep

\* A round with a red uncle.
LEMMA InsertRecolourStep ==
  ASSUME IInv, InsertRecolour
  PROVE  IInv'
<1> DEFINE p == tree.parent[at]
           g == tree.parent[p]
           q == Child(tree, Other(SideOf(tree, p)), g)
           u == Paint(Paint(Paint(tree, q, "black"), p, "black"), g, "red")
<1>1. /\ Shape(tree) /\ Inserting(tree, at) /\ ~Black(tree, p) /\ ~Black(tree, q)
      /\ tree' = u /\ at' = g /\ pc' = "insert"
  BY DEF IInv, InsertRecolour, Recoloured, Uncle, Grandparent, Parent
<1>2. Shape(u) /\ Inserting(u, g)
  BY <1>1, Recolours
<1> HIDE DEF u, g
<1>3. QED
  BY <1>1, <1>2 DEF IInv, Inserting, Spots

\* The last round, with a black uncle.
LEMMA InsertRotateStep ==
  ASSUME IInv, InsertRotate
  PROVE  IInv'
<1> DEFINE p == tree.parent[at]
           g == tree.parent[p]
           s == SideOf(tree, p)
           v == IF at = Child(tree, Other(s), p) THEN Rotate(tree, p, s) ELSE tree
           c == IF at = Child(tree, Other(s), p) THEN at ELSE p
           u == Rotate(Paint(Paint(v, c, "black"), g, "red"), g, Other(s))
<1>1. /\ Shape(tree) /\ Inserting(tree, at) /\ ~Black(tree, p) /\ Black(tree, Child(tree, Other(s), g))
      /\ Return(Paint(u, Root(u), "black"))
  BY DEF IInv, InsertRotate, InsertEnd, Uncle, Grandparent, Parent
<1>2. Shape(Paint(u, Root(u), "black")) /\ Whole(Paint(u, Root(u), "black"))
  BY <1>1, InsertRotates
<1> HIDE DEF u
<1>3. QED
  BY <1>1, <1>2, ReturnStep

\* js_rbtree_delete finds a node with at most one child.
LEMMA SubstIs ==
  ASSUME Shape(tree), NEW n \in In(tree)
  PROVE  LET x == Subst(n)
             o == Orphan(n)
         IN /\ x \in In(tree) /\ o \in All /\ o # x
            /\ \E z \in Side : Child(tree, z, x) = Sentinel /\ o = Child(tree, Other(z), x)
            /\ x # n => o # n /\ \A y \in Side : Child(tree, y, n) # Sentinel
<1> DEFINE x == Subst(n)
           o == Orphan(n)
           m == Child(tree, "right", n)
<1>1. tree \in Trees /\ Sound(tree) /\ Ranked(tree)
  BY DEF Shape
<1>2. PICK r : RankedBy(tree, r)
  BY <1>1 DEF Ranked
<1>3. ASSUME NEW k \in In(tree), NEW y \in Side, Child(tree, y, k) \in In(tree)
      PROVE  r[Child(tree, y, k)] < r[k] /\ r[Child(tree, y, k)] \in Nat /\ r[k] \in Nat
  <2> DEFINE c == Child(tree, y, k)
  <2>1. tree.parent[c] = k /\ k # Sentinel /\ c \in All /\ k \in All /\ c \in In(tree)
    BY <1>1, <1>3, LinkFacts, RankFacts, <1>2
  <2> HIDE DEF c
  <2>2. r[c] < r[k] /\ r[c] \in Nat /\ r[k] \in Nat
    BY <1>2, <2>1 DEF RankedBy
  <2>3. QED
    BY <2>2 DEF c
<1>4. \A k \in In(tree) : r[k] \in Nat
  BY <1>1, <1>2, LinkFacts DEF RankedBy
<1>5. "left" \in Side /\ "right" \in Side /\ Other("left") = "right" /\ Other("right") = "left"
  BY DEF Side, Other
<1>6. CASE Sentinel \in {Child(tree, s, n) : s \in Side}
  <2>1. x = n
    BY <1>6 DEF Subst
  <2>2. o = IF Child(tree, "left", n) = Sentinel THEN Child(tree, "right", n) ELSE Child(tree, "left", n)
    BY <2>1 DEF Orphan
  <2>3. Child(tree, "left", n) = Sentinel \/ Child(tree, "right", n) = Sentinel
    BY <1>6 DEF Side
  <2>4. o \in All /\ o # n
    <3>1. \A y \in Side : Child(tree, y, n) \in Spots(tree) /\ Child(tree, y, n) \in All /\ n # Sentinel
      BY <1>1, LinkFacts
    <3>2. \A y \in Side : Child(tree, y, n) # n
      BY <1>3, <3>1 DEF Spots
    <3>3. QED
      BY <1>5, <2>2, <3>1, <3>2
  <2> HIDE DEF x, o
  <2>5. \E z \in Side : Child(tree, z, n) = Sentinel /\ o = Child(tree, Other(z), n)
    BY <1>5, <2>2, <2>3
  <2>6. QED
    BY <2>1, <2>4, <2>5 DEF x, o
<1>7. CASE Sentinel \notin {Child(tree, s, n) : s \in Side}
  <2>1. \A y \in Side : Child(tree, y, n) # Sentinel
    BY <1>7
  <2>2. m \in In(tree)
    BY <1>1, <1>5, <2>1, LinkFacts DEF Spots
  <2>3. x = BranchMin(tree, m)
    BY <1>7 DEF Subst
  <2>4. x \in In(tree) /\ Child(tree, "left", x) = Sentinel /\ r[x] <= r[m]
    BY <1>1, <1>2, <2>2, <2>3, BranchMinIs
  <2>5. o = Child(tree, "right", x)
    BY <2>4 DEF Orphan
  <2>6. o \in Spots(tree) /\ o \in All
    BY <1>1, <1>5, <2>4, <2>5, LinkFacts
  <2>7. r[m] < r[n] /\ (o \in In(tree) => r[o] < r[x])
    BY <1>3, <1>5, <2>2, <2>4, <2>5
  <2>8. n # Sentinel /\ x # Sentinel
    BY <1>1, <2>4, LinkFacts
  <2> HIDE DEF x, o, m
  <2>9. o # n /\ o # x
    <3>1. o \in In(tree) => r[o] < r[x] /\ r[x] <= r[m] /\ r[m] < r[n]
                            /\ r[o] \in Nat /\ r[x] \in Nat /\ r[m] \in Nat /\ r[n] \in Nat
      BY <1>4, <2>2, <2>4, <2>7
    <3>2. o \in In(tree) => r[o] # r[x] /\ r[o] # r[n]
      BY <3>1
    <3>3. QED
      BY <2>6, <2>8, <3>2 DEF Spots
  <2>10. QED
    BY <1>5, <2>1, <2>4, <2>5, <2>6, <2>9 DEF x, o
<1>8. QED
  BY <1>6, <1>7

\* What js_rbtree_delete has made of the tree before its fix-up.
LEMMA DeleteStarts ==
  ASSUME NEW t, Shape(t), Whole(t), NEW n \in In(t), NEW x \in In(t), NEW o \in All, o # x,
         \E z \in Side : Child(t, z, x) = Sentinel /\ o = Child(t, Other(z), x),
         x # n => o # n /\ \A y \in Side : Child(t, y, n) # Sentinel,
         NEW f, f = ParentRelink(t, o, x),
         NEW u, u = Cleared(IF x = n THEN f ELSE TakePlace(f, x, n), n)
  PROVE  Shape(u) /\ (Black(t, x) => Deleting(u, o)) /\ (~Black(t, x) => Whole(u))
<1> DEFINE v == Cleared(f, x)
<1>1. PICK z \in Side : Child(t, z, x) = Sentinel /\ o = Child(t, Other(z), x)
  OBVIOUS
<1>2. t \in Trees /\ x \in All /\ t.parent[x] \in All /\ x \in Node /\ x # Sentinel
  BY LinkFacts DEF Shape
<1>3. Spliced(t, v, x, o)
  BY <1>2, SplicedIs
<1>4. f \in Trees
  BY <1>2, RelinkIs
<1>5. /\ Shape(v) /\ In(v) = In(t) \ {x} /\ v.parent[o] = t.parent[x]
      /\ Black(t, x) => Deleting(v, o)
      /\ ~Black(t, x) => Whole(v)
  BY <1>1, <1>3, Unlinks
<1>6. CASE x = n
  BY <1>5, <1>6
<1>7. CASE x # n
  <2>1. n \in In(v) /\ x \in Node \ In(v) /\ n \in All
    BY <1>2, <1>5, <1>7, Distinct DEF In
  <2>2. u = Cleared(TakePlace(f, x, n), n)
    BY <1>7
  <2>3. Sound(v) /\ Ranked(v)
    BY <1>5 DEF Shape
  <2>4. Replaced(v, u, n, x)
    BY <1>2, <1>4, <2>1, <2>2, <2>3, ReplacedIs
  <2>5. ASSUME NEW y \in Side, Child(v, y, n) = o PROVE v.parent[o] = n
    <3>1. Child(v, y, n) = IF n = t.parent[x] /\ y = SideOf(t, x) THEN o ELSE Child(t, y, n)
      BY <1>3, <1>7, <2>1 DEF Spliced
    <3>2. Child(t, y, n) = o => FALSE
      <4>1. o # Sentinel => o \in In(t) /\ t.parent[o] = x
        <5>1. o \in Spots(t)
          BY <1>1, <1>2, Sides, LinkFacts DEF Shape
        <5>2. o \in In(t) => t.parent[o] = x
          BY <1>1, Sides DEF Shape, Sound, Spots
        <5>3. QED
          BY <5>1, <5>2 DEF Spots
      <4>2. Child(t, y, n) = o /\ o \in In(t) => t.parent[o] = n
        BY DEF Shape, Sound, Spots
      <4>3. QED
        BY <1>7, <4>1, <4>2
    <3>3. QED
      BY <1>5, <2>5, <3>1, <3>2
  <2>6. o # n
    BY <1>7
  <2> HIDE DEF v
  <2>7. QED
    BY <1>5, <2>1, <2>4, <2>5, <2>6, Replaces
<1>8. QED
  BY <1>6, <1>7

\* js_rbtree_delete, up to its fix-up.
LEMMA DeleteStep ==
  ASSUME IInv, NEW n \in Node, Delete(n)
  PROVE  IInv'
<1> DEFINE x == Subst(n)
           o == Orphan(n)
           f == ParentRelink(tree, o, x)
           u == Cleared(IF x = n THEN f ELSE TakePlace(f, x, n), n)
<1>1. /\ pc = "idle" /\ n \in InTree
      /\ \/ Black(tree, x) /\ tree' = u /\ pc' = "delete" /\ at' = o
         \/ ~Black(tree, x) /\ Return(u)
  BY DEF Delete, Cleared
<1>2. Shape(tree) /\ Whole(tree) /\ n \in In(tree)
  BY <1>1 DEF IInv, InTree, In
<1>3. /\ x \in In(tree) /\ o \in All /\ o # x
      /\ \E z \in Side : Child(tree, z, x) = Sentinel /\ o = Child(tree, Other(z), x)
      /\ x # n => o # n /\ \A y \in Side : Child(tree, y, n) # Sentinel
  BY <1>2, SubstIs
<1> HIDE DEF x, o
<1>4. Shape(u) /\ (Black(tree, x) => Deleting(u, o)) /\ (~Black(tree, x) => Whole(u))
  BY <1>2, <1>3, DeleteStarts
<1> HIDE DEF u
<1>5. CASE Black(tree, x)
  BY <1>1, <1>4, <1>5 DEF IInv, Deleting
<1>6. CASE ~Black(tree, x)
  BY <1>1, <1>4, <1>6, ReturnStep
<1>7. QED
  BY <1>5, <1>6

\* The sibling with which a round of js_rbtree_delete_fixup goes on is black.
LEMMA LiftedIs ==
  ASSUME IInv, Short
  PROVE  /\ Lacking(Lifted, at, Parent, SideOf(tree, at), Sibling) /\ Black(Lifted, Sibling)
<1> DEFINE s == SideOf(tree, at)
           b == Child(tree, Other(s), Parent)
<1>1. Lacking(tree, at, Parent, s, b)
  BY SiblingIs DEF IInv, Short, Parent
<1>2. CASE Black(tree, b)
  <2>1. Lifted = tree
    BY <1>2 DEF Lifted
  <2>2. Sibling = b
    BY <2>1 DEF Sibling
  <2>3. QED
    BY <1>1, <1>2, <2>1, <2>2
<1>3. CASE ~Black(tree, b)
  <2>1. Lifted = Rotate(Paint(Paint(tree, b, "black"), Parent, "red"), Parent, s)
    BY <1>3 DEF Lifted
  <2>2. Sibling = Child(Lifted, Other(s), Parent)
    BY DEF Sibling
  <2>3. QED
    BY <1>1, <1>3, <2>1, <2>2, Lifts
<1>4. QED
  BY <1>2, <1>3

\* A round with two black nephews.
LEMMA DeleteUpStep ==
  ASSUME IInv, DeleteUp
  PROVE  IInv'
<1> DEFINE s == SideOf(tree, at)
<1>1. /\ Short /\ Black(Lifted, Outer) /\ Black(Lifted, Inner)
      /\ tree' = Paint(Lifted, Sibling, "red") /\ at' = Parent /\ pc' = pc
  BY DEF DeleteUp, Upwards
<1>2. Lacking(Lifted, at, Parent, s, Sibling) /\ Black(Lifted, Sibling)
  BY <1>1, LiftedIs
<1>3. Outer = Child(Lifted, Other(s), Sibling) /\ Inner = Child(Lifted, s, Sibling)
  BY DEF Outer, Inner
<1>4. \A y \in Side : y = s \/ y = Other(s)
  BY SideIn, Sides
<1> HIDE DEF s
<1>5. \A y \in Side : Black(Lifted, Child(Lifted, y, Sibling))
  BY <1>1, <1>3, <1>4
<1>6. Shape(tree') /\ Deleting(tree', Parent)
  BY <1>1, <1>2, <1>5, Ups
<1>7. pc' = "delete"
  BY <1>1 DEF Short
<1>8. QED
  BY <1>1, <1>6, <1>7 DEF IInv, Deleting

\* The last round, with a red nephew.
LEMMA DeleteRotateStep ==
  ASSUME IInv, DeleteRotate
  PROVE  IInv'
<1> DEFINE s == SideOf(tree, at)
           v == IF Black(Lifted, Outer)
                THEN Rotate(Paint(Paint(Lifted, Sibling, "red"), Inner, "black"), Sibling, Other(s))
                ELSE Lifted
           b == Child(v, Other(s), Parent)
           e == Child(v, Other(s), b)
           u == Rotate(Paint(Paint(Paint(v, b, v.color[Parent]), Parent, "black"), e, "black"), Parent, s)
<1>1. Short /\ ~(Black(Lifted, Outer) /\ Black(Lifted, Inner)) /\ Return(u)
  BY DEF DeleteRotate
<1>2. Lacking(Lifted, at, Parent, s, Sibling) /\ Black(Lifted, Sibling)
  BY <1>1, LiftedIs
<1>3. Outer = Child(Lifted, Other(s), Sibling) /\ Inner = Child(Lifted, s, Sibling)
  BY DEF Outer, Inner
<1>4. Sibling = Child(Lifted, Other(s), Parent)
  BY DEF Sibling
<1> HIDE DEF s
<1>5. Lacking(v, at, Parent, s, b) /\ Black(v, b) /\ ~Black(v, e)
  <2>1. CASE Black(Lifted, Outer)
    BY <1>1, <1>2, <1>3, <2>1, Bends
  <2>2. CASE ~Black(Lifted, Outer)
    BY <1>2, <1>3, <1>4, <2>2
  <2>3. QED
    BY <2>1, <2>2
<1>6. Shape(u) /\ Whole(u)
  <2> HIDE DEF v, b
  <2>1. QED
    BY <1>5, Fills
<1> HIDE DEF u
<1>7. QED
  BY <1>1, <1>6, ReturnStep

\* js_rbtree_delete_fixup ends at the root or at a red node.
LEMMA DeleteDoneStep ==
  ASSUME IInv, DeleteDone
  PROVE  IInv'
<1>1. Shape(tree) /\ Deleting(tree, at) /\ (at = Root(tree) \/ ~Black(tree, at))
      /\ Return(Paint(tree, at, "black"))
  BY DEF IInv, DeleteDone, Short
<1>2. Shape(Paint(tree, at, "black")) /\ Whole(Paint(tree, at, "black"))
  BY <1>1, DeleteEnds
<1>3. QED
  BY <1>1, <1>2, ReturnStep

\* Every step keeps the invariant.
LEMMA StepInv == IInv /\ [Next]_vars => IInv'
<1> SUFFICES ASSUME IInv, [Next]_vars PROVE IInv'
  OBVIOUS
<1>1. ASSUME NEW n \in Node, Insert(n) PROVE IInv'
  BY <1>1, InsertStep
<1>2. ASSUME NEW n \in Node, Delete(n) PROVE IInv'
  BY <1>2, DeleteStep
<1>3. CASE Fixup
  BY <1>3, InsertDoneStep, InsertRecolourStep, InsertRotateStep, DeleteUpStep, DeleteRotateStep,
     DeleteDoneStep DEF Fixup
<1>4. CASE UNCHANGED vars
  BY <1>4 DEF vars, IInv
<1>5. QED
  BY <1>1, <1>2, <1>3, <1>4 DEF Next

-----------------------------------------------------------------------------
(* What the invariant says of the code's properties.                       *)

\* Types, also of the nodes that are in no tree, and the callback's place.
LEMMA InvType == IInv => TypeOK
<1> SUFFICES ASSUME IInv PROVE TypeOK
  OBVIOUS
<1>1. tree \in Trees /\ Sound(tree)
  BY DEF IInv, Shape
<1>2. /\ DOMAIN tree = {"child", "parent", "color"}
      /\ \A s \in Side : DOMAIN tree.child[s] = All
      /\ tree.parent \in [All -> All \union {Null}]
      /\ tree.color \in [All -> {"red", "black"}]
  BY <1>1 DEF Trees
<1>3. Spots(tree) \subseteq All
  BY Distinct DEF Spots, In
<1>4. \A s \in Side, n \in Node : Child(tree, s, n) \in All \union {Null}
  BY <1>1, <1>3 DEF Sound
<1>5. Root(tree) \in All /\ Child(tree, "right", Sentinel) = Callback
  BY <1>1, <1>3 DEF Sound
<1>6. pc \in {"idle", "insert", "delete"} /\ at \in All
  BY <1>3 DEF IInv
<1>7. QED
  BY <1>2, <1>4, <1>5, <1>6 DEF TypeOK

\* The links agree as they stand.
LEMMA InvLinks == IInv => LinksAgree
<1> SUFFICES ASSUME IInv PROVE LinksAgree
  OBVIOUS
<1>1. Sound(tree) /\ InTree = In(tree) /\ Linked = Spots(tree)
  BY DEF IInv, Shape, InTree, In, Linked, Spots
<1>2. QED
  BY <1>1 DEF Sound, LinksAgree

\* The heights of the invariant are the ones that Weight adds up.
LEMMA InvHeights ==
  ASSUME IInv
  PROVE  \E h \in [All -> Nat] :
           /\ h[Sentinel] = 0
           /\ \A n \in In(tree), s \in Side : h[n] = h[Child(tree, s, n)] + Weight(n, Child(tree, s, n))
<1>1. tree \in Trees /\ Sound(tree) /\ tree.color[Sentinel] = "black"
  BY DEF IInv, Shape
<1>2. \A n, c : Count(tree, c) \in Nat /\ Count(tree, c) + 0 = Count(tree, c)
  BY DEF Count
<1>3. CASE pc # "delete"
  <2>1. PICK h : Balanced(tree, h, Null, "left")
    BY <1>3 DEF IInv, Whole, Inserting
  <2>2. \A n \in In(tree) : n # Null
    BY <1>1, LinkFacts
  <2>3. \A n \in In(tree), s \in Side : Extra(Null, "left", n, s) = 0
    BY <2>2 DEF Extra
  <2>4. \A n, c : Weight(n, c) = Count(tree, c) + 0
    BY <1>3 DEF Weight, Count
  <2>5. ASSUME NEW n \in In(tree), NEW s \in Side
        PROVE  h[n] = h[Child(tree, s, n)] + Weight(n, Child(tree, s, n))
    <3> DEFINE c == Child(tree, s, n)
    <3>1. h[n] = h[c] + Count(tree, c) + Extra(Null, "left", n, s)
      BY <2>1, <2>5 DEF Balanced
    <3>2. c \in All /\ h[c] \in Nat
      BY <1>1, <2>1, LinkFacts DEF Balanced
    <3> HIDE DEF c
    <3>3. h[n] = h[c] + Weight(n, c)
      BY <1>2, <2>3, <2>4, <3>1, <3>2
    <3>4. QED
      BY <3>3 DEF c
  <2>6. QED
    BY <2>1, <2>5 DEF Balanced
<1>4. CASE pc = "delete"
  <2> DEFINE p == tree.parent[at]
             sd == SideOf(tree, at)
  <2>1. Deleting(tree, at)
    BY <1>4 DEF IInv
  <2>2. /\ at \in Spots(tree) /\ p \in Spots(tree) /\ Child(tree, sd, p) = at /\ sd \in Side
    BY <2>1, SideIn DEF Deleting
  <2>3. PICK h : Balanced(tree, h, p, sd)
    BY <2>1 DEF Deleting
  <2>4. ASSUME NEW n \in In(tree), NEW s \in Side
        PROVE  h[n] = h[Child(tree, s, n)] + Weight(n, Child(tree, s, n))
    <3> DEFINE c == Child(tree, s, n)
    <3>1. h[n] = h[c] + Count(tree, c) + Extra(p, sd, n, s)
      BY <2>3, <2>4 DEF Balanced
    <3>2. c \in All /\ h[c] \in Nat /\ n \in Spots(tree)
      BY <1>1, <2>3, LinkFacts DEF Balanced, Spots
    <3>3. n = p /\ s = sd => c = at
      BY <2>2
    <3>4. c = at /\ tree.parent[c] = n => n = p /\ s = sd
      <4>1. CASE at \in In(tree)
        BY <1>1, <2>2, <3>2, <4>1, LinkFacts
      <4>2. CASE at = Sentinel
        <5>1. p = n => h[n] = h[at] + 1 + 1
          BY <1>1, <2>2, <2>3, <4>2 DEF Balanced, Count, Extra, Black
        <5>2. c = at /\ p = n /\ s # sd => h[n] = h[at] + 1 + 0
          BY <1>1, <3>1, <4>2 DEF Count, Extra, Black
        <5>3. c = at => h[at] \in Nat
          BY <3>2
        <5> HIDE DEF c, sd
        <5>4. c = at /\ p = n => s = sd
          BY <5>1, <5>2, <5>3
        <5>5. QED
          BY <5>4
      <4>3. QED
        BY <2>2, <4>1, <4>2 DEF Spots
    <3>5. c = at => tree.parent[c] = p
      OBVIOUS
    <3> HIDE DEF c, p, sd
    <3>6. (n = p /\ s = sd) <=> (c = at /\ tree.parent[c] = n)
      BY <3>3, <3>4, <3>5
    <3>7. Weight(n, c) = Count(tree, c) + Extra(p, sd, n, s)
      BY <1>4, <3>6 DEF Weight, Count, Extra
    <3>8. Count(tree, c) \in Nat /\ Extra(p, sd, n, s) \in Nat
      BY DEF Count, Extra
    <3>9. h[n] = h[c] + Weight(n, c)
      BY <3>1, <3>2, <3>7, <3>8
    <3>10. QED
      BY <3>9 DEF c
  <2>5. QED
    BY <2>3, <2>4 DEF Balanced
<1>5. QED
  BY <1>3, <1>4

\* So all paths from the root count the same.
LEMMA InvPaths ==
  ASSUME IInv, Root(tree) # Sentinel
  PROVE  Cardinality(Blackness[Root(tree)]) = 1
<1> DEFINE S == Linked
           kids(n) == {Child(tree, s, n) : s \in Side}
           sums(n, f) == UNION {{Weight(n, c) + w : w \in f[c]} : c \in kids(n)}
           g(f) == [n \in S |-> IF n = Sentinel THEN {0} ELSE sums(n, f)]
           b == CHOOSE f : f = g(f)
<1>1. tree \in Trees /\ Sound(tree) /\ Ranked(tree)
  BY DEF IInv, Shape
<1>2. /\ S = In(tree) \union {Sentinel} /\ Sentinel \notin In(tree)
      /\ \A n \in In(tree) : n \in All
  BY Distinct DEF Linked, InTree, In
<1>3. PICK h \in [All -> Nat] :
        /\ h[Sentinel] = 0
        /\ \A n \in In(tree), s \in Side : h[n] = h[Child(tree, s, n)] + Weight(n, Child(tree, s, n))
  BY InvHeights
<1>4. \A n \in In(tree) : kids(n) # {} /\ \A c \in kids(n) : c \in S /\ c \in All
  BY <1>1, <1>2, LinkFacts DEF Spots, Side
<1>5. \A n, c : Weight(n, c) \in Nat
  BY DEF Weight
<1>6. ASSUME NEW n \in In(tree), NEW f, \A c \in kids(n) : f[c] = {h[c]}
      PROVE  sums(n, f) = {h[n]}
  <2>1. ASSUME NEW c \in kids(n) PROVE {Weight(n, c) + w : w \in f[c]} = {h[n]}
    <3>1. f[c] = {h[c]}
      BY <1>6
    <3>2. h[n] = h[c] + Weight(n, c)
      BY <1>3
    <3>3. h[c] \in Nat /\ Weight(n, c) \in Nat
      BY <1>4, <1>5
    <3>4. Weight(n, c) + h[c] = h[n]
      BY <3>2, <3>3
    <3> HIDE DEF kids
    <3>5. QED
      BY <3>1, <3>4
  <2> DEFINE part(c) == {Weight(n, c) + w : w \in f[c]}
  <2>2. \A c \in kids(n) : part(c) = {h[n]}
    BY <2>1
  <2>3. sums(n, f) = UNION {part(c) : c \in kids(n)}
    OBVIOUS
  <2> HIDE DEF part, sums
  <2>4. kids(n) # {}
    BY <1>4
  <2> HIDE DEF kids
  <2>5. QED
    BY <2>2, <2>3, <2>4
<1>7. \E f : f = g(f)
  <2> DEFINE j == [n \in S |-> {h[n]}]
  <2>1. ASSUME NEW n \in In(tree) PROVE sums(n, j) = j[n]
    <3>1. \A c \in kids(n) : j[c] = {h[c]}
      BY <1>4
    <3>2. j[n] = {h[n]}
      BY <1>2
    <3> HIDE DEF j, sums, kids
    <3>3. QED
      BY <1>6, <3>1, <3>2
  <2>2. j[Sentinel] = {0}
    BY <1>2, <1>3
  <2>3. j = [n \in S |-> j[n]]
    OBVIOUS
  <2> HIDE DEF j, sums
  <2>4. \A n \in S : j[n] = IF n = Sentinel THEN {0} ELSE sums(n, j)
    BY <1>2, <2>1, <2>2
  <2> HIDE DEF S
  <2>5. j = g(j)
    BY <2>3, <2>4
  <2>6. QED
    BY <2>5
<1>8. b = g(b)
  <2> HIDE DEF g
  <2>1. QED
    BY <1>7
<1> HIDE DEF b
<1>9. b[Sentinel] = {0} /\ \A n \in In(tree) : b[n] = sums(n, b)
  <2> HIDE DEF sums
  <2>1. \A n \in S : b[n] = IF n = Sentinel THEN {0} ELSE sums(n, b)
    BY <1>8
  <2>2. QED
    BY <1>2, <2>1
<1>10. PICK r : RankedBy(tree, r)
  BY <1>1 DEF Ranked
<1>11. \A n \in In(tree) : b[n] = {h[n]}
  <2> DEFINE Bad == {k \in Nat : \E n \in In(tree) : r[n] = k /\ b[n] # {h[n]}}
  <2> SUFFICES ASSUME Bad # {} PROVE FALSE
    BY <1>2, <1>10 DEF RankedBy
  <2>1. PICK k \in Bad : \A i \in Bad : k <= i
    BY LeastNatural
  <2>2. PICK n \in In(tree) : r[n] = k /\ b[n] # {h[n]}
    BY <2>1
  <2>3. ASSUME NEW c \in kids(n) PROVE b[c] = {h[c]}
    <3>1. CASE c = Sentinel
      BY <1>3, <1>9, <3>1
    <3>2. CASE c \in In(tree)
      <4>1. tree.parent[c] = n /\ n # Sentinel
        BY <1>1, <1>2, <3>2 DEF Sound, Spots
      <4>2. r[c] < r[n] /\ r[c] \in Nat /\ r[n] \in Nat
        BY <1>2, <1>10, <3>2, <4>1 DEF RankedBy
      <4>3. r[c] \notin Bad
        BY <2>1, <2>2, <4>2
      <4>4. QED
        BY <3>2, <4>2, <4>3
    <3>3. QED
      BY <1>2, <1>4, <3>1, <3>2
  <2> HIDE DEF sums, kids
  <2>4. sums(n, b) = {h[n]}
    BY <1>6, <2>3
  <2>5. QED
    BY <1>9, <2>2, <2>4
<1>12. Root(tree) \in In(tree)
  BY <1>1 DEF Sound, Spots
<1>13. Blackness = b
  BY DEF Blackness, b
<1>14. Blackness[Root(tree)] = {h[Root(tree)]}
  BY <1>11, <1>12, <1>13
<1>15. QED
  BY <1>14, FS_Singleton

\* Heights and colours make a red-black tree.
LEMMA InvRedBlack == IInv => RedBlack
<1> SUFFICES ASSUME IInv PROVE RedBlack
  OBVIOUS
<1>1. Black(tree, Sentinel) /\ InTree = In(tree)
  BY DEF IInv, Shape, Black, InTree, In
<1>2. pc = "idle" => Black(tree, Root(tree))
  BY DEF IInv, Whole
<1>3. ASSUME NEW n \in InTree
      PROVE  \/ Black(tree, n)
             \/ Black(tree, tree.parent[n])
             \/ pc = "insert" /\ n = at
             \/ pc = "delete" /\ at \in {n, tree.parent[n]}
  <2>1. CASE pc = "idle"
    BY <1>1, <2>1 DEF IInv, Whole, Apart
  <2>2. CASE pc = "insert"
    BY <1>1, <2>2 DEF IInv, Inserting, Apart
  <2>3. CASE pc = "delete"
    BY <1>1, <2>3 DEF IInv, Deleting, Apart
  <2>4. QED
    BY <2>1, <2>2, <2>3 DEF IInv
<1>4. Root(tree) # Sentinel => Cardinality(Blackness[Root(tree)]) = 1
  BY InvPaths
<1>5. QED
  BY <1>1, <1>2, <1>3, <1>4 DEF RedBlack

-----------------------------------------------------------------------------
(* Theorems.                                                               *)

\* In every state of the tree, also between two rounds of a fix-up loop, the links agree, no way
\* up or down is a cycle, and the heights differ at most by the one node that the loop works on:
\* what every link write of js_rbtree.c keeps.
THEOREM TreeInvariance == Spec => []IInv
<1>1. QED
  BY InitInv, StepInv, PTL DEF Spec

\* Every link of a node in use is a node, the sentinel or NULL, and no rotation or deletion
\* overwrites the callback in the sentinel's right child (js_rbtree.c:31-35).
THEOREM TreeTyped == Spec => []TypeOK
<1>1. QED
  BY TreeInvariance, InvType, PTL

\* A node in the tree is a child of its parent and the parent of its children, and no link leads
\* to a node that js_rbtree_delete took out (js_rbtree.c:144-188).
THEOREM LinksAlwaysAgree == Spec => []LinksAgree
<1>1. QED
  BY TreeInvariance, InvLinks, PTL

\* No red node has a red parent and every path from the root to a leaf holds as many black nodes,
\* but for the one node js_rbtree_insert_fixup or js_rbtree_delete_fixup works on.
THEOREM TreeStaysRedBlack == Spec => []RedBlack
<1>1. QED
  BY TreeInvariance, InvRedBlack, PTL
=============================================================================
