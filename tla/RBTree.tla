------------------------------- MODULE RBTree -------------------------------
(***************************************************************************)
(* The red-black tree of js_rbtree.c, link by link: insertion, deletion,   *)
(* and one action for each round of their fix-up loops.  The code writes   *)
(* every branch twice, mirrored; here a side and its Other stand for left  *)
(* and right.  One sentinel is every leaf and the parent of the root; its  *)
(* right child holds the comparison callback.                              *)
(***************************************************************************)
EXTENDS Naturals, FiniteSets, Sequences, SequencesExt

CONSTANTS
    Node,       \* the js_rbtree_node_t structs in use
    Sentinel,   \* &tree->sentinel
    Callback,   \* the comparison callback, in the place of the sentinel's right child
    Null,
    KeyOf       \* what the callback compares: a node that comes back with another key is another node

ASSUME RBTreeAssumption ==
    /\ Sentinel # Callback /\ Sentinel # Null /\ Callback # Null
    /\ Node \intersect {Sentinel, Callback, Null} = {}
    /\ KeyOf \in [Node -> Nat]

VARIABLES
    tree,       \* the links and colours of all nodes
    pc,         \* which fix-up loop runs, if one does
    at          \* `node` of that loop

vars == <<tree, pc, at>>

Side == {"left", "right"}
Other(s) == IF s = "left" THEN "right" ELSE "left"
All == Node \union {Sentinel}

Root(t) == t.child.left[Sentinel]
Child(t, s, n) == t.child[s][n]
Black(t, n) == t.color[n] = "black"
Paint(t, n, c) == [t EXCEPT !.color[n] = c]

\* Which child of its parent the node is: the code tests the left one.
SideOf(t, n) == IF n = Child(t, "left", t.parent[n]) THEN "left" ELSE "right"

\* js_rbtree_init; a node that is in no tree has the links a deletion leaves.
Init ==
    /\ tree = [child  |-> [s \in Side |-> [n \in All |->
                             IF n # Sentinel THEN Null ELSE IF s = "left" THEN Sentinel ELSE Callback]],
               parent |-> [n \in All |-> Null],
               color  |-> [n \in All |-> "black"]]
    /\ pc = "idle"
    /\ at = Sentinel

-----------------------------------------------------------------------------
(* Walking the tree.                                                       *)

InTree == {n \in Node : tree.parent[n] # Null}
Linked == InTree \union {Sentinel}

\* js_rbtree_branch_min
BranchMin(t, top) ==
    LET min[n \in Linked] == IF Child(t, "left", n) = Sentinel THEN n ELSE min[Child(t, "left", n)]
    IN min[top]

\* js_rbtree_node_successor: the smallest node on the right, or else the first
\* ancestor that has the node on its left.
SuccessorUp(t, n) == IF Child(t, "right", n) # Sentinel
                     THEN BranchMin(t, Child(t, "right", n))
                     ELSE t.parent[n]                   \* slip: one step up only
Successor(t, n) ==
    LET up[m \in InTree] == IF SideOf(t, m) = "left" THEN t.parent[m] ELSE up[t.parent[m]]
    IN IF Child(t, "right", n) # Sentinel THEN BranchMin(t, Child(t, "right", n)) ELSE up[n]

-----------------------------------------------------------------------------
(* Links.                                                                  *)

\* js_rbtree_parent_relink: subst takes the place of the node under its parent.
ParentRelinkByNew(t, subst, node) ==                    \* slip: asks where subst is, not node
    [t EXCEPT !.parent[subst] = t.parent[node],
              !.child[IF subst = Child(t, "left", t.parent[node]) THEN "left" ELSE "right"]
                     [t.parent[node]] = subst]
ParentRelink(t, subst, node) ==
    [t EXCEPT !.parent[subst] = t.parent[node],
              !.child[SideOf(t, node)][t.parent[node]] = subst]

\* js_rbtree_left_rotate for s = "left", js_rbtree_right_rotate for "right".
Rotate(t, node, s) ==
    LET child == Child(t, Other(s), node)
        inner == Child(t, s, child)
        moved == [t EXCEPT !.child[Other(s)][node] = inner,
                           !.parent[inner] = node,
                           !.child[s][child] = node]
    IN [ParentRelink(moved, child, node) EXCEPT !.parent[node] = child]

\* An operation returns.  What it left as the sentinel's parent is forgotten: the
\* next one writes it before it reads it, or would find Null.
Return(t) ==
    /\ tree' = [t EXCEPT !.parent[Sentinel] = Null]
    /\ pc' = "idle"
    /\ at' = Sentinel

-----------------------------------------------------------------------------
(* Insertion.                                                              *)

\* The side of the node m on which the search for n's place goes on.
TurnEqualLeft(n, m) == IF KeyOf[n] <= KeyOf[m] THEN "left" ELSE "right"  \* slip: before its equals
Turn(n, m)          == IF KeyOf[n] < KeyOf[m] THEN "left" ELSE "right"

\* The node below which n goes.
Place(t, n) ==
    LET down[m \in InTree] == IF Child(t, Turn(n, m), m) = Sentinel THEN m ELSE down[Child(t, Turn(n, m), m)]
    IN IF Root(t) = Sentinel THEN Sentinel ELSE down[Root(t)]

\* js_rbtree_insert up to its fix-up.
Insert(n) ==
    LET parent == Place(tree, n)
        side   == IF parent = Sentinel THEN "left" ELSE Turn(n, parent)
    IN /\ pc = "idle"
       /\ n \notin InTree
       /\ tree' = [tree EXCEPT !.child.left[n] = Sentinel,
                               !.child.right[n] = Sentinel,
                               !.color[n] = "red",
                               !.child[side][parent] = n,
                               !.parent[n] = parent]
       /\ pc' = "insert"
       /\ at' = n

\* js_rbtree_insert_fixup has returned; the root is painted black.
InsertEnd(t) == Return(Paint(t, Root(t), "black"))

Parent == tree.parent[at]
Grandparent == tree.parent[Parent]
Uncle == Child(tree, Other(SideOf(tree, Parent)), Grandparent)

\* The loop of js_rbtree_insert_fixup: the parent is black.
InsertDone ==
    /\ pc = "insert"
    /\ Black(tree, Parent)
    /\ InsertEnd(tree)

\* The parent and the uncle are red: the grandparent passes its blackness down.
RecolouredShort == Paint(Paint(tree, Uncle, "black"), Parent, "black")   \* slip: still black
Recoloured      == Paint(Paint(Paint(tree, Uncle, "black"), Parent, "black"), Grandparent, "red")
InsertRecolour ==
    /\ pc = "insert"
    /\ ~Black(tree, Parent)
    /\ ~Black(tree, Uncle)
    /\ tree' = Recoloured
    /\ at' = Grandparent
    /\ UNCHANGED pc

\* The parent is red and the uncle black: an inner node is first rotated outwards.
InsertRotate ==
    LET s     == SideOf(tree, Parent)
        inner == at = Child(tree, Other(s), Parent)
        outer == IF inner THEN Rotate(tree, Parent, s) ELSE tree
        top   == IF inner THEN at ELSE Parent
    IN /\ pc = "insert"
       /\ ~Black(tree, Parent)
       /\ Black(tree, Uncle)
       /\ InsertEnd(Rotate(Paint(Paint(outer, top, "black"), Grandparent, "red"), Grandparent, Other(s)))

-----------------------------------------------------------------------------
(* Deletion.                                                               *)

\* The node that leaves its place: the node itself or, when it has two children,
\* its successor, which then takes the node's place.
Subst(n) == IF Sentinel \in {Child(tree, s, n) : s \in Side}
            THEN n ELSE BranchMin(tree, Child(tree, "right", n))
Orphan(n) == IF Child(tree, "left", Subst(n)) = Sentinel
             THEN Child(tree, "right", Subst(n)) ELSE Child(tree, "left", Subst(n))

\* subst in the place of the node; the parents of its children follow.
TakePlaceShort(t, subst, n) ==                          \* slip: the right child keeps its old parent
    LET moved == [t EXCEPT !.color[subst] = t.color[n],
                           !.child.left[subst] = Child(t, "left", n),
                           !.parent[Child(t, "left", n)] = subst,
                           !.child.right[subst] = Child(t, "right", n)]
    IN ParentRelink(moved, subst, n)
TakePlace(t, subst, n) ==
    LET moved == [t EXCEPT !.color[subst] = t.color[n],
                           !.child.left[subst] = Child(t, "left", n),
                           !.parent[Child(t, "left", n)] = subst,
                           !.child.right[subst] = Child(t, "right", n),
                           !.parent[Child(t, "right", n)] = subst]
    IN ParentRelink(moved, subst, n)

\* js_rbtree_delete up to its fix-up.  (The deleted node's colour is forgotten: an
\* insertion writes it.)
Delete(n) ==
    LET subst == Subst(n)
        freed == ParentRelink(tree, Orphan(n), subst)
        moved == IF subst = n THEN freed ELSE TakePlace(freed, subst, n)
        gone  == [moved EXCEPT !.child.left[n] = Null, !.child.right[n] = Null, !.parent[n] = Null,
                               !.color[n] = "black"]
    IN /\ pc = "idle"
       /\ n \in InTree
       /\ \/ /\ Black(tree, subst)
             /\ tree' = gone
             /\ pc' = "delete"
             /\ at' = Orphan(n)
          \/ /\ ~Black(tree, subst)
             /\ Return(gone)

\* The loop of js_rbtree_delete_fixup goes on while a black node other than the
\* root is one short.
Short == pc = "delete" /\ at # Root(tree) /\ Black(tree, at)

\* A red sibling is rotated above the parent, so that the sibling is black.
Lifted ==
    LET s       == SideOf(tree, at)
        sibling == Child(tree, Other(s), Parent)
    IN IF Black(tree, sibling) THEN tree
       ELSE Rotate(Paint(Paint(tree, sibling, "black"), Parent, "red"), Parent, s)
Sibling == Child(Lifted, Other(SideOf(tree, at)), Parent)
Outer == Child(Lifted, Other(SideOf(tree, at)), Sibling)
Inner == Child(Lifted, SideOf(tree, at), Sibling)

\* Both nephews are black: the sibling turns red and the parent is short instead.
Stay    == at                                          \* slip: the same node again
Upwards == Parent
DeleteUp ==
    /\ Short
    /\ Black(Lifted, Outer)
    /\ Black(Lifted, Inner)
    /\ tree' = Paint(Lifted, Sibling, "red")
    /\ at' = Upwards
    /\ UNCHANGED pc

\* A nephew is red: when only the inner one is, it is rotated outwards first.
DeleteRotate ==
    LET s       == SideOf(tree, at)
        turned  == IF Black(Lifted, Outer)
                   THEN Rotate(Paint(Paint(Lifted, Sibling, "red"), Inner, "black"), Sibling, Other(s))
                   ELSE Lifted
        sibling == Child(turned, Other(s), Parent)
        outer   == Child(turned, Other(s), sibling)
        painted == Paint(Paint(Paint(turned, sibling, turned.color[Parent]), Parent, "black"), outer, "black")
    IN /\ Short
       /\ ~(Black(Lifted, Outer) /\ Black(Lifted, Inner))
       /\ Return(Rotate(painted, Parent, s))

\* The loop ends at the root or at a red node, which is painted black.
DeleteDone ==
    /\ pc = "delete"
    /\ ~Short
    /\ Return(Paint(tree, at, "black"))

Fixup == InsertDone \/ InsertRecolour \/ InsertRotate \/ DeleteUp \/ DeleteRotate \/ DeleteDone

Next == Fixup \/ \E n \in Node : Insert(n) \/ Delete(n)

Spec == Init /\ [][Next]_vars

-----------------------------------------------------------------------------
(* Properties.                                                             *)

\* Every variable has its type; the callback stays where js_rbtree_init stored it.
TypeOK ==
    /\ DOMAIN tree = {"child", "parent", "color"}
    /\ \A s \in Side : /\ DOMAIN tree.child[s] = All
                       /\ \A n \in Node : Child(tree, s, n) \in All \union {Null}
    /\ Root(tree) \in All
    /\ Child(tree, "right", Sentinel) = Callback
    /\ tree.parent \in [All -> All \union {Null}]
    /\ tree.color \in [All -> {"red", "black"}]
    /\ pc \in {"idle", "insert", "delete"}
    /\ at \in All

\* Up and down links agree at every step of an operation: a node in the tree is a
\* child of its parent and the parent of its children, and no link leads to a node
\* that was deleted (js_rbtree.c:160-181).
LinksAgree ==
    /\ \A n \in InTree : n \in {Child(tree, s, tree.parent[n]) : s \in Side}
    /\ \A n \in Linked, s \in Side :
         LET c == Child(tree, s, n) IN c \in InTree => tree.parent[c] = n
    /\ \A n \in InTree, s \in Side : Child(tree, s, n) \in Linked
    /\ Root(tree) \in Linked
    /\ \A n \in Node \ InTree, s \in Side : Child(tree, s, n) = Null

\* What the edge from n to its child c adds to the blackness of a path.  A node
\* that delete_fixup works on stands for one black node more.
Weight(n, c) ==
    (IF Black(tree, c) THEN 1 ELSE 0) +
    (IF pc = "delete" /\ c = at /\ tree.parent[c] = n THEN 1 ELSE 0)

\* The blacknesses of the paths from a node down to the leaves.
Blackness ==
    LET h[n \in Linked] == IF n = Sentinel THEN {0}
                        ELSE UNION {{Weight(n, c) + w : w \in h[c]} : c \in {Child(tree, s, n) : s \in Side}}
    IN h

\* The tree is red-black, during fix-up but for the one node it works on: no red
\* node has a red parent, and all paths down hold as many black nodes, so the
\* height is logarithmic (js_rbtree.c:70-141, 191-287).
RedBlack ==
    /\ Black(tree, Sentinel)
    /\ pc = "idle" => Black(tree, Root(tree))
    /\ \A n \in InTree :
         \/ Black(tree, n)
         \/ Black(tree, tree.parent[n])
         \/ pc = "insert" /\ n = at
         \/ pc = "delete" /\ at \in {n, tree.parent[n]}      \* painted black at the end
    /\ Root(tree) # Sentinel => Cardinality(Blackness[Root(tree)]) = 1

\* The nodes in order, read down the child links.
InOrder ==
    LET walk[n \in Linked] == IF n = Sentinel THEN <<>>
                              ELSE walk[Child(tree, "left", n)] \o <<n>> \o walk[Child(tree, "right", n)]
    IN walk[Root(tree)]

\* The smallest node and the successors read up the parent links visit the same
\* nodes in the same order, and end at the sentinel (js_rbtree.h:30-72).
SuccessorInOrder ==
    LET order == InOrder \o <<Sentinel>>
    IN /\ BranchMin(tree, Sentinel) = order[1]
       /\ \A i \in 1 .. Len(order) - 1 : Successor(tree, order[i]) = order[i + 1]

\* The tree is an OrderedQueue, whose order no rotation or recolouring touches: a
\* node that was inserted goes behind its equals, and a deletion takes out the one
\* node only.
Queue == INSTANCE OrderedQueue WITH queue <- InOrder
ImplementsQueue == Queue!Spec

\* Every fix-up ends, within one round for each level: a round leaves the loop,
\* moves its node up, or leaves it at a red node, where the next round ends.
Depth(t, n) ==
    LET depth[m \in All] == IF t.parent[m] \in Node THEN 1 + depth[t.parent[m]] ELSE 0
    IN depth[n]
FixupClimbs ==
    [][pc # "idle" /\ pc' = pc =>
         \/ Depth(tree', at') < Depth(tree, at)
         \/ pc = "delete" /\ ~Black(tree', at')]_vars
=============================================================================
