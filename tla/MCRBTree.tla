------------------------------ MODULE MCRBTree ------------------------------
(* Instances of RBTree for TLC.                                            *)
EXTENDS RBTree

\* Two pairs of nodes have equal keys.
Ties == [n \in Node |-> IF n \in {3, 6} THEN n - 1 ELSE n]
=============================================================================
