--------------------------- MODULE MCSharedList ----------------------------
(* Two requests at once, on two worker threads.                            *)
EXTENDS SharedList, TLC

CONSTANTS first, second, both
Lists == first :> {1} @@ second :> {2} @@ both :> {1, 2}
=============================================================================
