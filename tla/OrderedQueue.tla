---------------------------- MODULE OrderedQueue ----------------------------
(***************************************************************************)
(* What the timers of jsmock expect of the red-black tree: a queue in the  *)
(* order of its nodes' keys, where a node comes after those of equal key   *)
(* that were there before it.                                              *)
(***************************************************************************)
EXTENDS Naturals, Sequences, SequencesExt

CONSTANTS
    Node,       \* what can be queued
    KeyOf       \* the key of each node

VARIABLE queue

Init == queue = <<>>

Insert(n) ==
    /\ n \notin Range(queue)
    /\ \E i \in 1 .. Len(queue) + 1 :
         /\ \A j \in 1 .. Len(queue) : j < i <=> KeyOf[queue[j]] <= KeyOf[n]
         /\ queue' = InsertAt(queue, i, n)

Delete(n) ==
    \E i \in 1 .. Len(queue) : queue[i] = n /\ queue' = RemoveAt(queue, i)

Next == \E n \in Node : Insert(n) \/ Delete(n)

Spec == Init /\ [][Next]_queue
=============================================================================
