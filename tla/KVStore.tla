------------------------------ MODULE KVStore -------------------------------
(***************************************************************************)
(* What mock.store promises the scripts of all worker threads: a map from  *)
(* keys to values whose operations take effect one at a time, each at one  *)
(* moment between its call and its return.                                 *)
(***************************************************************************)
EXTENDS Integers

CONSTANTS
    Thread,    \* worker threads
    Key,       \* keys
    Text,      \* values that atoi reads as 0: anything but a JSON number
    Numbers,   \* the numbers scripts store
    MaxInt,    \* INT_MAX
    Absent     \* no value

Int32 == (-MaxInt - 1) .. MaxInt
Value == Text \union Int32

\* An operation; key and value are there for the operations that have them.
Op == [kind : {"get", "del", "incr"}, key : Key, val : {Absent}]
      \union [kind : {"set"}, key : Key, val : Text \union Numbers]
      \union [kind : {"clear"}, key : {Absent}, val : {Absent}]

VARIABLES
    dict,      \* the map
    call,      \* each thread's operation, Absent between operations
    result     \* what each thread's last operation returned, until its next one

vars == <<dict, call, result>>

Atoi(v) == IF v \in Text THEN 0 ELSE v
\* The int one above n: the build wraps around.
SuccWide(n) == n + 1                                    \* slip: a number wider than int
Succ(n)     == IF n = MaxInt THEN -MaxInt - 1 ELSE n + 1

Counted(v) == IF v = Absent THEN 1 ELSE Succ(Atoi(v))

\* The map after `op`, and what `op` returns.
Effect(op, d) ==
    CASE op.kind = "set"   -> [d EXCEPT ![op.key] = op.val]
      [] op.kind = "del"   -> [d EXCEPT ![op.key] = Absent]
      [] op.kind = "incr"  -> [d EXCEPT ![op.key] = Counted(@)]
      [] op.kind = "clear" -> [k \in Key |-> Absent]
      [] op.kind = "get"   -> d

Returned(op, d) ==
    CASE op.kind = "get"   -> d[op.key]
      [] op.kind = "incr"  -> Counted(d[op.key])
      [] op.kind = "del"   -> IF d[op.key] = Absent THEN -1 ELSE 0
      [] OTHER             -> 0

Init ==
    /\ dict = [k \in Key |-> Absent]
    /\ call = [th \in Thread |-> Absent]
    /\ result = [th \in Thread |-> Absent]

Call(th, op) ==
    /\ call[th] = Absent
    /\ call' = [call EXCEPT ![th] = op]
    /\ result' = [result EXCEPT ![th] = Absent]
    /\ UNCHANGED dict

Perform(th) ==
    /\ call[th] # Absent
    /\ dict' = Effect(call[th], dict)
    /\ result' = [result EXCEPT ![th] = Returned(call[th], dict)]
    /\ call' = [call EXCEPT ![th] = Absent]

Next == \E th \in Thread : Perform(th) \/ \E op \in Op : Call(th, op)

Spec == Init /\ [][Next]_vars
=============================================================================
