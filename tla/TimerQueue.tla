----------------------------- MODULE TimerQueue -----------------------------
(***************************************************************************)
(* What the timers of a jsmock thread promise, on a clock that never wraps: *)
(* a timer set for `delay` is due that long after the time the thread      *)
(* knows, it never fires before it is due, and never ahead of one that is  *)
(* due earlier.                                                            *)
(***************************************************************************)
EXTENDS Naturals

CONSTANTS Timer, Delays

VARIABLES
    now,      \* the time the thread knows
    armed,    \* timers set and not fired yet
    due       \* when each of them is due

vars == <<now, armed, due>>

Init ==
    /\ now = 0
    /\ armed = {}
    /\ due = [t \in Timer |-> 0]

Add(t, delay) ==
    /\ t \notin armed
    /\ armed' = armed \union {t}
    /\ due' = [due EXCEPT ![t] = now + delay]
    /\ UNCHANGED now

Fire(t) ==
    /\ t \in armed
    /\ due[t] <= now
    /\ \A u \in armed : due[t] <= due[u]
    /\ armed' = armed \ {t}
    /\ due' = [due EXCEPT ![t] = 0]
    /\ UNCHANGED now

Advance ==
    /\ now' >= now
    /\ UNCHANGED <<armed, due>>

Next == Advance \/ \E t \in Timer : Fire(t) \/ \E delay \in Delays : Add(t, delay)

Spec == Init /\ [][Next]_vars
=============================================================================
