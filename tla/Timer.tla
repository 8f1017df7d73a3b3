------------------------------- MODULE Timer --------------------------------
(***************************************************************************)
(* The timers of one worker thread (js_timer.c) under the loop that drives *)
(* them (js_engine.c).  Times are js_msec_t, unsigned and Period wide, and *)
(* are compared by the sign of their difference; the clock they come from  *)
(* is kept beside them unwrapped, as history.  The red-black tree is the   *)
(* sequence of its nodes in order.                                         *)
(***************************************************************************)
EXTENDS Integers, Sequences, SequencesExt

CONSTANTS
    Timer,     \* the js_timer_t structs in use
    NoTimer,   \* the tree's sentinel
    Half,      \* half the range of js_msec_t: 2^31 in the code
    Day,       \* 24 hours, the horizon js_timer_find sets when there is no timer
    Delays,    \* the delays scripts ask for
    Boot,      \* what the clock may show when the thread starts
    MaxGain,   \* bound: what the clock gains from one reading to the next
    MaxClock   \* bound: the clock stops there

ASSUME TimerAssumption ==
    /\ NoTimer \notin Timer
    /\ Half \in Nat \ {0}
    /\ Day \in 0 .. Half - 1
    /\ Delays \subseteq 0 .. Half - 1
    /\ Boot \subseteq Nat \ {0}
    /\ MaxGain \in Nat
    /\ MaxClock \in Nat

Period == 2 * Half
Never == -1                      \* (js_msec_t) -1: no timeout

VARIABLES
    pc,        \* where the loop of js_engine_run is
    now,       \* timers->now
    minimum,   \* timers->minimum
    tree,      \* timers->tree, in order
    time,      \* timer->time
    timeout,   \* what js_timer_find returned
    cursor,    \* `node` of the loop in js_timer_expire
    running,   \* the timer whose handler runs
    clock,     \* history: CLOCK_MONOTONIC in milliseconds, not wrapped
    known,     \* history: the clock when `now` was read, 0 before that
    due,       \* history: timer->time, not wrapped
    asked      \* history: the clock a timer's delay after js_timer_add was called

vars == <<pc, now, minimum, tree, time, timeout, cursor, running, clock, known, due, asked>>
history == <<clock, known, due, asked>>

Msec == 0 .. Period - 1
Wrap(i) == i % Period                                   \* js_msec_t arithmetic
Int32(m) == IF m < Half THEN m ELSE m - Period          \* (js_msec_int_t) m

Init ==
    /\ pc = "find"
    /\ now = 0
    /\ minimum = 0
    /\ tree = <<>>
    /\ time = [t \in Timer |-> 0]
    /\ timeout = Never
    /\ cursor = NoTimer
    /\ running = NoTimer
    /\ clock \in Boot
    /\ known = 0                 \* js_timers_init does not read the clock
    /\ due = [t \in Timer |-> 0]
    /\ asked = [t \in Timer |-> 0]

\* js_timer_rbtree_compare, of two times.
CompareUnsigned(m, n) == m - n                          \* slip: no wrap-around
Compare(m, n)         == Int32(Wrap(m - n))

\* The slots where js_rbtree_insert may put a node: its search compares with
\* both neighbours of the slot it ends in, and goes right on equality.
Slots(m) == {i \in 0 .. Len(tree) :
               /\ i > 0 => Compare(m, time[tree[i]]) >= 0
               /\ i < Len(tree) => Compare(m, time[tree[i + 1]]) < 0}

Armed == Range(tree)

\* js_timer_add, from a request's handler or from a timer's callback, for a timer
\* that is not in the tree (js_set_timeout makes a new struct for each call).  No
\* handler sets one before the thread has read the clock: its first epoll_wait
\* watches the listening socket only, and accepting runs no script.
Add(t, delay) ==
    /\ pc \in {"handle", "callback"}
    /\ known > 0
    /\ t \notin Armed \union {running}
    /\ time' = [time EXCEPT ![t] = Wrap(now + delay)]
    /\ \E i \in Slots(time'[t]) : tree' = InsertAt(tree, i + 1, t)
    /\ due' = [due EXCEPT ![t] = known + delay]
    /\ asked' = [asked EXCEPT ![t] = clock + delay]
    /\ UNCHANGED <<pc, now, minimum, timeout, cursor, running, clock, known>>

\* What js_timer_find makes of the time to the first deadline.
RemainingRaw(delta) == delta                            \* slip: overdue is -1, wait for ever
Remaining(delta)    == IF delta > 0 THEN delta ELSE 0

\* js_timer_find
Find ==
    /\ pc = "find"
    /\ pc' = "wait"
    /\ \/ /\ tree = <<>>
          /\ minimum' = Wrap(now + Day)
          /\ timeout' = Never
       \/ /\ tree # <<>>
          /\ minimum' = time[Head(tree)]
          /\ timeout' = Remaining(Compare(time[Head(tree)], now))
    /\ UNCHANGED <<now, tree, time, cursor, running, history>>

\* The clock goes on, in epoll_wait and while handlers run.
Tick ==
    /\ pc \in {"wait", "handle", "callback"}
    /\ clock < MaxClock
    /\ clock < known + MaxGain
    /\ clock' = clock + 1
    /\ UNCHANGED <<pc, now, minimum, tree, time, timeout, cursor, running, known, due, asked>>

\* epoll_wait returns, with events or without; handlers run on events.
Wake ==
    /\ pc = "wait"
    /\ pc' = "handle"
    /\ UNCHANGED <<now, minimum, tree, time, timeout, cursor, running, history>>

First == IF tree = <<>> THEN NoTimer ELSE Head(tree)

\* js_timer_expire up to its loop.
Expire ==
    /\ pc = "handle"
    /\ known' = clock
    /\ now' = Wrap(clock)
    /\ \/ /\ Int32(Wrap(minimum - now')) > 0
          /\ pc' = "find"
          /\ UNCHANGED cursor
       \/ /\ Int32(Wrap(minimum - now')) <= 0
          /\ pc' = "fire"
          /\ cursor' = First
    /\ UNCHANGED <<minimum, tree, time, timeout, running, clock, due, asked>>

\* Is the timer due?  (timer->bias is 0: js_set_timeout sets no other.)
DueUnsigned(t) == time[t] <= now                        \* slip: no wrap-around
Due(t)         == Compare(time[t], now) <= 0

\* js_rbtree_node_successor
Successor(t) == LET i == CHOOSE j \in DOMAIN tree : tree[j] = t
                IN IF i = Len(tree) THEN NoTimer ELSE tree[i + 1]

\* One round of the loop: keep the successor, take the timer off the tree, call
\* its handler.
Fire(t) ==
    /\ pc = "fire"
    /\ cursor = t
    /\ Due(t)
    /\ cursor' = Successor(t)
    /\ tree' = RemoveFirst(tree, t)
    /\ time' = [time EXCEPT ![t] = 0]
    /\ due' = [due EXCEPT ![t] = 0]
    /\ asked' = [asked EXCEPT ![t] = 0]
    /\ running' = t
    /\ pc' = "callback"
    /\ UNCHANGED <<now, minimum, timeout, clock, known>>

\* The handler returns; the timer's struct is freed.
Return ==
    /\ pc = "callback"
    /\ running' = NoTimer
    /\ pc' = "fire"
    /\ UNCHANGED <<now, minimum, tree, time, timeout, cursor, history>>

\* The loop ends at the sentinel or at a timer that is not due.
ExpireReturn ==
    /\ pc = "fire"
    /\ cursor # NoTimer => ~Due(cursor)
    /\ pc' = "find"
    /\ cursor' = NoTimer
    /\ UNCHANGED <<now, minimum, tree, time, timeout, running, history>>

Next ==
    \/ Find
    \/ Tick
    \/ Wake
    \/ Expire
    \/ Return
    \/ ExpireReturn
    \/ \E t \in Timer : Fire(t) \/ \E delay \in Delays : Add(t, delay)

Spec == Init /\ [][Next]_vars

-----------------------------------------------------------------------------
(* Properties.                                                             *)

\* Every variable has its type.
TypeOK ==
    /\ pc \in {"find", "wait", "handle", "fire", "callback"}
    /\ now \in Msec
    /\ minimum \in Msec
    /\ tree \in Seq(Timer)
    /\ time \in [Timer -> Msec]
    /\ timeout \in {Never} \union 0 .. Half
    /\ cursor \in Timer \union {NoTimer}
    /\ running \in Timer \union {NoTimer}
    /\ clock \in Nat
    /\ known \in Nat
    /\ due \in [Timer -> Nat]
    /\ asked \in [Timer -> Nat]

\* The signed comparison keeps the tree in the order of the real deadlines
\* across the wrap-around of js_msec_t (js_timer.c:11-16).
TreeInOrder == \A i \in 1 .. Len(tree) - 1 : due[tree[i]] <= due[tree[i + 1]]

\* epoll_wait is never told to sleep past the earliest deadline, seen from the
\* time the thread knows (js_timer.c:82-84, js_engine.c:23-25).
NoOversleep ==
    pc = "wait" /\ tree # <<>> =>
        /\ timeout # Never
        /\ \A t \in Armed : timeout = 0 \/ known + timeout <= due[t]

\* The thread's timers are a TimerQueue: no timer fires before it is due on an
\* unwrapped clock, or ahead of one that is due earlier.
Queue == INSTANCE TimerQueue WITH now <- known, armed <- Armed, due <- due
ImplementsQueue == Queue!Spec

\* Documentation: a handler's setTimeout delays its callback by that long.  No
\* timer fires sooner than its delay after the call that set it.
DelayHonoured == [][\A t \in Timer : Fire(t) => asked[t] <= clock]_vars
=============================================================================
