---------------------------- MODULE TimerProofs -----------------------------
(***************************************************************************)
(* The safety of a thread's timers, for any number of timers, any width of *)
(* js_msec_t and any clock that starts anywhere: across the wrap-around of *)
(* the millisecond counter they are a TimerQueue.                          *)
(***************************************************************************)
EXTENDS Timer, SeqLemmas

\* The clock gains so little between two readings, and delays are so short, that no
\* deadline is half the range of js_msec_t away from the time it is compared with
\* ("Timer values are distributed in small range", js_timer.c:12).
ShortDelays ==
    /\ 2 * MaxGain < Half
    /\ \A delay \in Delays : delay + 2 * MaxGain < Half

\* The shape of the tree and of a walk along it.
TreeOK ==
    /\ \A i, j \in 1 .. Len(tree) : tree[i] = tree[j] => i = j
    /\ running \notin Armed
    /\ pc # "callback" => running = NoTimer
    /\ cursor # NoTimer => cursor \in Armed /\ pc \in {"fire", "callback"}

\* The wrapped times are the unwrapped ones, and the clock is ahead of neither.
ClockOK ==
    /\ now = Wrap(known)
    /\ \A t \in Timer : time[t] = Wrap(due[t])
    /\ 0 < clock /\ known <= clock
    /\ IF known = 0 THEN tree = <<>> ELSE clock <= known + MaxGain

\* The tree is in the order of the deadlines, none of them far ahead.
Sorted ==
    /\ \A i, j \in 1 .. Len(tree) : i <= j => due[tree[i]] <= due[tree[j]]
    /\ \A t \in Armed : \E delay \in Delays : due[t] <= known + delay

\* The deadline js_timer_find left in timers->minimum.
Deadline == known + Compare(minimum, now)

\* How late the armed timers may be, where the loop is.
LateOK ==
    /\ \A t \in Armed :
         /\ pc \in {"fire", "callback"} => due[t] >= known - 2 * MaxGain
         /\ pc \in {"find", "wait", "handle"} => due[t] >= known - MaxGain
    /\ pc \in {"wait", "handle"} =>
         /\ Deadline >= known - MaxGain
         /\ \A t \in Armed : due[t] >= known \/ due[t] >= Deadline
    /\ pc = "wait" /\ tree # <<>> => timeout = Remaining(due[Head(tree)] - known)

\* Timers the walk of js_timer_expire has passed are not overdue, and one it stands on
\* is due only when there are none.
PassedOK ==
    pc \in {"fire", "callback"} =>
      /\ cursor = NoTimer => \A t \in Armed : due[t] >= known
      /\ \A i, j \in 1 .. Len(tree) :
           tree[i] = cursor /\ j < i => due[tree[j]] >= known /\ due[cursor] > known

Basic == TypeOK /\ TreeOK
Dated == ClockOK /\ Sorted /\ LateOK /\ PassedOK
IInv  == Basic /\ Dated

-----------------------------------------------------------------------------
(* js_msec_t arithmetic.                                                   *)

\* Whole periods.
LEMMA Periods ==
  ASSUME NEW m \in Int, NEW n \in Int, NEW p \in Int
  PROVE  /\ m * p \in Int
         /\ (m - n) * p = m * p - n * p
         /\ (m - n - 1) * p = m * p - n * p - p
  OBVIOUS

\* An integer is its wrapped value and whole periods.
LEMMA WrapIs ==
  ASSUME NEW a \in Int
  PROVE  /\ Wrap(a) \in Msec
         /\ \E q \in Int : a = q * Period + Wrap(a)
<1>1. Period \in Nat \ {0}
  BY TimerAssumption DEF Period
<1>2. ASSUME NEW p \in Nat \ {0}
      PROVE  (a % p) \in 0 .. p - 1 /\ a = (a \div p) * p + (a % p) /\ (a \div p) \in Int
  OBVIOUS
<1>3. QED
  BY <1>1, <1>2 DEF Wrap, Msec

\* Nothing else in the range differs from it by whole periods.
LEMMA WrapOnly ==
  ASSUME NEW a \in Int, NEW q \in Int, NEW r \in Msec, a = q * Period + r
  PROVE  Wrap(a) = r
<1>1. PICK n \in Int : a = n * Period + Wrap(a)
  BY WrapIs
<1>2. Wrap(a) \in 0 .. Period - 1 /\ r \in 0 .. Period - 1 /\ Period \in Nat \ {0}
  BY WrapIs, TimerAssumption DEF Msec, Period
<1>3. (q - n) * Period = Wrap(a) - r
  <2>1. (q - n) * Period = q * Period - n * Period /\ q * Period \in Int /\ n * Period \in Int
    BY <1>2, Periods
  <2>2. QED
    BY <1>1, <1>2, <2>1
<1>4. CASE q = n
  BY <1>1, <1>2, <1>4
<1>5. CASE q > n
  <2>1. \A k \in Nat \ {0} : k * Period >= Period
    BY <1>2
  <2>2. (q - n) * Period >= Period
    BY <1>5, <2>1
  <2>3. QED
    BY <1>2, <1>3, <2>2
<1>6. CASE q < n
  <2>1. \A k \in Nat \ {0} : k * Period >= Period
    BY <1>2
  <2>2. (n - q) * Period >= Period
    BY <1>6, <2>1
  <2>3. (n - q) * Period = n * Period - q * Period /\ (q - n) * Period = q * Period - n * Period
    BY <1>2, Periods
  <2>4. q * Period \in Int /\ n * Period \in Int
    BY <1>2, Periods
  <2>5. QED
    BY <1>2, <1>3, <2>2, <2>3, <2>4
<1>7. QED
  BY <1>4, <1>5, <1>6

LEMMA WrapZero == Wrap(0) = 0
<1>1. 0 \in Msec /\ 0 = 0 * Period + 0
  BY TimerAssumption DEF Msec, Period
<1>2. QED
  BY <1>1, WrapOnly

\* Adding to a wrapped time.
LEMMA WrapAdd ==
  ASSUME NEW a \in Int, NEW d \in Int
  PROVE  Wrap(Wrap(a) + d) = Wrap(a + d)
<1>1. PICK n \in Int : a = n * Period + Wrap(a)
  BY WrapIs
<1>2. PICK m \in Int : a + d = m * Period + Wrap(a + d)
  BY WrapIs
<1>3. Wrap(a) \in Int /\ Period \in Int /\ Wrap(a + d) \in Msec
  BY WrapIs, TimerAssumption DEF Msec, Period
<1>4. Wrap(a) + d = (m - n) * Period + Wrap(a + d)
  <2>1. (m - n) * Period = m * Period - n * Period /\ m * Period \in Int /\ n * Period \in Int
    BY <1>3, Periods
  <2>2. QED
    BY <1>1, <1>2, <1>3, <2>1 DEF Msec
<1>5. m - n \in Int /\ Wrap(a) + d \in Int
  BY <1>3
<1>6. QED
  BY <1>3, <1>4, <1>5, WrapOnly

\* The sign of a wrapped difference is that of the real one when that is small: what
\* the comment of js_timer_rbtree_compare relies on (js_timer.c:11-16).
LEMMA CompareIs ==
  ASSUME NEW a \in Int, NEW b \in Int, - Half <= a - b, a - b < Half
  PROVE  Compare(Wrap(a), Wrap(b)) = a - b
<1>1. PICK n \in Int : a = n * Period + Wrap(a)
  BY WrapIs
<1>2. PICK m \in Int : b = m * Period + Wrap(b)
  BY WrapIs
<1>3. /\ Wrap(a) \in Int /\ Wrap(b) \in Int /\ Half \in Nat \ {0} /\ Period = 2 * Half
      /\ Msec = 0 .. Period - 1
  BY WrapIs, TimerAssumption DEF Msec, Period
<1>7. /\ m * Period \in Int /\ n * Period \in Int
      /\ (m - n) * Period = m * Period - n * Period
      /\ (m - n - 1) * Period = m * Period - n * Period - Period
  BY <1>3, Periods
<1>4. CASE a - b >= 0
  <2>1. Wrap(a) - Wrap(b) = (m - n) * Period + (a - b)
    BY <1>1, <1>2, <1>3, <1>7
  <2>2. a - b \in Msec /\ m - n \in Int /\ Wrap(a) - Wrap(b) \in Int
    BY <1>3, <1>4
  <2>4. Wrap(Wrap(a) - Wrap(b)) = a - b
    BY <2>1, <2>2, WrapOnly
  <2>3. QED
    BY <1>3, <1>4, <2>4 DEF Compare, Int32
<1>5. CASE a - b < 0
  <2>1. Wrap(a) - Wrap(b) = (m - n - 1) * Period + (a - b + Period)
    BY <1>1, <1>2, <1>3, <1>7
  <2>2. a - b + Period \in Msec /\ m - n - 1 \in Int /\ Wrap(a) - Wrap(b) \in Int
    BY <1>3, <1>5
  <2>4. Wrap(Wrap(a) - Wrap(b)) = a - b + Period
    BY <2>1, <2>2, WrapOnly
  <2>3. QED
    BY <1>3, <1>5, <2>4 DEF Compare, Int32
<1>6. QED
  BY <1>4, <1>5

\* The signed comparison is within its type.
LEMMA CompareType ==
  ASSUME NEW m \in Int, NEW n \in Int
  PROVE  Compare(m, n) \in - Half .. Half - 1
<1>1. Wrap(m - n) \in 0 .. Period - 1 /\ Half \in Nat /\ Period = 2 * Half
  BY WrapIs, TimerAssumption DEF Msec, Period
<1>2. QED
  BY <1>1 DEF Compare, Int32

\* Any two wrapped times that compare as d are those of two times d apart.
LEMMA CompareBack ==
  ASSUME NEW m \in Msec, NEW k \in Int
  PROVE  m = Wrap(k + Compare(m, Wrap(k)))
<1> DEFINE v == m - Wrap(k)
           w == Wrap(v)
           c == Compare(m, Wrap(k))
<1>1. /\ Wrap(k) \in Int /\ Half \in Nat \ {0} /\ Period = 2 * Half /\ m \in Int
      /\ Msec = 0 .. Period - 1 /\ v \in Int
  BY WrapIs, TimerAssumption DEF Msec, Period
<1>2. c \in {w, w - Period}
  BY DEF Compare, Int32
<1> HIDE DEF v, w, c
<1>3. PICK n \in Int : k = n * Period + Wrap(k)
  BY WrapIs
<1>4. PICK q \in Int : v = q * Period + w
  BY <1>1, WrapIs DEF w
<1> DEFINE np == n * Period
           qp == q * Period
<1>5. /\ np \in Int /\ qp \in Int /\ w \in Int
      /\ (n - q) * Period = np - qp
      /\ (n - q - 1) * Period = np - qp - Period
  BY <1>1, Periods, WrapIs DEF w
<1>6. k = np + Wrap(k) /\ v = qp + w /\ v = m - Wrap(k)
  BY <1>3, <1>4 DEF v
<1> HIDE DEF np, qp
<1>7. CASE c = w
  <2>1. k + c = (np - qp) + m
    BY <1>1, <1>5, <1>6, <1>7
  <2>2. k + c \in Int /\ n - q \in Int /\ k + c = (n - q) * Period + m
    BY <1>5, <1>7, <2>1
  <2>3. QED
    BY <2>2, WrapOnly DEF c
<1>8. CASE c = w - Period
  <2>1. k + c = (np - qp - Period) + m
    BY <1>1, <1>5, <1>6, <1>8
  <2>2. k + c \in Int /\ n - q - 1 \in Int /\ k + c = (n - q - 1) * Period + m
    BY <1>1, <1>5, <1>8, <2>1
  <2>3. QED
    BY <2>2, WrapOnly DEF c
<1>9. QED
  BY <1>2, <1>7, <1>8

-----------------------------------------------------------------------------
(* Steps and the shape of the tree.                                        *)

\* The sentinel is not in the tree.
LEMMA ArmedIs == ASSUME Basic PROVE Armed \subseteq Timer /\ NoTimer \notin Armed
  BY RangeIs, TimerAssumption DEF Basic, TypeOK, Armed

\* Times that are not wrapped.
LEMMA TimesAre ==
  ASSUME Basic
  PROVE  /\ Half \in Nat \ {0} /\ MaxGain \in Nat /\ Day \in 0 .. Half - 1
         /\ known \in Nat /\ clock \in Nat
         /\ now \in Int /\ minimum \in Int
         /\ \A t \in Timer : due[t] \in Nat /\ time[t] \in Int
         /\ \A delay \in Delays : delay \in Nat
  BY TimerAssumption DEF Basic, TypeOK, Msec, Period

\* js_timer_add links the timer in one of the slots.
LEMMA AddIs ==
  ASSUME Basic, NEW t \in Timer, NEW delay \in Delays, Add(t, delay)
  PROVE  \E i \in Slots(time'[t]) :
           /\ tree' \in Seq(Timer)
           /\ Len(tree') = Len(tree) + 1
           /\ tree'[i + 1] = t
           /\ \A j \in 1 .. Len(tree) + 1 :
                j # i + 1 => tree'[j] = IF j < i + 1 THEN tree[j] ELSE tree[j - 1]
           /\ Armed' = Armed \union {t}
<1>1. PICK i \in Slots(time'[t]) : tree' = InsertAt(tree, i + 1, t)
  BY DEF Add
<1>2. i + 1 \in 1 .. Len(tree) + 1 /\ tree \in Seq(Timer)
  BY DEF Slots, Basic, TypeOK
<1>3. /\ InsertAt(tree, i + 1, t) \in Seq(Timer)
      /\ Len(InsertAt(tree, i + 1, t)) = Len(tree) + 1
      /\ InsertAt(tree, i + 1, t)[i + 1] = t
      /\ \A j \in 1 .. Len(tree) + 1 :
           j # i + 1 => InsertAt(tree, i + 1, t)[j] = IF j < i + 1 THEN tree[j] ELSE tree[j - 1]
      /\ Range(InsertAt(tree, i + 1, t)) = Range(tree) \union {t}
  BY <1>2, InsertAtIs
<1>4. QED
  BY <1>1, <1>3 DEF Armed

\* The loop of js_timer_expire unlinks the timer it stands on and goes on to the next.
LEMMA FireIs ==
  ASSUME Basic, NEW t \in Timer, Fire(t)
  PROVE  \E i \in 1 .. Len(tree) :
           /\ tree[i] = t
           /\ cursor' = IF i = Len(tree) THEN NoTimer ELSE tree[i + 1]
           /\ tree' \in Seq(Timer)
           /\ Len(tree') = Len(tree) - 1
           /\ \A j \in 1 .. Len(tree) - 1 : tree'[j] = IF j < i THEN tree[j] ELSE tree[j + 1]
           /\ Armed' = Armed \ {t}
<1>1. /\ tree \in Seq(Timer) /\ t \in Armed
      /\ \A i, j \in 1 .. Len(tree) : tree[i] = tree[j] => i = j
  BY TimerAssumption DEF Fire, Basic, TypeOK, TreeOK
<1>2. PICK i \in 1 .. Len(tree) : tree[i] = t
  BY <1>1, RangeIs DEF Armed
<1>3. cursor' = IF i = Len(tree) THEN NoTimer ELSE tree[i + 1]
  <2>1. DOMAIN tree = 1 .. Len(tree)
    BY <1>1, RangeIs
  <2> DEFINE c == CHOOSE j \in DOMAIN tree : tree[j] = t
  <2>2. c = i
    BY <1>1, <1>2, <2>1
  <2>3. Successor(t) = IF c = Len(tree) THEN NoTimer ELSE tree[c + 1]
    BY DEF Successor
  <2> HIDE DEF c
  <2>4. QED
    BY <2>2, <2>3 DEF Fire
<1>4. /\ RemoveFirst(tree, tree[i]) = RemoveAt(tree, i)
      /\ Range(RemoveAt(tree, i)) = Range(tree) \ {tree[i]}
  BY <1>1, RemoveFirstIs
<1>5. /\ RemoveAt(tree, i) \in Seq(Timer)
      /\ Len(RemoveAt(tree, i)) = Len(tree) - 1
      /\ \A j \in 1 .. Len(tree) - 1 :
           RemoveAt(tree, i)[j] = IF j < i THEN tree[j] ELSE tree[j + 1]
  BY <1>1, RemoveAtIs
<1>6. tree' = RemoveAt(tree, i)
  BY <1>2, <1>4 DEF Fire
<1>7. QED
  BY <1>2, <1>3, <1>4, <1>5, <1>6 DEF Armed

LEMMA InitBasic == Init => Basic
  BY TimerAssumption DEF Init, Basic, TypeOK, TreeOK, Msec, Period, Armed, Range

LEMMA FindBasic == ASSUME Basic, Find PROVE Basic'
<1>1. minimum' \in Msec /\ timeout' \in {Never} \union 0 .. Half
  <2>1. CASE tree = <<>>
    <3>1. minimum' = Wrap(now + Day) /\ now + Day \in Int
      BY <2>1, TimerAssumption DEF Find, Basic, TypeOK, Msec, Period
    <3>2. QED
      BY <2>1, <3>1, WrapIs DEF Find
  <2>2. CASE tree # <<>>
    <3>1. Head(tree) \in Timer
      BY <2>2 DEF Basic, TypeOK
    <3>2. time[Head(tree)] \in Msec /\ now \in Msec /\ Msec \subseteq Int /\ Half \in Nat
      BY <3>1, TimerAssumption DEF Basic, TypeOK, Msec, Period
    <3>3. Compare(time[Head(tree)], now) \in - Half .. Half - 1
      BY <3>2, CompareType
    <3>4. QED
      BY <2>2, <3>2, <3>3 DEF Find, Remaining
  <2>3. QED
    BY <2>1, <2>2
<1>2. QED
  BY <1>1 DEF Find, history, Basic, TypeOK, TreeOK, Armed

LEMMA ExpireBasic == ASSUME Basic, Expire PROVE Basic'
<1>1. now' \in Msec
  BY WrapIs DEF Expire, Basic, TypeOK
<1>2. First \in Armed \union {NoTimer} /\ Armed \subseteq Timer
  <2>1. tree # <<>> => 1 \in 1 .. Len(tree) /\ Head(tree) = tree[1]
    BY DEF Basic, TypeOK
  <2>2. QED
    BY <2>1, RangeIs DEF Basic, TypeOK, First, Armed
<1>3. TypeOK'
  <2>1. cursor' \in Timer \union {NoTimer} /\ pc' \in {"find", "fire"} /\ known' \in Nat
    BY <1>2 DEF Expire, Basic, TypeOK
  <2>2. QED
    BY <1>1, <2>1 DEF Expire, Basic, TypeOK
<1>4. TreeOK'
  BY <1>2 DEF Expire, Basic, TreeOK, Armed
<1>5. QED
  BY <1>3, <1>4 DEF Basic

\* Where a place of the longer sequence is, seen from the place of the new element.
LEMMA PlacesAre ==
  ASSUME NEW len \in Nat, NEW i \in 0 .. len, NEW n \in 1 .. len + 1
  PROVE  n < i + 1 \/ n = i + 1 \/ (n > i + 1 /\ ~ (n < i + 1))
OBVIOUS

LEMMA AddBasic ==
  ASSUME Basic, NEW t \in Timer, NEW delay \in Delays, Add(t, delay)
  PROVE  Basic'
<1>1. PICK i \in Slots(time'[t]) :
           /\ tree' \in Seq(Timer)
           /\ Len(tree') = Len(tree) + 1
           /\ tree'[i + 1] = t
           /\ \A j \in 1 .. Len(tree) + 1 :
                j # i + 1 => tree'[j] = IF j < i + 1 THEN tree[j] ELSE tree[j - 1]
           /\ Armed' = Armed \union {t}
  BY AddIs
<1>2. i \in 0 .. Len(tree) /\ Len(tree) \in Nat
  BY DEF Slots, Basic, TypeOK
<1>3. \A j \in 1 .. Len(tree) : tree[j] # t
  <2>1. tree \in Seq(Timer)
    BY DEF Basic, TypeOK
  <2>2. t \notin Range(tree)
    BY DEF Add, Armed
  <2>3. QED
    BY <2>1, <2>2, RangeIs
<1>4. ASSUME NEW j \in 1 .. Len(tree'), NEW k \in 1 .. Len(tree'), tree'[j] = tree'[k]
      PROVE  j = k
  <2>1. \A n \in 1 .. Len(tree) + 1 : n # i + 1 =>
           \/ n < i + 1 /\ n \in 1 .. Len(tree) /\ tree'[n] = tree[n]
           \/ n > i + 1 /\ n - 1 \in 1 .. Len(tree) /\ tree'[n] = tree[n - 1]
    BY <1>1, <1>2
  <2>2. \A n, m \in 1 .. Len(tree) : tree[n] = tree[m] => n = m
    BY DEF Basic, TreeOK
  <2>3. j \in 1 .. Len(tree) + 1 /\ k \in 1 .. Len(tree) + 1
    BY <1>1, <1>2
  <2>4. CASE j = i + 1 \/ k = i + 1
    BY <1>1, <1>3, <1>4, <2>1, <2>3, <2>4
  <2>5. CASE j # i + 1 /\ k # i + 1
    <3> DEFINE a == IF j < i + 1 THEN j ELSE j - 1
               b == IF k < i + 1 THEN k ELSE k - 1
    <3>0. /\ j < i + 1 \/ (j > i + 1 /\ ~ (j < i + 1))
          /\ k < i + 1 \/ (k > i + 1 /\ ~ (k < i + 1))
      <4>1. /\ j < i + 1 \/ j = i + 1 \/ (j > i + 1 /\ ~ (j < i + 1))
            /\ k < i + 1 \/ k = i + 1 \/ (k > i + 1 /\ ~ (k < i + 1))
        BY <1>2, <2>3, PlacesAre
      <4>2. QED
        BY <2>5, <4>1
    <3>1. a \in 1 .. Len(tree) /\ tree'[j] = tree[a]
      <4>1. CASE j < i + 1
        BY <1>2, <2>1, <2>3, <2>5, <4>1
      <4>2. CASE j > i + 1 /\ ~ (j < i + 1)
        BY <1>2, <2>1, <2>3, <2>5, <4>2
      <4>3. QED
        BY <3>0, <4>1, <4>2
    <3>2. b \in 1 .. Len(tree) /\ tree'[k] = tree[b]
      <4>1. CASE k < i + 1
        BY <1>2, <2>1, <2>3, <2>5, <4>1
      <4>2. CASE k > i + 1 /\ ~ (k < i + 1)
        BY <1>2, <2>1, <2>3, <2>5, <4>2
      <4>3. QED
        BY <3>0, <4>1, <4>2
    <3>3. a = b
      BY <1>4, <2>2, <3>1, <3>2
    <3>4. QED
      BY <1>2, <2>3, <2>5, <3>3
  <2>6. QED
    BY <2>4, <2>5
<1>5. TypeOK'
  <2>1. now + delay \in Int /\ known + delay \in Nat /\ clock + delay \in Nat
    BY TimesAre
  <2>2. Wrap(now + delay) \in Msec
    BY <2>1, WrapIs
  <2>3. QED
    BY <1>1, <2>1, <2>2 DEF Add, Basic, TypeOK
<1>6. QED
  BY <1>1, <1>4, <1>5 DEF Add, Basic, TreeOK

LEMMA FireBasic == ASSUME Basic, NEW t \in Timer, Fire(t) PROVE Basic'
<1>1. PICK i \in 1 .. Len(tree) :
           /\ tree[i] = t
           /\ cursor' = IF i = Len(tree) THEN NoTimer ELSE tree[i + 1]
           /\ tree' \in Seq(Timer)
           /\ Len(tree') = Len(tree) - 1
           /\ \A j \in 1 .. Len(tree) - 1 : tree'[j] = IF j < i THEN tree[j] ELSE tree[j + 1]
           /\ Armed' = Armed \ {t}
  BY FireIs
<1>2. Len(tree) \in Nat /\ \A n, m \in 1 .. Len(tree) : tree[n] = tree[m] => n = m
  BY DEF Basic, TypeOK, TreeOK
<1>3. ASSUME NEW j \in 1 .. Len(tree'), NEW k \in 1 .. Len(tree'), tree'[j] = tree'[k]
      PROVE  j = k
  <2>1. \A n \in 1 .. Len(tree) - 1 :
           \/ n < i /\ n \in 1 .. Len(tree) /\ tree'[n] = tree[n]
           \/ n >= i /\ n + 1 \in 1 .. Len(tree) /\ tree'[n] = tree[n + 1]
    BY <1>1, <1>2
  <2>2. j \in 1 .. Len(tree) - 1 /\ k \in 1 .. Len(tree) - 1
    BY <1>1
  <2> DEFINE a == IF j < i THEN j ELSE j + 1
             b == IF k < i THEN k ELSE k + 1
  <2>3. a \in 1 .. Len(tree) /\ tree'[j] = tree[a]
    BY <2>1, <2>2
  <2>4. b \in 1 .. Len(tree) /\ tree'[k] = tree[b]
    BY <2>1, <2>2
  <2>5. a = b
    BY <1>2, <1>3, <2>3, <2>4
  <2>6. QED
    BY <2>2, <2>5
<1>4. cursor' \in (Armed \ {t}) \union {NoTimer} /\ Armed \subseteq Timer
  <2>1. i # Len(tree) => i + 1 \in 1 .. Len(tree) /\ tree[i + 1] # t
    BY <1>1, <1>2
  <2>2. i # Len(tree) => tree[i + 1] \in Armed
    BY <2>1, RangeIs DEF Armed, Basic, TypeOK
  <2>3. QED
    BY <1>1, <2>1, <2>2, ArmedIs
<1>5. TypeOK'
  <2>1. 0 \in Msec /\ 0 \in Nat
    BY TimerAssumption DEF Msec, Period
  <2>2. QED
    BY <1>1, <1>4, <2>1 DEF Fire, Basic, TypeOK
<1>6. QED
  BY <1>1, <1>3, <1>4, <1>5 DEF Fire, Basic, TreeOK

LEMMA BasicStep == Basic /\ [Next]_vars => Basic'
<1> SUFFICES ASSUME Basic, [Next]_vars PROVE Basic'
  OBVIOUS
<1>1. CASE Tick
  BY <1>1 DEF Tick, Basic, TypeOK, TreeOK, Armed
<1>2. CASE Wake
  BY <1>2 DEF Wake, history, Basic, TypeOK, TreeOK, Armed
<1>3. CASE Return
  BY <1>3, ArmedIs DEF Return, history, Basic, TypeOK, TreeOK, Armed
<1>4. CASE ExpireReturn
  BY <1>4 DEF ExpireReturn, history, Basic, TypeOK, TreeOK, Armed
<1>5. CASE UNCHANGED vars
  BY <1>5 DEF vars, Basic, TypeOK, TreeOK, Armed
<1>6. QED
  BY <1>1, <1>2, <1>3, <1>4, <1>5, FindBasic, ExpireBasic, AddBasic, FireBasic DEF Next

-----------------------------------------------------------------------------
(* Steps and the deadlines.                                                *)

\* No armed timer is so far off that its wrapped time misleads.
LEMMA DueIs ==
  ASSUME ShortDelays, IInv, NEW t \in Armed
  PROVE  /\ t \in Timer
         /\ known > 0
         /\ due[t] >= known - 2 * MaxGain
         /\ \E delay \in Delays : due[t] <= known + delay
         /\ Compare(time[t], now) = due[t] - known
         /\ Due(t) <=> due[t] <= known
<1>1. t \in Timer /\ tree # <<>> /\ known > 0
  <2>1. tree = <<>> => Armed = {}
    BY DEF Armed, Range
  <2>2. tree # <<>> /\ t \in Timer
    BY <2>1, ArmedIs DEF IInv
  <2>3. known \in Nat /\ known # 0
    BY <2>2, TimesAre DEF IInv, Dated, ClockOK
  <2>4. QED
    BY <2>2, <2>3
<1>2. due[t] >= known - 2 * MaxGain
  <2>1. due[t] \in Nat /\ known \in Nat /\ MaxGain \in Nat
    BY <1>1, TimesAre DEF IInv
  <2>2. due[t] >= known - 2 * MaxGain \/ due[t] >= known - MaxGain
    BY DEF IInv, Basic, TypeOK, Dated, LateOK
  <2>3. QED
    BY <2>1, <2>2
<1>3. PICK delay \in Delays : due[t] <= known + delay
  BY DEF IInv, Dated, Sorted
<1>4. delay < Half /\ 2 * MaxGain < Half /\ delay \in Nat
  BY <1>1, TimesAre DEF ShortDelays, IInv
<1>5. time[t] = Wrap(due[t]) /\ now = Wrap(known) /\ due[t] \in Int /\ known \in Int
  BY <1>1, TimesAre DEF IInv, Dated, ClockOK
<1>6. - Half <= due[t] - known /\ due[t] - known < Half
  BY <1>2, <1>3, <1>4, <1>5, TimesAre DEF IInv
<1>7. Compare(time[t], now) = due[t] - known
  BY <1>5, <1>6, CompareIs
<1>8. QED
  BY <1>1, <1>2, <1>3, <1>5, <1>7 DEF Due

LEMMA InitDated == Init => Dated
<1> SUFFICES ASSUME Init PROVE Dated
  OBVIOUS
<1>2. ClockOK
  BY WrapZero, TimerAssumption DEF Init, ClockOK
<1>3. Sorted /\ LateOK /\ PassedOK
  BY DEF Init, Sorted, LateOK, PassedOK, Armed, Range
<1>4. QED
  BY <1>2, <1>3 DEF Dated

LEMMA FindDated == ASSUME ShortDelays, IInv, Find PROVE Dated'
<1>1. ClockOK' /\ Sorted' /\ PassedOK'
  BY DEF Find, history, IInv, Dated, ClockOK, Sorted, PassedOK, Armed
<1>2. /\ known \in Nat /\ Half \in Nat \ {0} /\ MaxGain \in Nat /\ Day \in 0 .. Half - 1
      /\ now = Wrap(known)
  BY TimesAre DEF IInv, Dated, ClockOK
<1>3. CASE tree = <<>>
  <2>1. minimum' = Wrap(known + Day)
    BY <1>2, <1>3, WrapAdd DEF Find
  <2>2. Compare(Wrap(known + Day), Wrap(known)) = Day
    BY <1>2, CompareIs
  <2>3. Deadline' = known + Day
    BY <1>2, <2>1, <2>2 DEF Deadline, Find, history
  <2>4. QED
    BY <1>1, <1>2, <1>3, <2>3 DEF Dated, LateOK, Find, history, Armed, Range
<1>4. CASE tree # <<>>
  <2> DEFINE h == Head(tree)
  <2>1. h = tree[1] /\ 1 \in 1 .. Len(tree) /\ h \in Armed /\ tree \in Seq(Timer)
    <3>1. h = tree[1] /\ 1 \in 1 .. Len(tree) /\ tree \in Seq(Timer)
      BY <1>4 DEF IInv, Basic, TypeOK
    <3>2. QED
      BY <3>1, RangeIs DEF Armed
  <2>2. /\ due[h] \in Nat
        /\ Compare(time[h], now) = due[h] - known
    BY <2>1, DueIs, TimesAre DEF IInv
  <2>3. minimum' = time[h] /\ timeout' = Remaining(due[h] - known)
    BY <1>4, <2>2 DEF Find
  <2>4. Deadline' = due[h]
    BY <1>2, <2>2, <2>3 DEF Deadline, Find, history
  <2>5. due[h] >= known - MaxGain
    BY <2>1 DEF Find, IInv, Dated, LateOK
  <2>6. ASSUME NEW t \in Armed PROVE due[t] >= due[h] /\ due[t] >= known - MaxGain
    <3>1. PICK j \in 1 .. Len(tree) : tree[j] = t
      BY <2>1, RangeIs DEF Armed
    <3>2. due[tree[1]] <= due[tree[j]]
      BY <2>1, <3>1 DEF IInv, Dated, Sorted
    <3>3. t \in Timer /\ due[t] \in Nat
      BY TimesAre, ArmedIs DEF IInv
    <3>4. QED
      BY <2>1, <2>2, <3>1, <3>2, <3>3 DEF Find, IInv, Dated, LateOK
  <2>7. Armed' = Armed /\ known' = known /\ due' = due /\ tree' = tree /\ pc' = "wait"
    BY DEF Find, history, Armed
  <2> HIDE DEF h
  <2>8. LateOK'
    <3>1. Head(tree') = h
      BY <2>7 DEF h
    <3>2. QED
      BY <1>2, <2>3, <2>4, <2>5, <2>6, <2>7, <3>1 DEF LateOK
  <2>9. QED
    BY <1>1, <2>8 DEF Dated
<1>5. QED
  BY <1>3, <1>4

LEMMA TickDated == ASSUME IInv, Tick PROVE Dated'
<1>1. ClockOK'
  BY TimesAre DEF Tick, IInv, Dated, ClockOK
<1>2. Sorted' /\ LateOK' /\ PassedOK'
  BY DEF Tick, IInv, Dated, Sorted, LateOK, PassedOK, Deadline, Armed
<1>3. QED
  BY <1>1, <1>2 DEF Dated

LEMMA ExpireDated == ASSUME ShortDelays, IInv, Expire PROVE Dated'
<1>1. /\ known \in Nat /\ clock \in Nat /\ Half \in Nat \ {0} /\ MaxGain \in Nat
      /\ now = Wrap(known) /\ known <= clock /\ 2 * MaxGain < Half
      /\ minimum \in Msec /\ minimum \in Int
  BY TimesAre DEF IInv, Basic, TypeOK, Dated, ClockOK, ShortDelays
<1>2. /\ known' = clock /\ clock' = clock /\ now' = Wrap(clock) /\ Armed' = Armed
      /\ tree' = tree /\ due' = due /\ time' = time
  BY DEF Expire, Armed
<1>3. ClockOK'
  BY <1>1, <1>2 DEF IInv, Dated, ClockOK
<1>4. \A t \in Armed : t \in Timer /\ due[t] \in Nat
  BY TimesAre, ArmedIs DEF IInv
<1>5. Sorted'
  BY <1>1, <1>2, <1>4, TimesAre DEF IInv, Dated, Sorted
<1>6. cursor' # NoTimer => tree # <<>> /\ cursor' = tree[1] /\ pc' = "fire"
  BY DEF Expire, First, IInv, Basic, TypeOK, TreeOK
<1>7. pc' = "fire" /\ cursor' = NoTimer => tree = <<>>
  <2>1. tree # <<>> => Head(tree) \in Timer
    BY DEF IInv, Basic, TypeOK
  <2>2. QED
    BY <2>1, TimerAssumption DEF Expire, First
<1>8. PassedOK'
  <2>1. tree = <<>> => Armed = {}
    BY DEF Armed, Range
  <2>2. \A i, j \in 1 .. Len(tree) : tree[i] = tree[j] => i = j
    BY DEF IInv, Basic, TreeOK
  <2>3. tree # <<>> => 1 \in 1 .. Len(tree)
    BY DEF IInv, Basic, TypeOK
  <2>4. \A i, j \in 1 .. Len(tree) : ~ (tree[i] = cursor' /\ j < i /\ pc' = "fire")
    <3>1. \A i \in 1 .. Len(tree) : tree[i] \in Timer
      BY DEF IInv, Basic, TypeOK
    <3>2. QED
      BY <1>6, <1>7, <2>2, <2>3, <3>1, TimerAssumption
  <2>5. pc' # "callback"
    BY DEF Expire
  <2>6. QED
    BY <1>2, <1>7, <2>1, <2>4, <2>5 DEF PassedOK
<1>9. LateOK'
  <2>1. CASE known = 0
    <3>1. tree = <<>> /\ Armed = {}
      BY <2>1 DEF IInv, Dated, ClockOK, Armed, Range
    <3>2. QED
      BY <1>2, <3>1 DEF LateOK, Expire
  <2>2. CASE known > 0
    <3> DEFINE d == Deadline
    <3>1. d \in Int /\ d <= known + Half - 1 /\ minimum = Wrap(d)
      <4>1. Compare(minimum, now) \in - Half .. Half - 1
        BY <1>1, CompareType, TimesAre DEF IInv
      <4>2. minimum = Wrap(known + Compare(minimum, Wrap(known)))
        BY <1>1, CompareBack
      <4>3. QED
        BY <1>1, <4>1, <4>2 DEF Deadline
    <3>2. /\ d >= known - MaxGain
          /\ \A t \in Armed : due[t] >= known \/ due[t] >= d
          /\ \A t \in Armed : due[t] >= known - MaxGain
      BY DEF Expire, IInv, Dated, LateOK
    <3>3. clock <= known + MaxGain
      BY <1>1, <2>2 DEF IInv, Dated, ClockOK
    <3> HIDE DEF d
    <3>4. - Half <= d - clock /\ d - clock < Half
      BY <1>1, <3>1, <3>2, <3>3
    <3>5. Compare(minimum, now') = d - clock
      BY <1>1, <1>2, <3>1, <3>4, CompareIs
    <3>6. Int32(Wrap(minimum - now')) = d - clock
      BY <3>5 DEF Compare
    <3>7. CASE pc' = "find"
      <4>1. d - clock > 0
        BY <3>6, <3>7 DEF Expire
      <4>2. \A t \in Armed : due[t] >= clock - MaxGain
        BY <1>1, <1>4, <3>1, <3>2, <3>3, <4>1
      <4>3. QED
        BY <1>2, <3>7, <4>2 DEF LateOK
    <3>8. CASE pc' = "fire"
      <4>1. \A t \in Armed : due[t] >= clock - 2 * MaxGain
        BY <1>1, <1>4, <3>1, <3>2, <3>3
      <4>2. QED
        BY <1>2, <3>8, <4>1 DEF LateOK
    <3>9. QED
      BY <3>7, <3>8 DEF Expire
  <2>3. QED
    BY <1>1, <2>1, <2>2
<1>10. QED
  BY <1>3, <1>5, <1>8, <1>9 DEF Dated

\* A new timer goes behind those due at its time or earlier, before the later ones.
LEMMA AddDated ==
  ASSUME ShortDelays, IInv, NEW t \in Timer, NEW delay \in Delays, Add(t, delay)
  PROVE  Dated'
<1> DEFINE m == known + delay
<1>1. /\ known \in Nat /\ delay \in Nat /\ m \in Nat /\ known > 0
      /\ delay + 2 * MaxGain < Half /\ Half \in Nat /\ MaxGain \in Nat
      /\ now = Wrap(known)
  <2>1. Basic /\ known > 0 /\ now = Wrap(known)
    BY DEF Add, IInv, Dated, ClockOK
  <2>2. delay + 2 * MaxGain < Half
    BY DEF ShortDelays
  <2>3. known \in Nat /\ delay \in Nat /\ Half \in Nat /\ MaxGain \in Nat
    BY <2>1, TimesAre
  <2>4. QED
    BY <2>1, <2>2, <2>3
<1>2. time' = [time EXCEPT ![t] = Wrap(m)] /\ time'[t] = Wrap(m)
  <2>1. Wrap(now + delay) = Wrap(m)
    BY <1>1, WrapAdd
  <2>2. QED
    BY <2>1 DEF Add, IInv, Basic, TypeOK
<1>3. /\ due' = [due EXCEPT ![t] = m] /\ due'[t] = m
      /\ \A u \in Timer \ {t} : due'[u] = due[u]
  BY DEF Add, IInv, Basic, TypeOK
<1>4. /\ known' = known /\ now' = now /\ clock' = clock /\ pc' = pc /\ cursor' = cursor
      /\ minimum' = minimum /\ timeout' = timeout /\ t \notin Armed
      /\ pc \in {"handle", "callback"}
  BY DEF Add
<1> HIDE DEF m
<1>5. PICK i \in Slots(time'[t]) :
           /\ tree' \in Seq(Timer)
           /\ Len(tree') = Len(tree) + 1
           /\ tree'[i + 1] = t
           /\ \A j \in 1 .. Len(tree) + 1 :
                j # i + 1 => tree'[j] = IF j < i + 1 THEN tree[j] ELSE tree[j - 1]
           /\ Armed' = Armed \union {t}
  BY AddIs DEF IInv
<1>6. i \in 0 .. Len(tree) /\ Len(tree) \in Nat
  BY DEF Slots, IInv, Basic, TypeOK
<1>7. \A j \in 1 .. Len(tree) : tree[j] \in Armed /\ tree[j] \in Timer /\ tree[j] # t
  BY <1>4, RangeIs DEF Armed, IInv, Basic, TypeOK
<1>8. ASSUME NEW u \in Armed
      PROVE  /\ u \in Timer /\ u # t /\ due[u] \in Nat /\ due'[u] = due[u]
             /\ Compare(Wrap(m), time[u]) = m - due[u]
  <2>1. /\ u \in Timer /\ due[u] \in Nat /\ time[u] = Wrap(due[u])
        /\ due[u] >= known - 2 * MaxGain
    BY DueIs, TimesAre DEF IInv, Dated, ClockOK
  <2>2. PICK d \in Delays : due[u] <= known + d
    BY DueIs
  <2>3. d < Half /\ d \in Nat
    BY TimesAre, <1>1 DEF ShortDelays, IInv
  <2>4. - Half <= m - due[u] /\ m - due[u] < Half
    BY <1>1, <2>1, <2>2, <2>3 DEF m
  <2>5. QED
    BY <1>1, <1>3, <1>4, <2>1, <2>4, CompareIs
<1>9. /\ i > 0 => m - due[tree[i]] >= 0
      /\ i < Len(tree) => m - due[tree[i + 1]] < 0
  <2>1. /\ i > 0 => Compare(Wrap(m), time'[tree[i]]) >= 0
        /\ i < Len(tree) => Compare(Wrap(m), time'[tree[i + 1]]) < 0
    <3>1. /\ i > 0 => Compare(Wrap(m), time[tree[i]]) >= 0
          /\ i < Len(tree) => Compare(Wrap(m), time[tree[i + 1]]) < 0
      BY <1>2 DEF Slots
    <3>2. /\ i > 0 => tree[i] # t /\ tree[i] \in Timer
          /\ i < Len(tree) => tree[i + 1] # t /\ tree[i + 1] \in Timer
      BY <1>6, <1>7
    <3>3. time \in [Timer -> Msec]
      BY DEF IInv, Basic, TypeOK
    <3>4. QED
      BY <1>2, <3>1, <3>2, <3>3
  <2>2. /\ i > 0 => i \in 1 .. Len(tree)
        /\ i < Len(tree) => i + 1 \in 1 .. Len(tree)
    BY <1>6
  <2>3. \A u \in Timer \ {t} : time'[u] = time[u]
    BY <1>2 DEF IInv, Basic, TypeOK
  <2>4. QED
    BY <1>7, <1>8, <2>1, <2>2, <2>3
<1>10. ASSUME NEW j \in 1 .. Len(tree)
       PROVE  IF j <= i THEN due[tree[j]] <= m ELSE due[tree[j]] > m
  <2>1. \A a, b \in 1 .. Len(tree) : a <= b => due[tree[a]] <= due[tree[b]]
    BY DEF IInv, Dated, Sorted
  <2>2. CASE j <= i
    <3>1. i \in 1 .. Len(tree) /\ due[tree[j]] <= due[tree[i]]
      BY <1>6, <2>1, <2>2
    <3>2. /\ due[tree[i]] \in Nat /\ due[tree[j]] \in Nat
          /\ m - due[tree[i]] >= 0 /\ i > 0
      BY <1>6, <1>7, <1>8, <1>9, <3>1
    <3>3. due[tree[j]] <= m
      BY <1>1, <3>1, <3>2
    <3>4. QED
      BY <2>2, <3>3
  <2>3. CASE j > i
    <3>1. i + 1 \in 1 .. Len(tree) /\ due[tree[i + 1]] <= due[tree[j]]
      BY <1>6, <2>1, <2>3
    <3>2. /\ due[tree[i + 1]] \in Nat /\ due[tree[j]] \in Nat
          /\ m - due[tree[i + 1]] < 0
      BY <1>6, <1>7, <1>8, <1>9, <3>1
    <3>3. due[tree[j]] > m
      BY <1>1, <3>1, <3>2
    <3>4. QED
      BY <1>6, <2>3, <3>3
  <2>4. QED
    BY <1>6, <2>2, <2>3
\* Where a node of the new tree was in the old one.
<1>11. ASSUME NEW n \in 1 .. Len(tree')
       PROVE  \/ n <= i /\ n \in 1 .. Len(tree) /\ tree'[n] = tree[n]
              \/ n = i + 1 /\ tree'[n] = t
              \/ n > i + 1 /\ n - 1 \in 1 .. Len(tree) /\ n - 1 > i /\ tree'[n] = tree[n - 1]
  <2>1. n \in 1 .. Len(tree) + 1
    BY <1>5
  <2>2. CASE n < i + 1
    BY <1>5, <1>6, <2>1, <2>2
  <2>3. CASE n = i + 1
    BY <1>5, <2>3
  <2>4. CASE n > i + 1
    <3>1. n \in 1 .. Len(tree) + 1 /\ n # i + 1 /\ ~ (n < i + 1)
      BY <1>6, <2>1, <2>4
    <3>2. tree'[n] = tree[n - 1]
      BY <1>5, <3>1
    <3>3. n - 1 \in 1 .. Len(tree) /\ n - 1 > i
      BY <1>6, <2>4, <3>1
    <3>4. QED
      BY <2>4, <3>2, <3>3
  <2>5. n < i + 1 \/ n = i + 1 \/ n > i + 1
    BY <1>6, <2>1, PlacesAre
  <2>6. QED
    BY <2>2, <2>3, <2>4, <2>5
<1>12. ClockOK'
  <2>1. \A u \in Timer : time'[u] = Wrap(due'[u])
    <3> TAKE u \in Timer
    <3>1. CASE u = t
      BY <1>2, <1>3, <3>1
    <3>2. CASE u # t
      <4>1. time'[u] = time[u] /\ due'[u] = due[u]
        BY <1>2, <1>3, <3>2 DEF IInv, Basic, TypeOK
      <4>2. time[u] = Wrap(due[u])
        BY DEF IInv, Dated, ClockOK
      <4>3. QED
        BY <4>1, <4>2
    <3>3. QED
      BY <3>1, <3>2
  <2>2. now' = Wrap(known')
    BY <1>1, <1>4
  <2>3. 0 < clock' /\ known' <= clock' /\ known' # 0 /\ clock' <= known' + MaxGain
    BY <1>1, <1>4 DEF IInv, Dated, ClockOK
  <2>4. QED
    BY <2>1, <2>2, <2>3 DEF ClockOK
<1>13. Sorted'
  <2>1. ASSUME NEW a \in 1 .. Len(tree'), NEW b \in 1 .. Len(tree'), a <= b
        PROVE  due'[tree'[a]] <= due'[tree'[b]]
    <3>1. \A x, y \in 1 .. Len(tree) : x <= y => due[tree[x]] <= due[tree[y]]
      BY DEF IInv, Dated, Sorted
    <3>2. \A x \in 1 .. Len(tree) : due'[tree[x]] = due[tree[x]] /\ due[tree[x]] \in Nat
      BY <1>7, <1>8
    <3>6. \A x \in 1 .. Len(tree') :
            /\ x <= i => due'[tree'[x]] <= m
            /\ x = i + 1 => due'[tree'[x]] = m
            /\ x > i + 1 => due'[tree'[x]] > m
            /\ due'[tree'[x]] \in Nat
      <4> TAKE x \in 1 .. Len(tree')
      <4>1. CASE x <= i
        BY <1>6, <1>10, <1>11, <3>2, <4>1
      <4>2. CASE x = i + 1
        BY <1>1, <1>3, <1>5, <1>6, <4>2
      <4>3. CASE x > i + 1
        <5>0. ~ (x <= i) /\ x # i + 1
          BY <1>5, <1>6, <4>3
        <5>1. x - 1 \in 1 .. Len(tree) /\ x - 1 > i /\ ~ (x - 1 <= i) /\ tree'[x] = tree[x - 1]
          BY <1>6, <1>11, <5>0
        <5>2. QED
          BY <1>6, <1>10, <3>2, <4>3, <5>0, <5>1
      <4>4. x \in Nat /\ (x <= i \/ x = i + 1 \/ x > i + 1)
        BY <1>5, <1>6
      <4>5. CASE x <= i
        <5>1. x # i + 1 /\ ~ (x > i + 1)
          BY <1>6, <4>4, <4>5
        <5>2. QED
          BY <4>1, <4>5, <5>1
      <4>6. CASE x = i + 1
        <5>1. ~ (x <= i) /\ ~ (x > i + 1)
          BY <1>6, <4>6
        <5>2. QED
          BY <4>2, <4>6, <5>1
      <4>7. CASE x > i + 1
        <5>1. ~ (x <= i) /\ x # i + 1
          BY <1>6, <4>4, <4>7
        <5>2. QED
          BY <4>3, <4>7, <5>1
      <4>8. QED
        BY <4>4, <4>5, <4>6, <4>7
    <3>3. CASE a = i + 1 \/ b = i + 1
      BY <1>1, <1>5, <1>6, <2>1, <3>3, <3>6
    <3>4. CASE a # i + 1 /\ b # i + 1
      <4>1. CASE a <= i /\ b <= i
        <5>1. a \in 1 .. Len(tree) /\ b \in 1 .. Len(tree) /\ tree'[a] = tree[a] /\ tree'[b] = tree[b]
          BY <1>6, <1>11, <4>1
        <5>2. QED
          BY <2>1, <3>1, <3>2, <5>1
      <4>2. CASE a <= i /\ b > i + 1
        BY <1>1, <3>6, <4>2
      <4>3. CASE a > i + 1 /\ b > i + 1
        <5>1. a - 1 \in 1 .. Len(tree) /\ b - 1 \in 1 .. Len(tree) /\ a - 1 <= b - 1
          BY <1>6, <1>11, <2>1, <4>3
        <5>2. tree'[a] = tree[a - 1] /\ tree'[b] = tree[b - 1]
          BY <1>6, <1>11, <4>3
        <5>3. QED
          BY <3>1, <3>2, <5>1, <5>2
      <4>4. QED
        BY <1>6, <2>1, <3>4, <4>1, <4>2, <4>3
    <3>5. QED
      BY <3>3, <3>4
  <2>2. \A u \in Armed' : \E d \in Delays : due'[u] <= known' + d
    <3>1. due'[t] <= known' + delay
      BY <1>1, <1>3, <1>4 DEF m
    <3>2. \A u \in Armed : \E d \in Delays : due'[u] <= known' + d
      BY <1>4, <1>8, DueIs
    <3>3. QED
      BY <1>5, <3>1, <3>2
  <2>3. QED
    BY <2>1, <2>2 DEF Sorted
<1>14. LateOK'
  <2>1. /\ due'[t] >= known - 2 * MaxGain /\ due'[t] >= known - MaxGain /\ due'[t] >= known
    BY <1>1, <1>3 DEF m
  <2>2. Deadline' = Deadline
    BY <1>4 DEF Deadline
  <2>3. /\ Deadline' >= known' - MaxGain \/ pc # "handle"
        /\ \A u \in Armed : due[u] >= known \/ due[u] >= Deadline \/ pc # "handle"
        /\ \A u \in Armed : IF pc = "handle" THEN due[u] >= known - MaxGain
                            ELSE due[u] >= known - 2 * MaxGain
    BY <1>4, <2>2 DEF IInv, Dated, LateOK
  <2>4. QED
    BY <1>4, <1>5, <1>8, <2>1, <2>2, <2>3 DEF LateOK
<1>15. PassedOK'
  <2>1. CASE pc = "handle"
    BY <1>4, <2>1 DEF PassedOK
  <2>2. CASE pc = "callback"
    <3>1. cursor = NoTimer => \A u \in Armed' : due'[u] >= known
      BY <1>1, <1>3, <1>5, <1>8, <2>2 DEF IInv, Dated, PassedOK, m
    <3>2. ASSUME NEW a \in 1 .. Len(tree'), NEW b \in 1 .. Len(tree'), tree'[a] = cursor, b < a
          PROVE  due'[tree'[b]] >= known /\ due'[cursor] > known
      <4>1. cursor \in Armed /\ cursor # t
        <5>1. tree'[a] \in Timer
          BY <1>5, <3>2
        <5>2. QED
          BY <1>4, <3>2, <5>1, TimerAssumption DEF IInv, Basic, TreeOK
      <4>2. PICK x \in 1 .. Len(tree) : tree[x] = cursor /\ x = IF a <= i THEN a ELSE a - 1
        BY <1>6, <1>11, <3>2, <4>1
      <4>3. due'[cursor] = due[cursor]
        BY <1>8, <4>1
      <4>4. CASE b = i + 1
        <5>1. due[cursor] > m /\ due'[tree'[b]] = m
          BY <1>3, <1>5, <1>6, <1>10, <3>2, <4>2, <4>4
        <5>2. due[cursor] \in Nat
          BY <1>8, <4>1
        <5>3. QED
          BY <1>1, <4>3, <5>1, <5>2 DEF m
      <4>5. CASE b # i + 1
        <5>1. PICK y \in 1 .. Len(tree) : tree[y] = tree'[b] /\ y < x
          <6>1. CASE b <= i
            <7>1. tree'[b] = tree[b] /\ b \in 1 .. Len(tree)
              BY <1>6, <1>11, <6>1
            <7>2. a # i + 1
              BY <1>5, <3>2, <4>1
            <7>3. b < x
              BY <1>5, <1>6, <3>2, <4>2, <6>1, <7>2
            <7>4. QED
              BY <7>1, <7>3
          <6>2. CASE b > i
            <7>1. b > i + 1 /\ a > i + 1
              BY <1>5, <1>6, <3>2, <4>5, <6>2
            <7>2. tree'[b] = tree[b - 1] /\ b - 1 \in 1 .. Len(tree) /\ x = a - 1
              BY <1>6, <1>11, <4>2, <7>1
            <7>3. QED
              BY <1>5, <1>6, <3>2, <7>2
          <6>3. QED
            BY <1>5, <1>6, <6>1, <6>2
        <5>2. due[tree[y]] >= known /\ due[cursor] > known
          BY <2>2, <4>2, <5>1 DEF IInv, Dated, PassedOK
        <5>3. QED
          BY <1>7, <1>8, <4>3, <5>1, <5>2
      <4>6. QED
        BY <4>4, <4>5
    <3>3. QED
      BY <1>4, <3>1, <3>2 DEF PassedOK
  <2>3. QED
    BY <1>4, <2>1, <2>2
<1>16. QED
  BY <1>12, <1>13, <1>14, <1>15 DEF Dated

\* The timer that fires is the first of the tree, and it is due.
LEMMA FireFirst ==
  ASSUME ShortDelays, IInv, NEW t \in Timer, Fire(t)
  PROVE  /\ t \in Armed
         /\ due[t] <= known
         /\ tree[1] = t
         /\ \A u \in Armed : due[t] <= due[u]
<1>1. t \in Armed /\ cursor = t /\ pc = "fire"
  BY TimerAssumption DEF Fire, IInv, Basic, TreeOK
<1>2. due[t] <= known /\ due[t] \in Nat /\ known \in Nat
  BY <1>1, DueIs, TimesAre DEF Fire, IInv
<1>3. PICK i \in 1 .. Len(tree) : tree[i] = t
  BY <1>1, RangeIs DEF Armed, IInv, Basic, TypeOK
<1>4. i = 1
  <2>1. 1 < i => 1 \in 1 .. Len(tree) /\ due[t] > known
    BY <1>1, <1>3 DEF IInv, Dated, PassedOK
  <2>2. QED
    BY <1>2, <1>3, <2>1
<1>5. ASSUME NEW u \in Armed PROVE due[t] <= due[u]
  <2>1. PICK j \in 1 .. Len(tree) : tree[j] = u
    BY RangeIs DEF Armed, IInv, Basic, TypeOK
  <2>2. QED
    BY <1>3, <1>4, <2>1 DEF IInv, Dated, Sorted
<1>6. QED
  BY <1>1, <1>2, <1>3, <1>4, <1>5

LEMMA FireDated == ASSUME ShortDelays, IInv, NEW t \in Timer, Fire(t) PROVE Dated'
<1>1. PICK i \in 1 .. Len(tree) :
           /\ tree[i] = t
           /\ cursor' = IF i = Len(tree) THEN NoTimer ELSE tree[i + 1]
           /\ tree' \in Seq(Timer)
           /\ Len(tree') = Len(tree) - 1
           /\ \A j \in 1 .. Len(tree) - 1 : tree'[j] = IF j < i THEN tree[j] ELSE tree[j + 1]
           /\ Armed' = Armed \ {t}
  BY FireIs DEF IInv
<1>2. tree[1] = t /\ t \in Armed
  BY FireFirst
<1>3. Len(tree) \in Nat /\ i = 1
  <2>1. Len(tree) \in Nat
    BY DEF IInv, Basic, TypeOK
  <2>2. QED
    BY <1>1, <1>2, <2>1 DEF IInv, Basic, TreeOK
<1>4. \A j \in 1 .. Len(tree') : j + 1 \in 1 .. Len(tree) /\ tree'[j] = tree[j + 1]
  BY <1>1, <1>3
<1>5. /\ known' = known /\ now' = now /\ clock' = clock /\ pc' = "callback" /\ pc = "fire"
      /\ due' = [due EXCEPT ![t] = 0] /\ time' = [time EXCEPT ![t] = 0]
  BY DEF Fire
<1>6. \A u \in Armed' : u \in Armed /\ u # t /\ u \in Timer /\ due'[u] = due[u]
  BY <1>1, <1>5, ArmedIs DEF IInv, Basic, TypeOK
<1>7. ClockOK'
  <2>1. known # 0
    BY <1>2, DueIs
  <2>2. QED
    BY <1>5, <2>1, WrapZero DEF IInv, Basic, TypeOK, Dated, ClockOK
<1>8. Sorted'
  <2>1. ASSUME NEW a \in 1 .. Len(tree'), NEW b \in 1 .. Len(tree'), a <= b
        PROVE  due'[tree'[a]] <= due'[tree'[b]]
    <3>1. due[tree[a + 1]] <= due[tree[b + 1]]
      BY <1>4, <2>1 DEF IInv, Dated, Sorted
    <3>2. tree'[a] \in Armed' /\ tree'[b] \in Armed'
      BY <1>1, RangeIs DEF Armed
    <3>3. QED
      BY <1>4, <1>6, <3>1, <3>2
  <2>2. \A u \in Armed' : \E d \in Delays : due'[u] <= known' + d
    BY <1>5, <1>6, DueIs
  <2>3. QED
    BY <2>1, <2>2 DEF Sorted
<1>9. LateOK'
  BY <1>5, <1>6, DueIs DEF LateOK
<1>10. PassedOK'
  <2>1. CASE Len(tree) = 1
    <3>1. cursor' = NoTimer /\ Len(tree') = 0
      BY <1>1, <1>3, <2>1
    <3>2. ASSUME NEW u \in Armed' PROVE FALSE
      <4>1. \E n \in 1 .. Len(tree') : tree'[n] = u
        BY <1>1, RangeIs DEF Armed
      <4>2. QED
        BY <3>1, <4>1
    <3>3. QED
      BY <3>1, <3>2 DEF PassedOK
  <2>2. CASE Len(tree) > 1
    <3>1. cursor' = tree'[1] /\ 1 \in 1 .. Len(tree') /\ cursor' # NoTimer
      <4>1. cursor' = tree[2] /\ 1 \in 1 .. Len(tree')
        BY <1>1, <1>3, <2>2
      <4>2. tree'[1] = tree[1 + 1] /\ tree'[1] \in Timer
        BY <1>1, <1>4, <4>1
      <4>3. QED
        BY <4>1, <4>2, TimerAssumption
    <3>2. \A a, b \in 1 .. Len(tree') : tree'[a] = tree'[b] => a = b
      BY FireBasic DEF IInv, Basic, TreeOK
    <3>3. \A a, b \in 1 .. Len(tree') : ~ (tree'[a] = cursor' /\ b < a)
      BY <3>1, <3>2
    <3>4. QED
      BY <3>1, <3>3 DEF PassedOK
  <2>3. QED
    BY <1>1, <1>3, <2>1, <2>2
<1>11. QED
  BY <1>7, <1>8, <1>9, <1>10 DEF Dated

\* The walk leaves no overdue timer behind.
LEMMA ExpireReturnDated == ASSUME ShortDelays, IInv, ExpireReturn PROVE Dated'
<1>1. ClockOK' /\ Sorted' /\ PassedOK'
  BY DEF ExpireReturn, history, IInv, Dated, ClockOK, Sorted, PassedOK, Armed
<1>2. known \in Nat /\ MaxGain \in Nat
  BY TimesAre DEF IInv
<1>3. ASSUME NEW t \in Armed PROVE due[t] >= known
  <2>1. CASE cursor = NoTimer
    BY <1>3, <2>1 DEF ExpireReturn, IInv, Dated, PassedOK
  <2>2. CASE cursor # NoTimer
    <3>1. cursor \in Armed /\ ~ Due(cursor)
      BY <2>2 DEF ExpireReturn, IInv, Basic, TreeOK
    <3>2. due[cursor] > known /\ due[cursor] \in Nat
      BY <1>2, <3>1, DueIs, TimesAre DEF IInv
    <3>3. PICK a \in 1 .. Len(tree) : tree[a] = cursor
      BY <3>1, RangeIs DEF Armed, IInv, Basic, TypeOK
    <3>4. PICK b \in 1 .. Len(tree) : tree[b] = t
      BY RangeIs DEF Armed, IInv, Basic, TypeOK
    <3>5. due[t] \in Nat
      BY DueIs, TimesAre DEF IInv
    <3>6. CASE b < a
      BY <3>3, <3>4, <3>6 DEF ExpireReturn, IInv, Dated, PassedOK
    <3>7. CASE b >= a
      <4>1. due[tree[a]] <= due[tree[b]]
        BY <3>7 DEF IInv, Dated, Sorted
      <4>2. QED
        BY <1>2, <3>2, <3>3, <3>4, <3>5, <4>1
    <3>8. QED
      BY <3>6, <3>7
  <2>3. QED
    BY <2>1, <2>2
<1>4. ASSUME NEW t \in Armed PROVE due[t] >= known - MaxGain
  <2>1. due[t] >= known /\ due[t] \in Nat
    BY <1>3, DueIs, TimesAre DEF IInv
  <2>2. QED
    BY <1>2, <2>1
<1>5. LateOK'
  BY <1>4 DEF ExpireReturn, history, LateOK, Armed
<1>6. QED
  BY <1>1, <1>5 DEF Dated

LEMMA DatedStep == ASSUME ShortDelays PROVE IInv /\ [Next]_vars => Dated'
<1> SUFFICES ASSUME IInv, [Next]_vars PROVE Dated'
  OBVIOUS
<1>1. CASE Wake
  BY <1>1 DEF Wake, history, IInv, Dated, ClockOK, Sorted, LateOK, PassedOK, Deadline, Armed
<1>2. CASE Return
  BY <1>2 DEF Return, history, IInv, Dated, ClockOK, Sorted, LateOK, PassedOK, Deadline, Armed
<1>3. CASE UNCHANGED vars
  BY <1>3 DEF vars, IInv, Dated, ClockOK, Sorted, LateOK, PassedOK, Deadline, Armed
<1>4. QED
  BY <1>1, <1>2, <1>3, FindDated, TickDated, ExpireDated, AddDated, FireDated,
     ExpireReturnDated DEF Next

-----------------------------------------------------------------------------
(* Theorems.                                                               *)

\* Type correctness of the loop and the timers, whatever delays scripts ask for; in
\* particular the walk of js_timer_expire never stands on a timer that left the tree.
THEOREM TimerTyped == Spec => []TypeOK
  <1>1. Basic => TypeOK
    BY DEF Basic
  <1>2. QED
    BY <1>1, InitBasic, BasicStep, PTL DEF Spec

\* The inductive invariant: the wrapped times stand for real ones no further apart than
\* the signed comparison can tell, and the walk leaves only timers behind that are not
\* overdue.
THEOREM TimerInvariance == ASSUME ShortDelays PROVE Spec => []IInv
  <1>1. Init => IInv
    BY InitBasic, InitDated DEF IInv
  <1>2. IInv /\ [Next]_vars => IInv'
    BY BasicStep, DatedStep DEF IInv
  <1>3. QED
    BY <1>1, <1>2, PTL DEF Spec

\* js_timer_rbtree_compare keeps the tree in the order of the real deadlines when
\* js_msec_t wraps around (js_timer.c:11-16), as long as delays are short.
THEOREM TreeStaysInOrder == ASSUME ShortDelays PROVE Spec => []TreeInOrder
  <1>1. ASSUME IInv PROVE TreeInOrder
    <2>1. Len(tree) \in Nat
      BY <1>1 DEF IInv, Basic, TypeOK
    <2>2. \A i \in 1 .. Len(tree) - 1 :
            i \in 1 .. Len(tree) /\ i + 1 \in 1 .. Len(tree) /\ i <= i + 1
      BY <2>1
    <2>3. QED
      BY <1>1, <2>2 DEF IInv, Dated, Sorted, TreeInOrder
  <1>2. QED
    BY <1>1, TimerInvariance, PTL

\* js_timer_find never tells epoll_wait to sleep past a deadline (js_timer.c:82-84).
THEOREM NeverOversleeps == ASSUME ShortDelays PROVE Spec => []NoOversleep
  <1>1. ASSUME IInv PROVE NoOversleep
    <2> SUFFICES ASSUME pc = "wait", tree # <<>>
                 PROVE  /\ timeout # Never
                        /\ \A t \in Armed : timeout = 0 \/ known + timeout <= due[t]
      BY DEF NoOversleep
    <2> DEFINE h == Head(tree)
    <2>1. h = tree[1] /\ 1 \in 1 .. Len(tree) /\ tree \in Seq(Timer) /\ h \in Timer
      BY <1>1 DEF IInv, Basic, TypeOK
    <2>2. timeout = Remaining(due[h] - known) /\ due[h] \in Nat /\ known \in Nat
      BY <1>1, <2>1, TimesAre DEF IInv, Dated, LateOK
    <2>3. ASSUME NEW t \in Armed PROVE due[h] <= due[t] /\ due[t] \in Nat
      <3>1. PICK j \in 1 .. Len(tree) : tree[j] = t
        BY <2>1, RangeIs DEF Armed
      <3>2. QED
        BY <1>1, <2>1, <3>1, ArmedIs, TimesAre DEF IInv, Dated, Sorted
    <2> HIDE DEF h
    <2>4. QED
      BY <2>2, <2>3 DEF Remaining, Never
  <1>2. QED
    BY <1>1, TimerInvariance, PTL

\* The thread's timers are a TimerQueue: Add and Fire map to its operations, the reading
\* of the clock in js_timer_expire to Advance, the rest to stutters.
THEOREM TimersAreAQueue == ASSUME ShortDelays PROVE Spec => ImplementsQueue
<1>1. Init => Queue!Init
  BY DEF Init, Queue!Init, Armed, Range
<1>2. IInv /\ [Next]_vars => [Queue!Next]_(Queue!vars)
  <2> SUFFICES ASSUME IInv, [Next]_vars PROVE [Queue!Next]_(Queue!vars)
    OBVIOUS
  <2> USE DEF Queue!vars
  <2>1. ASSUME NEW t \in Timer, Fire(t) PROVE Queue!Next
    <3>1. Armed' = Armed \ {t}
      BY <2>1, FireIs DEF IInv
    <3>2. Queue!Fire(t)
      BY <2>1, <3>1, FireFirst DEF Fire, Queue!Fire
    <3>3. QED
      BY <3>2 DEF Queue!Next
  <2>2. ASSUME NEW t \in Timer, NEW delay \in Delays, Add(t, delay) PROVE Queue!Next
    <3>1. Armed' = Armed \union {t}
      BY <2>2, AddIs DEF IInv
    <3>2. Queue!Add(t, delay)
      BY <2>2, <3>1 DEF Add, Queue!Add
    <3>3. QED
      BY <3>2 DEF Queue!Next
  <2>3. CASE Expire
    <3>1. known' >= known
      BY <2>3, TimesAre DEF Expire, IInv, Dated, ClockOK
    <3>2. Queue!Advance
      BY <2>3, <3>1 DEF Expire, Queue!Advance, Armed
    <3>3. QED
      BY <3>2 DEF Queue!Next
  <2>4. CASE Find \/ Tick \/ Wake \/ Return \/ ExpireReturn \/ UNCHANGED vars
    BY <2>4 DEF Find, Tick, Wake, Return, ExpireReturn, vars, history, Armed
  <2>5. QED
    BY <2>1, <2>2, <2>3, <2>4 DEF Next
<1>3. QED
  BY <1>1, <1>2, TimerInvariance, PTL DEF Spec, ImplementsQueue, Queue!Spec
=============================================================================
