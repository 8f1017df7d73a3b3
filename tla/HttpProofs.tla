----------------------------- MODULE HttpProofs -----------------------------
(***************************************************************************)
(* Proofs about Http: however the client's bytes are cut, the server takes *)
(* the requests that were sent, one by one, no buffer holds more than was  *)
(* allocated for it, and what the client receives is the replies, in       *)
(* order, for any requests, routes and sizes.                              *)
(***************************************************************************)
EXTENDS Http, SeqLemmas, TLAPS

-----------------------------------------------------------------------------
(* Sequences of whatever elements.                                         *)

IsSeq(s) == \E U : s \in Seq(U)

\* One behind the other they are a sequence.
LEMMA ConcatIsSeq ==
  ASSUME NEW s, IsSeq(s), NEW t, IsSeq(t)
  PROVE  IsSeq(s \o t) /\ Len(s \o t) = Len(s) + Len(t) /\ Len(s) \in Nat /\ Len(t) \in Nat
<1>1. PICK U : s \in Seq(U)
  BY DEF IsSeq
<1>2. PICK V : t \in Seq(V)
  BY DEF IsSeq
<1> DEFINE W == U \union V
<1>3. s \in Seq(W) /\ t \in Seq(W)
  BY <1>1, <1>2, SeqMonotonic
<1> HIDE DEF W
<1>4. s \o t \in Seq(W) /\ Len(s \o t) = Len(s) + Len(t)
  BY <1>3, ConcatProperties
<1>5. QED
  BY <1>3, <1>4, LenProperties DEF IsSeq

\* The part of a sequence between two of its positions is one.
LEMMA SubSeqIsSeq ==
  ASSUME NEW s, IsSeq(s), NEW m \in Nat \ {0}, NEW n \in Nat, n <= Len(s)
  PROVE  IsSeq(SubSeq(s, m, n)) /\ Len(SubSeq(s, m, n)) = IF m <= n THEN n - m + 1 ELSE 0
<1>1. PICK U : s \in Seq(U)
  BY DEF IsSeq
<1>2. Len(s) \in Nat /\ \A i \in 1 .. Len(s) : s[i] \in U
  BY <1>1, LenProperties, ElementOfSeq
<1>3. m \in Int /\ n \in Int /\ \A i \in m .. n : s[i] \in U
  BY <1>2
<1>4. QED
  BY <1>3, SubSeqProperties DEF IsSeq

-----------------------------------------------------------------------------
(* js_buf.c                                                                *)

\* A buffer and what it holds.
Buffer(b) ==
    /\ b = [data |-> b.data, cap |-> b.cap]
    /\ b.cap \in Nat
    /\ IsSeq(b.data)
    /\ Len(b.data) <= b.cap

\* Doubling ends, at enough.
LEMMA DoubledIs ==
  ASSUME NEW cap \in Nat, NEW need \in Nat
  PROVE  Doubled(cap, need) \in Nat /\ Doubled(cap, need) >= need
<1> DEFINE first == IF cap = 0 THEN FirstCap ELSE 2 * cap
           E == {c \in Nat : ~(c < need)}
           next == [c \in Nat |-> 2 * c]
           g(f) == [c \in Nat |-> IF c < need THEN f[2 * c] ELSE c]
           double == CHOOSE f : f = g(f)
           T == Nat \ {0}
<1>1. Doubled(cap, need) = double[first]
  BY DEF Doubled
<1>2. \A c \in Nat : c \notin E => next[c] \in Nat
  OBVIOUS
<1>3. \E f : Walk(Nat, E, next, f)
  <2> HIDE DEF E, next
  <2>1. QED
    BY <1>2, WalkExists
<1>4. \A f : g(f) = [c \in Nat |-> IF c \in E THEN c ELSE f[next[c]]]
  OBVIOUS
<1>5. \E f : f = g(f)
  <2> HIDE DEF E, next, g
  <2>1. QED
    BY <1>3, <1>4 DEF Walk
<1>6. double = g(double)
  <2> HIDE DEF g
  <2>1. QED
    BY <1>5
<1> HIDE DEF double
<1>7. \A c \in Nat : double[c] = IF c < need THEN double[2 * c] ELSE c
  BY <1>6, Zenon
<1>8. first \in T
  BY HttpAssumption
<1> HIDE DEF E, next, g
<1> DEFINE Good(c) == double[c] \in Nat /\ double[c] >= need
           G == {k \in 0 .. need : \A c \in T : need - c <= k => Good(c)}
<1>9. 0 \in G
  BY <1>7
<1>10. ASSUME NEW k \in 1 .. need, k - 1 \in G PROVE k \in G
  <2>1. ASSUME NEW c \in T, need - c <= k PROVE Good(c)
    <3>1. CASE ~(c < need)
      BY <1>7, <3>1
    <3>2. CASE c < need
      <4>1. 2 * c \in T /\ need - 2 * c <= k - 1
        BY <2>1
      <4>2. Good(2 * c)
        BY <1>10, <4>1
      <4>3. QED
        BY <1>7, <3>2, <4>2
    <3>3. QED
      BY <3>1, <3>2
  <2> HIDE DEF Good
  <2>2. QED
    BY <2>1
<1> HIDE DEF G
<1>11. \A k \in 0 .. need : k \in G
  BY <1>9, <1>10, UpTo
<1>12. need \in G
  BY <1>11
<1>13. Good(first)
  <2> HIDE DEF Good, first
  <2>1. first \in Nat /\ need - first <= need
    BY <1>8
  <2>2. QED
    BY <1>8, <1>12, <2>1 DEF G
<1>14. QED
  BY <1>1, <1>13

\* js_buf_append: the buffer holds the new bytes behind the old ones, and has room for them.
LEMMA BufAppendIs ==
  ASSUME NEW b, Buffer(b), NEW s, IsSeq(s)
  PROVE  Buffer(BufAppend(b, s)) /\ BufAppend(b, s).data = b.data \o s
<1> DEFINE need == Len(b.data) + Len(s)
           cap == IF need > b.cap THEN Doubled(b.cap, need) ELSE b.cap
           data == b.data \o s
<1>1. BufAppend(b, s) = [data |-> data, cap |-> cap]
  BY DEF BufAppend
<1>2. IsSeq(data) /\ Len(data) = need /\ need \in Nat
  BY ConcatIsSeq DEF Buffer
<1>3. b.cap \in Nat /\ Doubled(b.cap, need) \in Nat /\ Doubled(b.cap, need) >= need
  BY <1>2, DoubledIs DEF Buffer
<1> HIDE DEF need, data
<1>4. cap \in Nat /\ need <= cap
  BY <1>2, <1>3
<1> HIDE DEF cap
<1>5. BufAppend(b, s).data = data /\ BufAppend(b, s).cap = cap
      /\ BufAppend(b, s) = [data |-> BufAppend(b, s).data, cap |-> BufAppend(b, s).cap]
  BY <1>1
<1>6. Buffer(BufAppend(b, s))
  BY <1>2, <1>4, <1>5 DEF Buffer
<1>7. QED
  BY <1>5, <1>6 DEF data

\* js_buf_consume: what is behind the first n bytes is left.
LEMMA BufConsumeIs ==
  ASSUME NEW b, Buffer(b), NEW n \in Nat
  PROVE  /\ Buffer(BufConsume(b, n))
         /\ BufConsume(b, n).data = SubSeq(b.data, n + 1, Len(b.data))
<1> DEFINE data == SubSeq(b.data, n + 1, Len(b.data))
<1>1. IsSeq(b.data) /\ Len(b.data) \in Nat /\ Len(b.data) <= b.cap /\ b.cap \in Nat
  BY LenProperties DEF Buffer, IsSeq
<1>2. IsSeq(data) /\ Len(data) = IF n + 1 <= Len(b.data) THEN Len(b.data) - n ELSE 0
  <2>1. n + 1 \in Nat \ {0} /\ Len(b.data) - (n + 1) + 1 = Len(b.data) - n
    BY <1>1
  <2>2. QED
    BY <1>1, <2>1, SubSeqIsSeq
<1>3. n >= Len(b.data) => data = <<>>
  BY <1>1, SubSeqEmpty
<1>4. BufConsume(b, n) = [b EXCEPT !.data = IF n >= Len(b.data) THEN <<>> ELSE data]
  BY DEF BufConsume
<1> HIDE DEF data
<1>5. BufConsume(b, n) = [data |-> data, cap |-> b.cap]
  <2>1. BufConsume(b, n) = [b EXCEPT !.data = data]
    BY <1>3, <1>4
  <2>2. [[data |-> b.data, cap |-> b.cap] EXCEPT !.data = data] = [data |-> data, cap |-> b.cap]
    OBVIOUS
  <2>3. b = [data |-> b.data, cap |-> b.cap]
    BY DEF Buffer
  <2>4. QED
    BY <2>1, <2>2, <2>3
<1>6. Len(data) <= b.cap
  <2> DEFINE d == Len(b.data)
             c == b.cap
  <2>1. d \in Nat /\ c \in Nat /\ d <= c /\ Len(data) = IF n + 1 <= d THEN d - n ELSE 0
    BY <1>1, <1>2
  <2> HIDE DEF d, c
  <2>2. Len(data) <= c
    BY <2>1
  <2>3. QED
    BY <2>2 DEF c
<1>7. QED
  <2> DEFINE x == BufConsume(b, n)
             c == b.cap
  <2>1. x = [data |-> data, cap |-> c]
    BY <1>5
  <2>2. c \in Nat /\ IsSeq(data) /\ Len(data) <= c
    BY <1>1, <1>2, <1>6
  <2> HIDE DEF x, c
  <2>3. x.data = data /\ x.cap = c /\ x = [data |-> x.data, cap |-> x.cap]
    BY <2>1
  <2>4. Buffer(x)
    BY <2>2, <2>3 DEF Buffer
  <2>5. QED
    BY <2>3, <2>4 DEF x, data

-----------------------------------------------------------------------------
(* What a client sends.                                                    *)

\* The lines of a request's head.
HeadLines(r) == <<Start(r)>> \o r.headers

Token ==
    {Crlf} \union {Start(r) : r \in Request}
    \union UNION {Range(r.headers) \union Range(r.body) : r \in Request}

\* Each line and its end, one behind the other.
LEMMA EndedIs ==
  ASSUME NEW U, Crlf \in U, NEW ls \in Seq(U)
  PROVE  /\ Ended(ls) \in Seq(U)
         /\ Len(Ended(ls)) = 2 * Len(ls)
         /\ \A j \in 1 .. Len(ls) : Ended(ls)[2 * j - 1] = ls[j] /\ Ended(ls)[2 * j] = Crlf
<1> DEFINE n == Len(ls)
           s == [i \in DOMAIN ls |-> <<ls[i], Crlf>>]
<1>1. n \in Nat /\ DOMAIN ls = 1 .. n /\ \A i \in 1 .. n : ls[i] \in U
  OBVIOUS
<1>2. ASSUME NEW i \in 1 .. n
      PROVE  s[i] \in Seq(U) /\ Len(s[i]) = 2 /\ s[i][1] = ls[i] /\ s[i][2] = Crlf
  <2>1. s[i] = <<ls[i], Crlf>>
    BY <1>1
  <2> HIDE DEF s
  <2>2. QED
    BY <1>1, <2>1
<1>3. s \in Seq(Seq(U)) /\ Len(s) = n
  <2>1. s = [i \in 1 .. n |-> s[i]]
    BY <1>1
  <2> HIDE DEF s
  <2>2. \A i \in 1 .. n : s[i] \in Seq(U)
    BY <1>2
  <2>3. s \in [1 .. n -> Seq(U)]
    BY <2>1, <2>2
  <2>4. QED
    BY <1>1, <2>3
<1>4. Ended(ls) = FlattenSeq(s)
  BY DEF Ended
<1> HIDE DEF n, s
<1>5. PICK f : /\ Joined(s, f) /\ FlattenSeq(s) = f[n]
               /\ \A i \in 0 .. n : f[i] \in Seq(U)
  BY <1>3, FlattenJoins
<1>6. f[0] = <<>> /\ \A i \in 1 .. n : f[i] = f[i - 1] \o s[i]
  BY <1>3, <1>5 DEF Joined
<1> DEFINE Cut(i) == /\ Len(f[i]) = 2 * i
                     /\ \A j \in 1 .. i : f[i][2 * j - 1] = ls[j] /\ f[i][2 * j] = Crlf
           G == {i \in 0 .. n : Cut(i)}
<1>7. 0 \in G
  BY <1>1, <1>6
<1>8. ASSUME NEW i \in 1 .. n, i - 1 \in G PROVE i \in G
  <2> DEFINE v == f[i - 1]
             w == s[i]
  <2>1. v \in Seq(U) /\ w \in Seq(U) /\ f[i] = v \o w /\ i \in 0 .. n
    <3>1. i \in 0 .. n /\ i - 1 \in 0 .. n
      BY <1>1
    <3>2. w \in Seq(U)
      BY <1>2
    <3>3. v \in Seq(U)
      BY <1>5, <3>1
    <3>4. f[i] = v \o w
      BY <1>6
    <3>5. QED
      BY <3>1, <3>2, <3>3, <3>4
  <2>2. /\ Len(v) = 2 * (i - 1)
        /\ \A j \in 1 .. i - 1 : v[2 * j - 1] = ls[j] /\ v[2 * j] = Crlf
    BY <1>8
  <2>3. Len(w) = 2 /\ w[1] = ls[i] /\ w[2] = Crlf
    BY <1>2
  <2> HIDE DEF v, w
  <2>4. /\ Len(v \o w) = Len(v) + Len(w)
        /\ \A k \in 1 .. Len(v) + Len(w) : (v \o w)[k] = IF k <= Len(v) THEN v[k] ELSE w[k - Len(v)]
    BY <2>1, ConcatProperties
  <2>5. Len(f[i]) = 2 * i
    BY <2>1, <2>2, <2>3, <2>4
  <2>6. \A k \in 1 .. 2 * i : f[i][k] = IF k <= 2 * (i - 1) THEN v[k] ELSE w[k - 2 * (i - 1)]
    BY <2>1, <2>2, <2>3, <2>4
  <2>7. ASSUME NEW j \in 1 .. i PROVE f[i][2 * j - 1] = ls[j] /\ f[i][2 * j] = Crlf
    <3>1. 2 * j - 1 \in 1 .. 2 * i /\ 2 * j \in 1 .. 2 * i
      OBVIOUS
    <3>2. CASE j = i
      <4>1. 2 * j - 1 > 2 * (i - 1) /\ (2 * j - 1) - 2 * (i - 1) = 1 /\ (2 * j) - 2 * (i - 1) = 2
        BY <3>2
      <4>2. QED
        BY <2>3, <2>6, <3>1, <3>2, <4>1
    <3>3. CASE j # i
      <4>1. j \in 1 .. i - 1 /\ 2 * j <= 2 * (i - 1)
        BY <3>3
      <4>2. QED
        BY <2>2, <2>6, <3>1, <4>1
    <3>4. QED
      BY <3>2, <3>3
  <2>8. QED
    BY <2>1, <2>5, <2>7
<1> HIDE DEF G
<1>9. \A i \in 0 .. n : i \in G
  BY <1>1, <1>7, <1>8, UpTo
<1>10. n \in 0 .. n
  BY <1>1
<1>11. Cut(n) /\ f[n] \in Seq(U)
  BY <1>5, <1>9, <1>10 DEF G
<1>12. QED
  BY <1>4, <1>5, <1>11 DEF n

\* The lines of a head, none of them an end of line.
LEMMA HeadLinesAre ==
  ASSUME NEW r \in Request
  PROVE  /\ HeadLines(r) \in Seq(Token)
         /\ Len(HeadLines(r)) \in Nat \ {0}
         /\ \A j \in 1 .. Len(HeadLines(r)) : HeadLines(r)[j] # Crlf
         /\ r.body \in Seq(Token)
         /\ Crlf \in Token
<1>1. r.headers \in Seq(Range(r.headers) \ {Crlf}) /\ r.body \in Seq(Range(r.body))
  BY RequestAssumption
<1>2. Start(r) # Crlf
  BY DEF Start, Crlf
<1>3. Start(r) \in Token /\ Crlf \in Token /\ Range(r.headers) \subseteq Token /\ Range(r.body) \subseteq Token
  <2>1. Start(r) \in Token /\ Crlf \in Token
    BY DEF Token
  <2>2. Range(r.headers) \union Range(r.body) \subseteq Token
    BY Zenon DEF Token
  <2>3. QED
    BY <2>1, <2>2
<1> DEFINE h == Start(r)
           V == Token \ {Crlf}
<1>4. h \in V /\ r.headers \in Seq(V) /\ r.body \in Seq(Token)
  BY <1>1, <1>2, <1>3, SeqMonotonic
<1> HIDE DEF h
<1>5. <<h>> \o r.headers \in Seq(V) /\ Len(<<h>> \o r.headers) = Len(r.headers) + 1 /\ Len(r.headers) \in Nat
  <2> HIDE DEF V
  <2>1. QED
    BY <1>4, PrependIs, LenProperties
<1>6. HeadLines(r) = <<h>> \o r.headers
  BY DEF HeadLines, h
<1> DEFINE ls == HeadLines(r)
<1>7. ls \in Seq(V) /\ Len(ls) \in Nat \ {0}
  BY <1>5, <1>6
<1> HIDE DEF ls
<1>8. ls \in Seq(Token)
  BY <1>7, SeqMonotonic
<1>9. \A j \in 1 .. Len(ls) : ls[j] # Crlf
  BY <1>7, ElementOfSeq
<1>10. QED
  BY <1>3, <1>4, <1>7, <1>8, <1>9 DEF ls

\* A head of lines, the blank line, and a body.
Packed(ls, b) == Ended(ls) \o <<Crlf>> \o b

\* Where everything is in it.
LEMMA PackedIs ==
  ASSUME NEW U, Crlf \in U, NEW ls \in Seq(U), NEW b \in Seq(U)
  PROVE  /\ Packed(ls, b) \in Seq(U)
         /\ Len(Packed(ls, b)) = 2 * Len(ls) + 1 + Len(b)
         /\ \A j \in 1 .. Len(ls) : Packed(ls, b)[2 * j - 1] = ls[j] /\ Packed(ls, b)[2 * j] = Crlf
         /\ Packed(ls, b)[2 * Len(ls) + 1] = Crlf
         /\ \A j \in 1 .. Len(b) : Packed(ls, b)[2 * Len(ls) + 1 + j] = b[j]
<1> DEFINE n == Len(ls)
           e == Ended(ls)
           c == <<Crlf>>
           h == e \o c
<1>1. n \in Nat /\ Len(b) \in Nat
  BY LenProperties
<1>2. Packed(ls, b) = h \o b
  BY DEF Packed
<1>3. /\ e \in Seq(U) /\ Len(e) = 2 * n
      /\ \A j \in 1 .. n : e[2 * j - 1] = ls[j] /\ e[2 * j] = Crlf
  BY EndedIs
<1>4. c \in Seq(U) /\ Len(c) = 1 /\ c[1] = Crlf
  OBVIOUS
<1> HIDE DEF e, c, n
<1>5. /\ h \in Seq(U) /\ Len(h) = 2 * n + 1
      /\ \A k \in 1 .. 2 * n + 1 : h[k] = IF k <= 2 * n THEN e[k] ELSE c[k - 2 * n]
  <2>1. /\ h \in Seq(U) /\ Len(h) = Len(e) + Len(c)
        /\ \A k \in 1 .. Len(e) + Len(c) : h[k] = IF k <= Len(e) THEN e[k] ELSE c[k - Len(e)]
    BY <1>3, <1>4, ConcatProperties
  <2> HIDE DEF h
  <2>2. QED
    BY <1>3, <1>4, <2>1
<1> HIDE DEF h
<1> DEFINE w == h \o b
<1>6. /\ w \in Seq(U) /\ Len(w) = 2 * n + 1 + Len(b)
      /\ \A k \in 1 .. 2 * n + 1 : w[k] = h[k]
      /\ \A k \in 1 .. Len(b) : w[2 * n + 1 + k] = b[k]
  <2>1. /\ w \in Seq(U) /\ Len(w) = Len(h) + Len(b)
        /\ \A k \in 1 .. Len(h) + Len(b) : w[k] = IF k <= Len(h) THEN h[k] ELSE b[k - Len(h)]
    BY <1>5, ConcatProperties
  <2> HIDE DEF w
  <2>2. \A k \in 1 .. Len(b) : /\ 2 * n + 1 + k \in 1 .. Len(h) + Len(b) /\ ~(2 * n + 1 + k <= Len(h))
                                /\ (2 * n + 1 + k) - Len(h) = k
    BY <1>1, <1>5
  <2>3. \A k \in 1 .. Len(b) : w[2 * n + 1 + k] = b[k]
    BY <2>1, <2>2
  <2>4. QED
    BY <1>1, <1>5, <2>1, <2>3
<1> HIDE DEF w
<1>7. w[2 * n + 1] = Crlf
  <2>1. 2 * n + 1 \in 1 .. 2 * n + 1 /\ ~(2 * n + 1 <= 2 * n) /\ (2 * n + 1) - 2 * n = 1
    BY <1>1
  <2>2. QED
    BY <1>4, <1>5, <1>6, <2>1
<1>8. ASSUME NEW j \in 1 .. n PROVE w[2 * j - 1] = ls[j] /\ w[2 * j] = Crlf
  <2>1. 2 * j - 1 \in 1 .. 2 * n + 1 /\ 2 * j \in 1 .. 2 * n + 1 /\ 2 * j - 1 <= 2 * n /\ 2 * j <= 2 * n
    BY <1>1
  <2>2. QED
    BY <1>3, <1>5, <1>6, <2>1
<1>9. QED
  BY <1>2, <1>6, <1>7, <1>8 DEF w, n

\* What a client sends for a request begins with its head, line for line.
HeadOf(data, ls) ==
    \A j \in 1 .. Len(ls) :
        /\ 2 * j - 1 <= Len(data) => data[2 * j - 1] = ls[j]
        /\ 2 * j <= Len(data) => data[2 * j] = Crlf

\* A request on the wire: its head, the blank line, its body.
LEMMA WireIs ==
  ASSUME NEW r \in Request
  PROVE  /\ Wire(r) \in Seq(Token)
         /\ Len(Wire(r)) = 2 * Len(HeadLines(r)) + 1 + Len(r.body)
         /\ HeadOf(Wire(r), HeadLines(r))
         /\ Wire(r)[2 * Len(HeadLines(r)) + 1] = Crlf
<1> DEFINE ls == HeadLines(r)
           b == r.body
           w == Wire(r)
<1>1. ls \in Seq(Token) /\ b \in Seq(Token) /\ Crlf \in Token
  BY HeadLinesAre
<1>2. w = Packed(ls, b)
  BY DEF Wire, HeadLines, Packed
<1> HIDE DEF ls, b, w
<1>3. w \in Seq(Token) /\ Len(w) = 2 * Len(ls) + 1 + Len(b) /\ w[2 * Len(ls) + 1] = Crlf
  BY <1>1, <1>2, PackedIs
<1>4. \A j \in 1 .. Len(ls) : w[2 * j - 1] = ls[j] /\ w[2 * j] = Crlf
  <2>1. \A j \in 1 .. Len(ls) : Packed(ls, b)[2 * j - 1] = ls[j] /\ Packed(ls, b)[2 * j] = Crlf
    BY <1>1, PackedIs
  <2>2. QED
    BY <1>2, <2>1
<1>5. HeadOf(w, ls)
  BY <1>4 DEF HeadOf
<1>6. QED
  BY <1>3, <1>5 DEF ls, b, w

-----------------------------------------------------------------------------
(* js_http_parse_request                                                   *)

\* Bytes that begin like a request's: the end of the head is found where it is, once
\* it has come.
LEMMA HeadEndIs ==
  ASSUME NEW U, NEW data \in Seq(U), NEW ls \in Seq(U), Len(ls) # 0,
         \A j \in 1 .. Len(ls) : ls[j] # Crlf,
         HeadOf(data, ls),
         2 * Len(ls) + 1 <= Len(data) => data[2 * Len(ls) + 1] = Crlf
  PROVE  HeadEnd(data) = IF 2 * Len(ls) + 1 <= Len(data) THEN 2 * Len(ls) ELSE 0
<1> DEFINE n == Len(ls)
           d == Len(data)
           ends == {i \in 1 .. d - 1 : data[i] = Crlf /\ data[i + 1] = Crlf}
<1>1. n \in Nat \ {0} /\ d \in Nat
  OBVIOUS
<1>2. HeadEnd(data) = IF ends = {} THEN 0 ELSE Min(ends)
  BY DEF HeadEnd
<1>3. \A j \in 1 .. n : /\ 2 * j - 1 <= d => data[2 * j - 1] # Crlf
                        /\ 2 * j <= d => data[2 * j] = Crlf
  BY DEF HeadOf
<1>4. 2 * n + 1 <= d => data[2 * n + 1] = Crlf
  OBVIOUS
<1> HIDE DEF n, d
<1>5. ASSUME NEW i \in ends PROVE i >= 2 * n
  <2> SUFFICES ASSUME i < 2 * n PROVE FALSE
    BY <1>1
  <2>1. i \in 1 .. d - 1 /\ data[i] = Crlf /\ data[i + 1] = Crlf
    OBVIOUS
  <2>2. PICK j \in 1 .. n : i = 2 * j - 1 \/ i = 2 * j
    <3>1. (i + 1) \div 2 \in 1 .. n /\ (i = 2 * ((i + 1) \div 2) - 1 \/ i = 2 * ((i + 1) \div 2))
      BY <1>1, <2>1
    <3>2. QED
      BY <3>1
  <2>3. CASE i = 2 * j - 1
    BY <1>1, <1>3, <2>1, <2>3
  <2>4. CASE i = 2 * j
    <3>1. j + 1 \in 1 .. n /\ 2 * (j + 1) - 1 = i + 1 /\ i + 1 <= d
      BY <1>1, <2>1, <2>4
    <3>2. QED
      BY <1>3, <2>1, <3>1
  <2>5. QED
    BY <2>2, <2>3, <2>4
<1>6. CASE 2 * n + 1 <= d
  <2>1. 2 * n \in ends
    <3>1. data[2 * n] = Crlf
      BY <1>1, <1>3, <1>6
    <3>2. 2 * n \in 1 .. d - 1
      BY <1>1, <1>6
    <3>3. QED
      BY <1>4, <1>6, <3>1, <3>2
  <2>2. \A i \in ends : i \in Int
    OBVIOUS
  <2> HIDE DEF ends
  <2> DEFINE L == {x \in ends : \A y \in ends : x <= y}
  <2>3. L = {2 * n}
    BY <1>1, <1>5, <2>1, <2>2
  <2>4. Min(ends) = 2 * n
    <3>1. Min(ends) = CHOOSE x \in ends : \A y \in ends : x <= y
      BY DEF Min
    <3>2. 2 * n \in ends /\ \A y \in ends : 2 * n <= y
      BY <1>5, <2>1
    <3>3. Min(ends) \in L
      BY <3>1, <3>2
    <3>4. QED
      BY <2>3, <3>3
  <2>5. QED
    BY <1>2, <1>6, <2>1, <2>4 DEF n, d
<1>7. CASE ~(2 * n + 1 <= d)
  <2>1. ASSUME NEW i \in ends PROVE FALSE
    BY <1>1, <1>5, <1>7, <2>1
  <2>2. ends = {}
    BY <2>1
  <2>3. QED
    BY <1>2, <1>7, <2>2 DEF n, d
<1>8. QED
  BY <1>6, <1>7

\* Without bytes there is no head.
LEMMA NoHeadEnd == HeadEnd(<<>>) = 0
<1> DEFINE data == <<>>
           ends == {i \in 1 .. Len(data) - 1 : data[i] = Crlf /\ data[i + 1] = Crlf}
<1>1. Len(data) = 0
  OBVIOUS
<1>2. ends = {}
  <2> HIDE DEF data
  <2>1. QED
    BY <1>1
<1>3. HeadEnd(data) = IF ends = {} THEN 0 ELSE Min(ends)
  BY DEF HeadEnd
<1> HIDE DEF ends
<1>4. QED
  BY <1>2, <1>3

\* The lines of a head that has come are the lines that were sent.
LEMMA LinesIs ==
  ASSUME NEW U, NEW data \in Seq(U), NEW ls \in Seq(U),
         \A j \in 1 .. Len(ls) : ls[j] # Crlf,
         HeadOf(data, ls), 2 * Len(ls) <= Len(data)
  PROVE  Lines(data, 2 * Len(ls)) = ls
<1> DEFINE n == Len(ls)
           step == [i \in 1 .. 2 * n |->
                       [v \in Seq(U) |-> IF data[i] = Crlf THEN v ELSE Append(v, data[i])]]
           g(h) == [i \in 0 .. 2 * n |-> IF i = 0 THEN <<>>
                                         ELSE IF data[i] = Crlf THEN h[i - 1]
                                         ELSE Append(h[i - 1], data[i])]
           c == CHOOSE h : h = g(h)
<1>1. n \in Nat /\ 2 * n \in Nat /\ <<>> \in Seq(U)
  OBVIOUS
<1>2. \A j \in 1 .. n : ls[j] \in U /\ data[2 * j - 1] = ls[j] /\ ls[j] # Crlf /\ data[2 * j] = Crlf
  BY DEF HeadOf
<1>3. \A i \in 1 .. 2 * n : data[i] \in U
  OBVIOUS
<1>4. Lines(data, 2 * n) = c[2 * n]
  BY DEF Lines
<1>5. \A i \in 1 .. 2 * n, v \in Seq(U) :
          /\ step[i][v] = IF data[i] = Crlf THEN v ELSE Append(v, data[i])
          /\ step[i][v] \in Seq(U)
  BY <1>3
<1> HIDE DEF step, n
<1>6. PICK f : Steps(2 * n, <<>>, step, f)
  BY <1>1, StepsExist
<1>7. \A i \in 0 .. 2 * n : f[i] \in Seq(U)
  <2>1. \A i \in 1 .. 2 * n, v \in Seq(U) : step[i][v] \in Seq(U)
    BY <1>5
  <2>2. QED
    BY <1>1, <1>6, <2>1, StepsStay
<1>8. f[0] = <<>> /\ \A i \in 1 .. 2 * n : f[i] = step[i][f[i - 1]]
  BY <1>6 DEF Steps
<1>9. ASSUME NEW i \in 0 .. 2 * n
      PROVE  f[i] = IF i = 0 THEN <<>> ELSE IF data[i] = Crlf THEN f[i - 1] ELSE Append(f[i - 1], data[i])
  <2>1. CASE i = 0
    BY <1>8, <2>1
  <2>2. CASE i # 0
    <3>1. i \in 1 .. 2 * n /\ i - 1 \in 0 .. 2 * n
      BY <1>1, <2>2
    <3>2. f[i - 1] \in Seq(U) /\ f[i] = step[i][f[i - 1]]
      BY <1>7, <1>8, <3>1
    <3>3. QED
      BY <1>5, <2>2, <3>1, <3>2
  <2>3. QED
    BY <2>1, <2>2
<1>10. \E h : h = g(h)
  <2>1. f = [i \in 0 .. 2 * n |-> f[i]]
    BY <1>6 DEF Steps
  <2>2. f = g(f)
    BY <1>9, <2>1
  <2> HIDE DEF g
  <2>3. QED
    BY <2>2
<1>11. c = g(c)
  <2> HIDE DEF g
  <2>1. QED
    BY <1>10
<1> HIDE DEF c
<1>12. \A i \in 0 .. 2 * n : c[i] = IF i = 0 THEN <<>> ELSE IF data[i] = Crlf THEN c[i - 1] ELSE Append(c[i - 1], data[i])
  BY <1>11, Zenon
<1> HIDE DEF g
<1> DEFINE Cut(k) == /\ c[2 * k] \in Seq(U) /\ Len(c[2 * k]) = k
                     /\ \A j \in 1 .. k : c[2 * k][j] = ls[j]
           G == {k \in 0 .. n : Cut(k)}
<1>13. 0 \in G
  <2>1. 2 * 0 = 0 /\ 0 \in 0 .. 2 * n /\ 0 \in 0 .. n
    BY <1>1
  <2>2. c[0] = <<>>
    BY <1>12, <2>1
  <2>3. c[2 * 0] = <<>>
    BY <2>1, <2>2
  <2>4. Cut(0)
    <3> DEFINE v == c[2 * 0]
    <3>1. v \in Seq(U) /\ Len(v) = 0
      BY <2>3, EmptySeq
    <3> HIDE DEF v
    <3>2. \A j \in 1 .. 0 : v[j] = ls[j]
      OBVIOUS
    <3>3. QED
      BY <3>1, <3>2 DEF v
  <2> HIDE DEF Cut
  <2>5. QED
    BY <2>1, <2>4
<1>14. ASSUME NEW k \in 1 .. n, k - 1 \in G PROVE k \in G
  <2> DEFINE v == c[2 * (k - 1)]
             e == ls[k]
  <2>1. v \in Seq(U) /\ Len(v) = k - 1 /\ \A j \in 1 .. k - 1 : v[j] = ls[j]
    BY <1>14
  <2>2. e \in U /\ data[2 * k - 1] = e /\ e # Crlf /\ data[2 * k] = Crlf
    BY <1>2
  <2>3. /\ 2 * k - 1 \in 0 .. 2 * n /\ 2 * k - 1 # 0 /\ (2 * k - 1) - 1 = 2 * (k - 1)
        /\ 2 * k \in 0 .. 2 * n /\ 2 * k # 0 /\ k \in 0 .. n
    BY <1>1
  <2>4. c[2 * k - 1] = Append(v, e)
    BY <1>12, <2>2, <2>3
  <2>5. c[2 * k] = c[2 * k - 1]
    BY <1>12, <2>2, <2>3
  <2> HIDE DEF v
  <2>6. /\ Append(v, e) \in Seq(U) /\ Len(Append(v, e)) = k /\ Append(v, e)[k] = e
        /\ \A j \in 1 .. k - 1 : Append(v, e)[j] = v[j]
    <3> HIDE DEF e
    <3>1. QED
      BY <2>1, <2>2, AppendProperties
  <2>7. \A j \in 1 .. k : Append(v, e)[j] = ls[j]
    BY <2>1, <2>6
  <2>8. QED
    BY <2>3, <2>4, <2>5, <2>6, <2>7
<1> HIDE DEF G
<1>15. \A k \in 0 .. n : k \in G
  BY <1>1, <1>13, <1>14, UpTo
<1>16. n \in 0 .. n
  BY <1>1
<1>17. Cut(n)
  BY <1>15, <1>16 DEF G
<1> DEFINE v == c[2 * n]
<1>18. v \in Seq(U) /\ Len(v) = Len(ls) /\ \A j \in 1 .. Len(v) : v[j] = ls[j]
  BY <1>17 DEF n
<1> HIDE DEF v
<1>19. v = ls
  BY <1>18, SeqEqual
<1>20. QED
  BY <1>4, <1>19 DEF v, n

\* What is in front of what was sent begins like it.
LEMMA PrefixIs ==
  ASSUME NEW U, NEW data \in Seq(U), NEW more \in Seq(U), NEW w \in Seq(U), NEW rest \in Seq(U),
         data \o more = w \o rest
  PROVE  \A i \in 1 .. Len(w) : i <= Len(data) => data[i] = w[i]
<1>1. /\ Len(data) \in Nat /\ Len(more) \in Nat /\ Len(w) \in Nat /\ Len(rest) \in Nat
      /\ \A i \in 1 .. Len(data) + Len(more) :
            (data \o more)[i] = IF i <= Len(data) THEN data[i] ELSE more[i - Len(data)]
      /\ \A i \in 1 .. Len(w) + Len(rest) :
            (w \o rest)[i] = IF i <= Len(w) THEN w[i] ELSE rest[i - Len(w)]
  BY ConcatProperties, LenProperties
<1> DEFINE x == data \o more
           y == w \o rest
<1>2. x = y
  OBVIOUS
<1>3. ASSUME NEW i \in 1 .. Len(w), i <= Len(data) PROVE data[i] = w[i]
  <2>1. x[i] = data[i]
    BY <1>1, <1>3
  <2>2. y[i] = w[i]
    BY <1>1
  <2> HIDE DEF x, y
  <2>3. QED
    BY <1>2, <2>1, <2>2
<1>4. QED
  BY <1>3

\* And if all of it has come, what is behind it stays.
LEMMA BehindIs ==
  ASSUME NEW U, NEW data \in Seq(U), NEW more \in Seq(U), NEW w \in Seq(U), NEW rest \in Seq(U),
         data \o more = w \o rest, Len(w) <= Len(data)
  PROVE  SubSeq(data, Len(w) + 1, Len(data)) \o more = rest
<1> DEFINE n == Len(w)
           d == Len(data)
           z == SubSeq(data, n + 1, d)
           a == SubSeq(data, 1, n)
<1>1. n \in Nat /\ d \in Nat /\ n <= d
  BY LenProperties
<1>2. a \o z = data
  <2>1. 1 \in 1 .. d + 1 /\ n \in 0 .. d /\ d \in n .. d
    BY <1>1
  <2>2. SubSeq(data, 1, n) \o SubSeq(data, n + 1, d) = SubSeq(data, 1, d)
    <3> HIDE DEF n
    <3>1. 1 - 1 = 0
      OBVIOUS
    <3>2. QED
      BY <2>1, <3>1, ConcatAdjacentSubSeq
  <2>3. SubSeq(data, 1, d) = data
    BY SubSeqFull
  <2>4. QED
    BY <2>2, <2>3
<1>3. z \in Seq(U)
  <2>1. n + 1 \in Int /\ d \in Int /\ \A i \in n + 1 .. d : data[i] \in U
    BY <1>1, ElementOfSeq
  <2> HIDE DEF n, d
  <2>2. QED
    BY <2>1, SubSeqProperties
<1>4. a = w
  <2>1. a \in Seq(U) /\ Len(a) = n /\ \A i \in 1 .. n : a[i] = data[i]
    <3>1. 1 \in Int /\ n \in Int /\ \A i \in 1 .. n : data[i] \in U
      BY <1>1, ElementOfSeq
    <3> HIDE DEF n, d
    <3>2. /\ SubSeq(data, 1, n) \in Seq(U)
          /\ Len(SubSeq(data, 1, n)) = IF 1 <= n THEN n - 1 + 1 ELSE 0
          /\ \A i \in 1 .. n - 1 + 1 : SubSeq(data, 1, n)[i] = data[1 + i - 1]
      BY <3>1, SubSeqProperties
    <3>3. QED
      BY <1>1, <3>2
  <2>2. \A i \in 1 .. n : data[i] = w[i]
    BY <1>1, PrefixIs
  <2> HIDE DEF a
  <2>3. QED
    BY <2>1, <2>2, SeqEqual
<1> HIDE DEF a, z
<1>5. w \o (z \o more) = w \o rest
  <2>1. (w \o z) \o more = w \o (z \o more)
    <3>1. AreSeqs(U, w, z, more)
      BY <1>3 DEF AreSeqs
    <3>2. QED
      BY <3>1, Associates
  <2>2. QED
    BY <1>2, <1>4, <2>1
<1>6. z \o more \in Seq(U)
  BY <1>3, ConcatProperties
<1>7. z \o more = rest
  BY <1>5, <1>6, ConcatSimplifications
<1>8. QED
  BY <1>7 DEF z, n, d

\* The head is found once the blank line has come, and then the lines are those sent.
LEMMA HeadSeen ==
  ASSUME NEW r \in Request, NEW data \in Seq(Token), NEW more \in Seq(Token), NEW rest \in Seq(Token),
         data \o more = Wire(r) \o rest
  PROVE  LET ls == HeadLines(r)
         IN /\ HeadEnd(data) = IF 2 * Len(ls) + 1 <= Len(data) THEN 2 * Len(ls) ELSE 0
            /\ 2 * Len(ls) + 1 <= Len(data) => Lines(data, 2 * Len(ls)) = ls
            /\ \A i \in 1 .. Len(Wire(r)) : i <= Len(data) => data[i] = Wire(r)[i]
<1> DEFINE ls == HeadLines(r)
           n == Len(ls)
           w == Wire(r)
           b == r.body
<1>1. /\ ls \in Seq(Token) /\ n \in Nat \ {0} /\ b \in Seq(Token)
      /\ \A j \in 1 .. n : ls[j] # Crlf
  BY HeadLinesAre
<1>2. w \in Seq(Token) /\ Len(w) = 2 * n + 1 + Len(b) /\ HeadOf(w, ls) /\ w[2 * n + 1] = Crlf
  BY WireIs
<1>3. Len(b) \in Nat /\ Len(data) \in Nat
  BY <1>1, LenProperties
<1>7. data \o more = w \o rest
  OBVIOUS
<1> HIDE DEF ls, w, b
<1>8. \A i \in 1 .. Len(w) : i <= Len(data) => data[i] = w[i]
  BY <1>2, <1>7, PrefixIs
<1>9. HeadOf(data, ls)
  <2>1. ASSUME NEW j \in 1 .. n
        PROVE  /\ 2 * j - 1 <= Len(data) => data[2 * j - 1] = ls[j]
               /\ 2 * j <= Len(data) => data[2 * j] = Crlf
    <3>1. w[2 * j - 1] = ls[j] /\ w[2 * j] = Crlf
      <4>1. 2 * j - 1 <= Len(w) /\ 2 * j <= Len(w)
        BY <1>1, <1>2, <1>3
      <4>2. QED
        BY <1>2, <4>1 DEF HeadOf
    <3>2. 2 * j - 1 \in 1 .. Len(w) /\ 2 * j \in 1 .. Len(w)
      BY <1>1, <1>2, <1>3
    <3>3. QED
      BY <1>8, <3>1, <3>2
  <2>2. QED
    BY <2>1 DEF HeadOf
<1>10. 2 * n + 1 <= Len(data) => data[2 * n + 1] = Crlf
  BY <1>1, <1>2, <1>3, <1>8
<1>11. HeadEnd(data) = IF 2 * n + 1 <= Len(data) THEN 2 * n ELSE 0
  BY <1>1, <1>9, <1>10, HeadEndIs
<1>12. ASSUME 2 * n + 1 <= Len(data) PROVE Lines(data, 2 * n) = ls
  <2>1. 2 * n <= Len(data)
    <3> HIDE DEF n
    <3>1. QED
      BY <1>1, <1>3, <1>12
  <2>2. QED
    BY <1>1, <1>9, <2>1, LinesIs
<1>13. QED
  BY <1>8, <1>11, <1>12 DEF ls, n, w

\* A request is taken whole and nothing behind it, once all of it has come.
LEMMA ParseIs ==
  ASSUME NEW r \in Request, NEW data \in Seq(Token), NEW more \in Seq(Token), NEW rest \in Seq(Token),
         data \o more = Wire(r) \o rest
  PROVE  /\ Parse(data).rc \in {-1, 0, 1}
         /\ Parse(data).rc = 1 => /\ Parse(data).size = Len(Wire(r))
                                 /\ Len(Wire(r)) <= Len(data)
                                 /\ IsSeq(Parse(data).body)
<1> DEFINE ls == HeadLines(r)
           n == Len(ls)
           w == Wire(r)
           b == r.body
           end == HeadEnd(data)
           lines == Lines(data, end)
           first == PathEnd(lines)
           headers == HeaderLines(lines, first)
           len == BodyLength(headers)
           needed == end + 1 + len
           body == SubSeq(data, end + 2, needed)
           method == IF Spaces(lines[1]) > 0 THEN MethodFromStr(lines[1].method) ELSE "ALL"
           path == IF first = 1 THEN lines[1].path ELSE Nonsense
           size == Total(end + 1, len)
           whole == [rc |-> 1, method |-> method, path |-> path, headers |-> headers,
                     body |-> body, size |-> size]
<1>1. /\ ls \in Seq(Token) /\ n \in Nat \ {0} /\ b \in Seq(Token)
      /\ \A j \in 1 .. n : ls[j] # Crlf
  BY HeadLinesAre
<1>2. w \in Seq(Token) /\ Len(w) = 2 * n + 1 + Len(b) /\ HeadOf(w, ls) /\ w[2 * n + 1] = Crlf
  BY WireIs
<1>3. Len(b) \in Nat /\ Len(data) \in Nat
  BY <1>1, LenProperties
<1>4. first \notin {0, Len(lines)} /\ lines = ls => len = Len(b)
  BY RequestAssumption DEF HeadLines
<1>5. Parse(data) = IF end = 0 THEN [rc |-> 0]
                    ELSE IF first \in {0, Len(lines)} THEN [rc |-> -1]
                    ELSE IF Len(data) < needed THEN [rc |-> 0]
                    ELSE whole
  BY DEF Parse
<1>6. size = end + 1 + len
  BY DEF Total
<1>7. /\ end = IF 2 * n + 1 <= Len(data) THEN 2 * n ELSE 0
      /\ 2 * n + 1 <= Len(data) => Lines(data, 2 * n) = ls
  BY HeadSeen
<1> HIDE DEF ls, w, b
<1>8. end # 0 => end = 2 * n /\ 2 * n + 1 <= Len(data)
  <2> HIDE DEF end
  <2>1. QED
    BY <1>1, <1>3, <1>7
<1>9. end # 0 => lines = ls
  <2> HIDE DEF end
  <2>1. QED
    BY <1>7, <1>8
<1> HIDE DEF headers, method, path, first, n
<1>10. CASE end = 0 \/ first \in {0, Len(lines)} \/ Len(data) < needed
  <2> HIDE DEF end, lines, needed, whole
  <2>1. Parse(data).rc \in {-1, 0}
    BY <1>5, <1>10
  <2>2. QED
    BY <2>1
<1>11. CASE ~(end = 0 \/ first \in {0, Len(lines)} \/ Len(data) < needed)
  <2>1. len = Len(b) /\ end = 2 * n
    <3> HIDE DEF end, lines, len, needed
    <3>1. QED
      BY <1>4, <1>8, <1>9, <1>11
  <2>2. needed = Len(w) /\ size = Len(w)
    <3> HIDE DEF end, len, size
    <3>1. QED
      BY <1>1, <1>2, <1>3, <1>6, <2>1
  <2>3. IsSeq(body)
    <3> HIDE DEF end, needed
    <3>1. end + 2 \in Nat \ {0} /\ needed \in Nat /\ needed <= Len(data) /\ IsSeq(data)
      BY <1>1, <1>2, <1>3, <1>11, <2>1, <2>2 DEF IsSeq
    <3>2. QED
      BY <3>1, SubSeqIsSeq
  <2>4. Parse(data) = whole
    <3> HIDE DEF end, lines, needed, whole
    <3>1. QED
      BY <1>5, <1>11
  <2>5. Len(w) <= Len(data)
    <3> HIDE DEF needed
    <3>1. QED
      BY <1>2, <1>3, <1>1, <1>11, <2>2
  <2> HIDE DEF size, body, w
  <2>6. Parse(data).rc = 1 /\ Parse(data).size = size /\ Parse(data).body = body
    BY <2>4
  <2>7. QED
    BY <2>2, <2>3, <2>5, <2>6 DEF w
<1>12. QED
  BY <1>10, <1>11

\* Nothing is no request.
LEMMA ParseNothing == Parse(<<>>).rc = 0
<1>1. Parse(<<>>) = [rc |-> 0]
  BY NoHeadEnd DEF Parse
<1>2. QED
  BY <1>1

-----------------------------------------------------------------------------
(* js_qjs_handle_request and js_http_serialize_response                    *)

\* A response as a handler makes it.
Response(resp) ==
    /\ resp.status \in {201, 404, 500}
    /\ IsSeq(resp.headers)
    /\ IsSeq(resp.body)

\* One element is a sequence, and so is none.
LEMMA ShortIsSeq ==
  ASSUME NEW e
  PROVE  IsSeq(<<e>>) /\ IsSeq(<<>>)
<1>1. <<e>> \in Seq({e}) /\ <<>> \in Seq({e})
  OBVIOUS
<1>2. QED
  BY <1>1, Zenon DEF IsSeq

\* Whatever the request, the response is one.
LEMMA HandleIs ==
  ASSUME NEW req, IsSeq(req.body)
  PROVE  Response(HandleRequest(req))
<1>1. ASSUME NEW code \in {404, 500}, NEW text PROVE Response(Plain(code, text))
  <2> DEFINE body == <<Byte(text)>>
             none == <<>>
  <2>1. IsSeq(body) /\ IsSeq(none)
    BY ShortIsSeq
  <2>2. Plain(code, text) = [status |-> code, headers |-> none, body |-> body]
    BY DEF Plain
  <2> HIDE DEF body, none
  <2>3. QED
    BY <2>1, <2>2 DEF Response
<1>2. Response(NotFound) /\ Response(InternalServerError)
  <2> DEFINE no == "Not Found"
             error == "Internal Server Error"
  <2>1. NotFound = Plain(404, no) /\ InternalServerError = Plain(500, error)
    BY DEF NotFound, InternalServerError
  <2> HIDE DEF no, error
  <2>2. Response(Plain(404, no)) /\ Response(Plain(500, error))
    BY <1>1
  <2>3. QED
    BY <2>1, <2>2
<1>3. ASSUME NEW route, NEW method, NEW params, NEW accept
      PROVE  Response(Echo(route, method, params, accept, req.body))
  <2> DEFINE shows == Mocks[route].shows
             headers == <<Header("route", "", route)>>
             first == <<[kind   |-> "echo",
                         params |-> params,
                         method |-> IF "method" \in shows THEN method ELSE "",
                         accept |-> IF "accept" \in shows THEN accept ELSE {}]>>
             body == first \o req.body
  <2>1. IsSeq(headers) /\ IsSeq(first)
    BY ShortIsSeq
  <2> HIDE DEF headers, first
  <2>2. IsSeq(body)
    BY <2>1, ConcatIsSeq
  <2>3. Echo(route, method, params, accept, req.body) = [status |-> 201, headers |-> headers, body |-> body]
    BY DEF Echo, headers, first
  <2> HIDE DEF body
  <2>4. QED
    BY <2>1, <2>2, <2>3 DEF Response
<1> DEFINE i == RouteMatch(Routes, req.method, req.path)
           e == Echo(i, MethodStr(req.method), ParamsObject(Params(Routes[i], req.path)),
                     HeadersGet(req.headers, "accept"), req.body)
<1>4. HandleRequest(req) = IF i = 0 THEN NotFound ELSE IF Mocks[i].throws THEN InternalServerError ELSE e
  BY DEF HandleRequest
<1>5. Response(e)
  BY <1>3
<1> HIDE DEF i, e
<1>6. HandleRequest(req) \in {NotFound, InternalServerError, e}
  BY <1>4
<1>7. QED
  BY <1>2, <1>5, <1>6

\* What is sent for a response is a sequence.
LEMMA SerializeIs ==
  ASSUME NEW resp, Response(resp), NEW alive
  PROVE  IsSeq(Serialize(resp, alive))
<1> DEFINE first == <<Status(resp.status)>>
           headers == resp.headers
           b == resp.body
           x == LengthIs(Len(resp.body))
           y == SaysConnection(alive)
           last == <<x, y>>
           c == <<Crlf>>
           lines == first \o headers \o last
           e == Ended(lines)
<1>1. Serialize(resp, alive) = e \o c \o b
  BY DEF Serialize
<1>2. IsSeq(first) /\ IsSeq(c) /\ IsSeq(headers) /\ IsSeq(b)
  BY ShortIsSeq DEF Response
<1>3. IsSeq(last)
  <2> HIDE DEF x, y
  <2>1. last \in Seq({x, y})
    OBVIOUS
  <2> HIDE DEF last
  <2>2. QED
    BY <2>1 DEF IsSeq
<1> HIDE DEF first, headers, last, c, b
<1>4. IsSeq(lines)
  BY <1>2, <1>3, ConcatIsSeq
<1> HIDE DEF lines
<1>5. IsSeq(e)
  <2>1. PICK U : lines \in Seq(U)
    BY <1>4 DEF IsSeq
  <2> DEFINE V == U \union {Crlf}
  <2>2. lines \in Seq(V) /\ Crlf \in V
    BY <2>1, SeqMonotonic
  <2> HIDE DEF V
  <2>3. e \in Seq(V)
    BY <2>2, EndedIs
  <2>4. QED
    BY <2>3 DEF IsSeq
<1> HIDE DEF e
<1>6. QED
  BY <1>1, <1>2, <1>5, ConcatIsSeq

-----------------------------------------------------------------------------
(* The connection.                                                         *)

\* The requests of a that are behind the first t, as they were sent.
Behind(a, t) == [i \in 1 .. Len(a) - t |-> Wire(a[t + i])]

\* The first of them, and one more at the end.
LEMMA BehindAre ==
  ASSUME NEW a \in Seq(Request), NEW t \in 0 .. Len(a)
  PROVE  /\ FlattenSeq(Behind(a, t)) \in Seq(Token)
         /\ t = Len(a) => FlattenSeq(Behind(a, t)) = <<>>
         /\ t < Len(a) =>
               FlattenSeq(Behind(a, t)) = Wire(a[t + 1]) \o FlattenSeq(Behind(a, t + 1))
         /\ \A r \in Request :
               FlattenSeq(Behind(Append(a, r), t)) = FlattenSeq(Behind(a, t)) \o Wire(r)
<1> DEFINE n == Len(a) - t
           s == Behind(a, t)
<1>1. n \in Nat /\ Len(a) \in Nat
  OBVIOUS
<1>2. ASSUME NEW u \in 0 .. Len(a)
      PROVE  /\ Behind(a, u) \in Seq(Seq(Token)) /\ Len(Behind(a, u)) = Len(a) - u
             /\ \A i \in 1 .. Len(a) - u : Behind(a, u)[i] = Wire(a[u + i])
  <2> DEFINE z == Behind(a, u)
             m == Len(a) - u
  <2>1. m \in Nat
    OBVIOUS
  <2>2. z = [i \in 1 .. m |-> Wire(a[u + i])]
    BY DEF Behind
  <2>3. \A i \in 1 .. m : a[u + i] \in Request
    OBVIOUS
  <2>4. \A i \in 1 .. m : Wire(a[u + i]) \in Seq(Token)
    BY <2>3, WireIs
  <2> HIDE DEF z, m
  <2>5. z \in [1 .. m -> Seq(Token)]
    BY <2>2, <2>4
  <2>6. z \in Seq(Seq(Token)) /\ Len(z) = m
    BY <2>1, <2>5
  <2>7. QED
    BY <2>2, <2>6 DEF z, m
<1>3. s \in Seq(Seq(Token)) /\ Len(s) = n /\ \A i \in 1 .. n : s[i] = Wire(a[t + i])
  BY <1>2
<1> HIDE DEF s
<1>4. FlattenSeq(s) \in Seq(Token)
  <2>1. PICK f : FlattenSeq(s) = f[Len(s)] /\ \A i \in 0 .. Len(s) : f[i] \in Seq(Token)
    BY <1>3, FlattenJoins
  <2>2. Len(s) \in 0 .. Len(s)
    BY <1>3
  <2>3. QED
    BY <2>1, <2>2
<1>5. ASSUME t = Len(a) PROVE FlattenSeq(s) = <<>>
  <2>1. s = <<>>
    BY <1>1, <1>3, <1>5, EmptySeq
  <2>2. QED
    BY <2>1, FlattenEmpty
<1>6. ASSUME t < Len(a) PROVE FlattenSeq(s) = Wire(a[t + 1]) \o FlattenSeq(Behind(a, t + 1))
  <2> DEFINE z == Behind(a, t + 1)
  <2>1. s # <<>> /\ n \in Nat \ {0} /\ t + 1 \in 0 .. Len(a)
    BY <1>1, <1>3, <1>6, EmptySeq
  <2>2. FlattenSeq(s) = s[1] \o FlattenSeq(Tail(s))
    BY <1>3, <2>1, FlattenFirst
  <2>3. s[1] = Wire(a[t + 1])
    BY <1>3, <2>1
  <2>4. /\ Tail(s) \in Seq(Seq(Token)) /\ Len(Tail(s)) = n - 1
        /\ \A i \in 1 .. n - 1 : Tail(s)[i] = s[i + 1]
    BY <1>3, <2>1, HeadTailProperties
  <2>5. /\ z \in Seq(Seq(Token)) /\ Len(z) = n - 1
        /\ \A i \in 1 .. n - 1 : z[i] = Wire(a[(t + 1) + i])
    <3>1. Len(a) - (t + 1) = n - 1
      BY <1>1
    <3>2. QED
      BY <1>2, <2>1, <3>1
  <2> HIDE DEF z
  <2>6. ASSUME NEW i \in 1 .. n - 1 PROVE Tail(s)[i] = z[i]
    <3>1. i + 1 \in 1 .. n /\ t + (i + 1) = (t + 1) + i
      BY <1>1
    <3>2. s[i + 1] = Wire(a[t + (i + 1)])
      BY <1>3, <3>1
    <3>3. z[i] = Wire(a[t + (i + 1)])
      BY <2>5, <3>1
    <3>4. QED
      BY <2>4, <3>2, <3>3
  <2> HIDE DEF n
  <2>7. Tail(s) = z
    <3> DEFINE v == Tail(s)
    <3>1. v \in Seq(Seq(Token)) /\ Len(v) = Len(z) /\ \A i \in 1 .. Len(v) : v[i] = z[i]
      BY <2>4, <2>5, <2>6
    <3> HIDE DEF v
    <3>2. v = z
      BY <2>5, <3>1, SeqEqual
    <3>3. QED
      BY <3>2 DEF v
  <2>8. QED
    BY <2>2, <2>3, <2>7 DEF z
<1>7. ASSUME NEW r \in Request
      PROVE  FlattenSeq(Behind(Append(a, r), t)) = FlattenSeq(s) \o Wire(r)
  <2> DEFINE x == Append(a, r)
             w == Wire(r)
             z == Behind(x, t)
             y == Append(s, w)
  <2>1. w \in Seq(Token)
    BY WireIs
  <2>2. Len(x) = Len(a) + 1 /\ x[Len(a) + 1] = r /\ \A i \in 1 .. Len(a) : x[i] = a[i]
    OBVIOUS
  <2>3. z = [i \in 1 .. n + 1 |-> Wire(x[t + i])]
    <3>1. Len(x) - t = n + 1
      BY <1>1, <2>2
    <3> HIDE DEF x, n
    <3>2. QED
      BY <3>1 DEF Behind
  <2> HIDE DEF x, z, w
  <2>4. y \in Seq(Seq(Token)) /\ Len(y) = n + 1 /\ y[n + 1] = w /\ \A i \in 1 .. n : y[i] = s[i]
    <3> HIDE DEF n
    <3>1. QED
      BY <1>3, <2>1, AppendProperties
  <2>5. ASSUME NEW i \in 1 .. n + 1 PROVE y[i] = Wire(x[t + i])
    <3>1. CASE i = n + 1
      <4>1. t + i = Len(a) + 1
        BY <1>1, <3>1
      <4>2. QED
        BY <2>2, <2>4, <3>1, <4>1 DEF w
    <3>2. CASE i # n + 1
      <4>1. i \in 1 .. n /\ t + i \in 1 .. Len(a)
        BY <1>1, <3>2
      <4>2. QED
        BY <1>3, <2>2, <2>4, <4>1
    <3>3. QED
      BY <3>1, <3>2
  <2>6. y = [i \in 1 .. n + 1 |-> y[i]]
    <3> HIDE DEF y, n
    <3>1. QED
      BY <2>4, LenProperties
  <2> HIDE DEF y, n
  <2>7. y = z
    BY <2>3, <2>5, <2>6
  <2>8. FlattenSeq(y) = FlattenSeq(s) \o w
    BY <1>3, <2>1, FlattenAppend DEF y
  <2>9. QED
    BY <2>7, <2>8 DEF x, z, w
<1>8. QED
  BY <1>4, <1>5, <1>6, <1>7 DEF s

\* The inductive invariant: the input, aligned, in buffers, and a response.
IInv ==
    /\ TypeOK
    /\ InputAligned
    /\ net \in Seq(Token)
    /\ Buffer(rbuf) /\ rbuf.data \in Seq(Token)
    /\ Buffer(wbuf)
    /\ Response(deferred)

\* What InputAligned says, by the requests behind those taken.
LEMMA AlignedIs == InputAligned <=> (state # "closed" => rbuf.data \o net = FlattenSeq(Behind(asked, taken)))
  BY DEF InputAligned, Behind

\* A buffer without memory is one, and empty.
LEMMA NoBufIs == Buffer(NoBuf) /\ NoBuf.data = <<>> /\ NoBuf.data \in Seq(Token)
<1>1. IsSeq(<<>>)
  BY ShortIsSeq
<1>2. NoBuf.data = <<>> /\ NoBuf.cap = 0 /\ NoBuf = [data |-> NoBuf.data, cap |-> NoBuf.cap]
  BY DEF NoBuf
<1>3. QED
  BY <1>1, <1>2, EmptySeq DEF Buffer

\* A connection just accepted satisfies the invariant.
LEMMA InitInv == Init => IInv
<1> SUFFICES ASSUME Init PROVE IInv
  OBVIOUS
<1>1. /\ asked = <<>> /\ net = <<>> /\ hung = FALSE /\ state = "reading" /\ rbuf = NoBuf /\ wbuf = NoBuf
      /\ woff = 0 /\ keep = FALSE /\ deferred = NotFound /\ taken = 0
  BY DEF Init
<1>2. asked \in Seq(Request) /\ Len(asked) = 0 /\ net \in Seq(Token)
  BY <1>1, EmptySeq
<1>3. Response(deferred)
  <2>1. IsSeq(<<>>) /\ IsSeq(<<Byte("Not Found")>>)
    BY ShortIsSeq
  <2>2. /\ deferred.status = 404 /\ deferred.headers = <<>>
        /\ deferred.body = <<Byte("Not Found")>>
    BY <1>1 DEF NotFound, Plain
  <2>3. QED
    BY <2>1, <2>2 DEF Response
<1>4. rbuf.data = <<>> /\ wbuf.data = <<>> /\ Buffer(rbuf) /\ Buffer(wbuf) /\ rbuf.data \in Seq(Token)
  BY <1>1, NoBufIs
<1>5. TypeOK
  <2>1. Len(wbuf.data) = 0
    BY <1>4, EmptySeq
  <2>2. rbuf.cap \in Nat /\ wbuf.cap \in Nat
    BY <1>4 DEF Buffer
  <2>3. deferred.status \in {201, 404, 500}
    BY <1>3 DEF Response
  <2>4. hung \in BOOLEAN /\ keep \in BOOLEAN
    BY <1>1
  <2>5. woff \in 0 .. Len(wbuf.data) /\ taken \in 0 .. Len(asked)
    BY <1>1, <1>2, <2>1
  <2>6. QED
    BY <1>1, <1>2, <2>2, <2>3, <2>4, <2>5 DEF TypeOK
<1>6. InputAligned
  <2>1. 0 \in 0 .. Len(asked) /\ 0 = Len(asked)
    BY <1>2
  <2>2. FlattenSeq(Behind(asked, 0)) = <<>>
    BY <1>2, <2>1, BehindAre
  <2>3. rbuf.data \o net = <<>>
    BY <1>1, <1>2, <1>4, ConcatEmptySeq
  <2>4. QED
    BY <1>1, <2>2, <2>3, AlignedIs
<1>7. QED
  BY <1>2, <1>3, <1>4, <1>5, <1>6 DEF IInv

\* The state after a request was looked for in `in`, with `b` to be written.
Processed(b) ==
    /\ state' \in {"reading", "writing", "pending", "closed"}
    /\ Buffer(rbuf') /\ rbuf'.data \in Seq(Token)
    /\ Buffer(wbuf')
    /\ (state' = "closed" /\ woff' = 0) \/ Len(b.data) <= Len(wbuf'.data)
    /\ keep' \in BOOLEAN
    /\ Response(deferred')
    /\ taken' \in 0 .. Len(asked)
    /\ state' # "closed" => rbuf'.data \o net' = FlattenSeq(Behind(asked, taken'))

\* The response goes behind what the buffer holds.
LEMMA RespondIs ==
  ASSUME NEW b, Buffer(b), NEW resp, Response(resp), NEW alive, Respond(b, resp, alive)
  PROVE  /\ state' = "writing" /\ Buffer(wbuf') /\ Len(b.data) <= Len(wbuf'.data)
<1> DEFINE s == Serialize(resp, alive)
<1>1. IsSeq(s)
  BY SerializeIs
<1>2. wbuf' = BufAppend(b, s) /\ state' = "writing"
  BY DEF Respond
<1> HIDE DEF s
<1>3. Buffer(wbuf') /\ wbuf'.data = b.data \o s
  BY <1>1, <1>2, BufAppendIs
<1>4. Len(b.data \o s) = Len(b.data) + Len(s) /\ Len(b.data) \in Nat /\ Len(s) \in Nat
  BY <1>1, ConcatIsSeq DEF Buffer
<1>5. QED
  BY <1>2, <1>3, <1>4

\* js_http_process keeps the input aligned: it takes nothing, or the next request.
LEMMA ProcessIs ==
  ASSUME asked \in Seq(Request), taken \in 0 .. Len(asked), keep \in BOOLEAN, Response(deferred),
         NEW in, Buffer(in), in.data \in Seq(Token), NEW b, Buffer(b), net' \in Seq(Token),
         in.data \o net' = FlattenSeq(Behind(asked, taken)),
         Process(in, b)
  PROVE  Processed(b)
<1> DEFINE req == Parse(in.data)
           data == in.data
<1>1. Len(b.data) \in Nat
  BY LenProperties DEF Buffer, IsSeq
<1>2. CASE req.rc = -1 /\ Close
  <2>1. state' = "closed" /\ rbuf' = NoBuf /\ wbuf' = NoBuf /\ woff' = 0 /\ keep' = keep
        /\ deferred' = deferred /\ taken' = taken
    BY <1>2 DEF Close
  <2>2. QED
    BY <2>1, NoBufIs DEF Processed
<1>3. CASE /\ req.rc = 0
           /\ state' = "reading"
           /\ rbuf' = in
           /\ wbuf' = b
           /\ UNCHANGED <<keep, deferred, taken>>
  <2>1. keep' = keep /\ deferred' = deferred /\ taken' = taken /\ Len(b.data) <= Len(wbuf'.data)
    BY <1>1, <1>3
  <2> HIDE DEF req
  <2>2. QED
    BY <1>3, <2>1 DEF Processed
<1>4. CASE /\ req.rc = 1
           /\ rbuf' = BufConsume(in, req.size)
           /\ keep' = KeepAlive(req.headers)
           /\ taken' = taken + 1
           /\ \/ /\ Respond(b, HandleRequest(req), keep')
                 /\ UNCHANGED deferred
              \/ /\ state' = "pending"
                 /\ deferred' = HandleRequest(req)
                 /\ wbuf' = b
  <2> DEFINE r == asked[taken + 1]
             rest == FlattenSeq(Behind(asked, taken + 1))
             w == Wire(r)
  <2>1. taken # Len(asked)
    <3> SUFFICES ASSUME taken = Len(asked) PROVE FALSE
      OBVIOUS
    <3>1. data \o net' = <<>>
      BY BehindAre
    <3>2. data = <<>>
      BY <3>1, ConcatEqualIffEmpty
    <3>3. req.rc = 0
      BY <3>2, ParseNothing
    <3> HIDE DEF req
    <3>4. QED
      BY <1>4, <3>3
  <2>2. taken + 1 \in 0 .. Len(asked) /\ taken < Len(asked) /\ r \in Request
    <3>1. taken \in Nat /\ Len(asked) \in Nat /\ taken < Len(asked)
      BY <2>1, LenProperties
    <3>2. taken + 1 \in 1 .. Len(asked)
      BY <3>1
    <3>3. QED
      BY <3>1, <3>2, ElementOfSeq
  <2>3. data \o net' = w \o rest /\ rest \in Seq(Token) /\ w \in Seq(Token)
    <3>1. FlattenSeq(Behind(asked, taken)) = w \o rest
      BY <2>2, BehindAre
    <3>2. rest \in Seq(Token)
      BY <2>2, BehindAre
    <3>3. w \in Seq(Token)
      BY <2>2, WireIs
    <3>4. QED
      BY <3>1, <3>2, <3>3
  <2>4. req.size = Len(w) /\ Len(w) <= Len(data) /\ IsSeq(req.body)
    <3> HIDE DEF rest
    <3>1. req.rc = 1
      BY <1>4
    <3>2. QED
      BY <2>2, <2>3, <3>1, ParseIs
  <2>5. Response(HandleRequest(req))
    <3> HIDE DEF req
    <3>1. QED
      BY <2>4, HandleIs
  <2> HIDE DEF req, w, rest, r
  <2>6. Len(w) \in Nat /\ Len(data) \in Nat
    BY <2>3, LenProperties
  <2>7. Buffer(rbuf') /\ rbuf'.data = SubSeq(data, Len(w) + 1, Len(data))
    <3>1. rbuf' = BufConsume(in, Len(w))
      BY <1>4, <2>4
    <3> HIDE DEF data
    <3>2. /\ Buffer(BufConsume(in, Len(w)))
          /\ BufConsume(in, Len(w)).data = SubSeq(in.data, Len(w) + 1, Len(in.data))
      BY <2>6, BufConsumeIs
    <3>3. QED
      BY <3>1, <3>2 DEF data
  <2>8. rbuf'.data \o net' = rest
    BY <2>3, <2>4, <2>7, BehindIs
  <2>9. rbuf'.data \in Seq(Token)
    <3>1. Len(w) + 1 \in Int /\ Len(data) \in Int /\ \A i \in Len(w) + 1 .. Len(data) : data[i] \in Token
      BY <2>6, ElementOfSeq
    <3> HIDE DEF data
    <3>2. SubSeq(data, Len(w) + 1, Len(data)) \in Seq(Token)
      BY <3>1, SubSeqProperties
    <3>3. QED
      BY <2>7, <3>2
  <2>10. keep' \in BOOLEAN
    <3>1. ASSUME NEW headers PROVE KeepAlive(headers) \in BOOLEAN
      BY Zenon DEF KeepAlive
    <3>2. QED
      BY <1>4, <3>1, Zenon
  <2>11. taken' = taken + 1 /\ taken' \in 0 .. Len(asked)
    BY <1>4, <2>2
  <2>12. rbuf'.data \o net' = FlattenSeq(Behind(asked, taken'))
    BY <2>8, <2>11 DEF rest
  <2>13. CASE Respond(b, HandleRequest(req), keep') /\ UNCHANGED deferred
    <3>1. state' = "writing" /\ Buffer(wbuf') /\ Len(b.data) <= Len(wbuf'.data)
      BY <2>5, <2>13, RespondIs
    <3>2. Response(deferred')
      BY <2>13
    <3>3. QED
      BY <2>7, <2>9, <2>10, <2>11, <2>12, <3>1, <3>2 DEF Processed
  <2>14. CASE state' = "pending" /\ deferred' = HandleRequest(req) /\ wbuf' = b
    <3>1. Buffer(wbuf') /\ Len(b.data) <= Len(wbuf'.data) /\ Response(deferred')
      BY <1>1, <2>5, <2>14
    <3>2. QED
      BY <2>7, <2>9, <2>10, <2>11, <2>12, <2>14, <3>1 DEF Processed
  <2>15. QED
    BY <1>4, <2>13, <2>14
<1>5. QED
  <2>1. \/ req.rc = -1 /\ Close
        \/ /\ req.rc = 0
           /\ state' = "reading"
           /\ rbuf' = in
           /\ wbuf' = b
           /\ UNCHANGED <<keep, deferred, taken>>
        \/ /\ req.rc = 1
           /\ rbuf' = BufConsume(in, req.size)
           /\ keep' = KeepAlive(req.headers)
           /\ taken' = taken + 1
           /\ \/ /\ Respond(b, HandleRequest(req), keep')
                 /\ UNCHANGED deferred
              \/ /\ state' = "pending"
                 /\ deferred' = HandleRequest(req)
                 /\ wbuf' = b
    BY DEF Process
  <2>2. QED
    BY <1>2, <1>3, <1>4, <2>1

\* What the invariant gives, and what is enough for it in the next state.
LEMMA InvGives ==
  ASSUME IInv
  PROVE  /\ asked \in Seq(Request) /\ hung \in BOOLEAN
         /\ state \in {"reading", "writing", "pending", "closed"}
         /\ woff \in 0 .. Len(wbuf.data) /\ Len(wbuf.data) \in Nat
         /\ keep \in BOOLEAN
         /\ taken \in 0 .. Len(asked)
         /\ net \in Seq(Token)
         /\ Buffer(rbuf) /\ rbuf.data \in Seq(Token)
         /\ Buffer(wbuf)
         /\ Response(deferred)
         /\ state # "closed" => rbuf.data \o net = FlattenSeq(Behind(asked, taken))
<1>1. Len(wbuf.data) \in Nat
  BY LenProperties DEF IInv, Buffer, IsSeq
<1>2. state # "closed" => rbuf.data \o net = FlattenSeq(Behind(asked, taken))
  BY AlignedIs DEF IInv
<1>3. QED
  BY <1>1, <1>2 DEF IInv, TypeOK

\* The invariant holds in the next state if each of these does.
LEMMA InvFrom ==
  ASSUME asked' \in Seq(Request), hung' \in BOOLEAN,
         state' \in {"reading", "writing", "pending", "closed"},
         woff' \in 0 .. Len(wbuf'.data),
         keep' \in BOOLEAN,
         taken' \in 0 .. Len(asked'),
         net' \in Seq(Token),
         Buffer(rbuf'), rbuf'.data \in Seq(Token),
         Buffer(wbuf'),
         Response(deferred'),
         state' # "closed" => rbuf'.data \o net' = FlattenSeq(Behind(asked', taken'))
  PROVE  IInv'
<1>1. rbuf'.cap \in Nat /\ wbuf'.cap \in Nat
  BY DEF Buffer
<1>2. deferred'.status \in {201, 404, 500}
  BY DEF Response
<1>3. TypeOK'
  BY <1>1, <1>2 DEF TypeOK
<1>4. InputAligned'
  BY DEF InputAligned, Behind
<1>5. QED
  BY <1>3, <1>4 DEF IInv

\* What a client sends comes behind what it sent before.
LEMMA AskInv ==
  ASSUME IInv, NEW r \in Request, Ask(r)
  PROVE  IInv'
<1> DEFINE w == Wire(r)
           old == FlattenSeq(Behind(asked, taken))
<1>1. /\ asked' = Append(asked, r) /\ net' = net \o w
      /\ hung' = hung /\ state' = state /\ rbuf' = rbuf /\ wbuf' = wbuf /\ woff' = woff /\ keep' = keep
      /\ deferred' = deferred /\ taken' = taken
  BY DEF Ask
<1>2. /\ asked \in Seq(Request) /\ taken \in 0 .. Len(asked)
      /\ net \in Seq(Token) /\ rbuf.data \in Seq(Token)
      /\ state # "closed" => rbuf.data \o net = old
  BY InvGives
<1>3. w \in Seq(Token)
  BY WireIs
<1>4. net' \in Seq(Token)
  <2> HIDE DEF w
  <2>1. QED
    BY <1>1, <1>2, <1>3, ConcatProperties
<1>5. asked' \in Seq(Request) /\ Len(asked') = Len(asked) + 1
  BY <1>1, <1>2, AppendProperties
<1>6. taken' \in 0 .. Len(asked')
  BY <1>1, <1>2, <1>5, LenProperties
<1>7. ASSUME state' # "closed" PROVE rbuf'.data \o net' = FlattenSeq(Behind(asked', taken'))
  <2>1. FlattenSeq(Behind(asked', taken')) = old \o w
    BY <1>1, <1>2, BehindAre
  <2> HIDE DEF w, old
  <2> DEFINE data == rbuf.data
  <2>2. (data \o net) \o w = data \o (net \o w)
    <3>1. data \in Seq(Token)
      BY <1>2
    <3> HIDE DEF data
    <3>2. AreSeqs(Token, data, net, w)
      BY <1>2, <1>3, <3>1 DEF AreSeqs
    <3>3. QED
      BY <3>2, Associates
  <2>3. data \o net = old
    BY <1>1, <1>2, <1>7
  <2>4. QED
    BY <1>1, <2>1, <2>2, <2>3
<1> HIDE DEF w, old
<1>8. QED
  <2>1. /\ hung' \in BOOLEAN /\ state' \in {"reading", "writing", "pending", "closed"}
        /\ woff' \in 0 .. Len(wbuf'.data) /\ keep' \in BOOLEAN
        /\ Buffer(rbuf') /\ rbuf'.data \in Seq(Token) /\ Buffer(wbuf') /\ Response(deferred')
    BY <1>1, InvGives
  <2>2. QED
    BY <1>4, <1>5, <1>6, <1>7, <2>1, InvFrom

\* A client that leaves changes nothing of it.
LEMMA HangUpInv ==
  ASSUME IInv, HangUp
  PROVE  IInv'
<1>1. /\ hung' = TRUE /\ asked' = asked /\ net' = net /\ state' = state /\ rbuf' = rbuf /\ wbuf' = wbuf
      /\ woff' = woff /\ keep' = keep /\ deferred' = deferred /\ taken' = taken
  BY DEF HangUp
<1>2. /\ asked' \in Seq(Request) /\ hung' \in BOOLEAN
      /\ state' \in {"reading", "writing", "pending", "closed"}
      /\ woff' \in 0 .. Len(wbuf'.data) /\ keep' \in BOOLEAN /\ taken' \in 0 .. Len(asked')
      /\ net' \in Seq(Token) /\ Buffer(rbuf') /\ rbuf'.data \in Seq(Token) /\ Buffer(wbuf')
      /\ Response(deferred')
      /\ state' # "closed" => rbuf'.data \o net' = FlattenSeq(Behind(asked', taken'))
  BY <1>1, InvGives
<1>3. QED
  BY <1>2, InvFrom

\* A closed connection has nothing left that could be wrong.
LEMMA CloseInv ==
  ASSUME IInv, Close, asked' = asked, hung' = hung, net' \in Seq(Token)
  PROVE  IInv'
<1>1. /\ state' = "closed" /\ rbuf' = NoBuf /\ wbuf' = NoBuf /\ woff' = 0
      /\ keep' = keep /\ deferred' = deferred /\ taken' = taken
  BY DEF Close
<1>2. Buffer(rbuf') /\ Buffer(wbuf') /\ rbuf'.data \in Seq(Token) /\ wbuf'.data = <<>>
  BY <1>1, NoBufIs
<1>3. woff' \in 0 .. Len(wbuf'.data)
  <2>1. Len(wbuf'.data) = 0
    BY <1>2, EmptySeq
  <2>2. QED
    BY <1>1, <2>1
<1>4. /\ asked' \in Seq(Request) /\ hung' \in BOOLEAN /\ keep' \in BOOLEAN
      /\ taken' \in 0 .. Len(asked') /\ Response(deferred')
  BY <1>1, InvGives
<1>5. QED
  BY <1>1, <1>2, <1>3, <1>4, InvFrom

\* After js_http_process the invariant holds.
LEMMA ProcessInv ==
  ASSUME IInv, asked' = asked, hung' = hung, net' \in Seq(Token),
         NEW in, Buffer(in), in.data \in Seq(Token), NEW b, Buffer(b),
         in.data \o net' = FlattenSeq(Behind(asked, taken)),
         Process(in, b),
         woff' \in 0 .. Len(b.data)
  PROVE  IInv'
<1>1. Processed(b)
  <2>1. asked \in Seq(Request) /\ taken \in 0 .. Len(asked) /\ keep \in BOOLEAN /\ Response(deferred)
    BY InvGives
  <2>2. QED
    BY <2>1, ProcessIs
<1>2. Len(b.data) \in Nat /\ Len(wbuf'.data) \in Nat
  BY <1>1, LenProperties DEF Processed, Buffer, IsSeq
<1>3. woff' \in 0 .. Len(wbuf'.data)
  <2>1. woff' = 0 \/ Len(b.data) <= Len(wbuf'.data)
    BY <1>1 DEF Processed
  <2>2. QED
    BY <1>2, <2>1
<1>4. asked' \in Seq(Request) /\ hung' \in BOOLEAN
  BY InvGives
<1>5. /\ state' \in {"reading", "writing", "pending", "closed"}
      /\ Buffer(rbuf') /\ rbuf'.data \in Seq(Token) /\ Buffer(wbuf') /\ keep' \in BOOLEAN
      /\ Response(deferred') /\ taken' \in 0 .. Len(asked')
      /\ state' # "closed" => rbuf'.data \o net' = FlattenSeq(Behind(asked', taken'))
  BY <1>1 DEF Processed
<1>6. QED
  BY <1>3, <1>4, <1>5, InvFrom

\* What one read takes from the socket goes to the end of rbuf, and the input is as it was.
LEMMA ReadIs ==
  ASSUME net \in Seq(Token), Buffer(rbuf), rbuf.data \in Seq(Token),
         rbuf.data \o net = FlattenSeq(Behind(asked, taken)),
         NEW n \in 1 .. Len(net), net' = SubSeq(net, n + 1, Len(net))
  PROVE  LET in == BufAppend(rbuf, SubSeq(net, 1, n))
         IN /\ Buffer(in) /\ in.data \in Seq(Token) /\ net' \in Seq(Token)
            /\ in.data \o net' = FlattenSeq(Behind(asked, taken))
<1> DEFINE got == SubSeq(net, 1, n)
           rest == SubSeq(net, n + 1, Len(net))
           in == BufAppend(rbuf, got)
           data == rbuf.data
<1>1. Len(net) \in Nat
  BY LenProperties
<1>2. got \in Seq(Token)
  <2>1. 1 \in Int /\ n \in Int /\ \A i \in 1 .. n : net[i] \in Token
    BY <1>1, ElementOfSeq
  <2>2. QED
    BY <2>1, SubSeqProperties
<1>3. rest \in Seq(Token)
  <2>1. n + 1 \in Int /\ Len(net) \in Int /\ \A i \in n + 1 .. Len(net) : net[i] \in Token
    BY <1>1, ElementOfSeq
  <2>2. QED
    BY <2>1, SubSeqProperties
<1>4. got \o rest = net
  <2>1. 1 \in 1 .. Len(net) + 1 /\ n \in 1 - 1 .. Len(net) /\ Len(net) \in n .. Len(net)
    BY <1>1
  <2>2. got \o rest = SubSeq(net, 1, Len(net))
    BY <2>1, ConcatAdjacentSubSeq
  <2>3. QED
    BY <2>2, SubSeqFull
<1>5. data \in Seq(Token) /\ data \o net = FlattenSeq(Behind(asked, taken))
  OBVIOUS
<1>6. net' = rest
  OBVIOUS
<1> HIDE DEF got, rest
<1>7. Buffer(in) /\ in.data = data \o got
  <2>1. IsSeq(got)
    BY <1>2 DEF IsSeq
  <2>2. QED
    BY <2>1, BufAppendIs
<1> HIDE DEF in, data
<1>8. in.data \in Seq(Token)
  BY <1>2, <1>5, <1>7, ConcatProperties
<1>9. in.data \o net' = FlattenSeq(Behind(asked, taken))
  <2>1. (data \o got) \o rest = data \o (got \o rest)
    <3>1. AreSeqs(Token, data, got, rest)
      BY <1>2, <1>3, <1>5 DEF AreSeqs
    <3>2. QED
      BY <3>1, Associates
  <2>2. QED
    BY <1>4, <1>5, <1>6, <1>7, <2>1
<1>10. QED
  BY <1>3, <1>6, <1>7, <1>8, <1>9 DEF in, got

\* js_http_on_read: what was read goes from the socket to the end of rbuf.
LEMMA OnReadInv ==
  ASSUME IInv, OnRead
  PROVE  IInv'
<1>1. asked' = asked /\ hung' = hung /\ state = "reading"
  BY DEF OnRead
<1>2. /\ net \in Seq(Token) /\ Buffer(rbuf) /\ rbuf.data \in Seq(Token) /\ Buffer(wbuf)
      /\ woff \in 0 .. Len(wbuf.data)
      /\ rbuf.data \o net = FlattenSeq(Behind(asked, taken))
  BY <1>1, InvGives
<1>3. ASSUME NEW n \in 1 .. Len(net),
             net' = SubSeq(net, n + 1, Len(net)),
             Process(BufAppend(rbuf, SubSeq(net, 1, n)), wbuf),
             woff' = woff
      PROVE  IInv'
  <2> DEFINE in == BufAppend(rbuf, SubSeq(net, 1, n))
  <2>1. /\ Buffer(in) /\ in.data \in Seq(Token) /\ net' \in Seq(Token)
        /\ in.data \o net' = FlattenSeq(Behind(asked, taken))
    BY <1>2, <1>3, ReadIs
  <2>2. Process(in, wbuf) /\ woff' \in 0 .. Len(wbuf.data)
    BY <1>2, <1>3
  <2> HIDE DEF in
  <2>3. QED
    BY <1>1, <1>2, <2>1, <2>2, ProcessInv
<1>4. ASSUME Close, net' = net PROVE IInv'
  BY <1>1, <1>2, <1>4, CloseInv
<1>5. QED
  BY <1>3, <1>4 DEF OnRead

\* js_pending_finish: the response goes to wbuf, the input stays as it is.
LEMMA PendingFinishInv ==
  ASSUME IInv, PendingFinish
  PROVE  IInv'
<1>1. /\ state = "pending" /\ Respond(wbuf, deferred, keep) /\ deferred' = NotFound
      /\ asked' = asked /\ net' = net /\ hung' = hung /\ rbuf' = rbuf /\ woff' = woff /\ keep' = keep
      /\ taken' = taken
  BY DEF PendingFinish
<1>2. state' = "writing" /\ Buffer(wbuf') /\ Len(wbuf.data) <= Len(wbuf'.data)
  BY <1>1, InvGives, RespondIs
<1>3. Response(deferred')
  <2>1. IsSeq(<<>>) /\ IsSeq(<<Byte("Not Found")>>)
    BY ShortIsSeq
  <2>2. /\ deferred'.status = 404 /\ deferred'.headers = <<>>
        /\ deferred'.body = <<Byte("Not Found")>>
    BY <1>1 DEF NotFound, Plain
  <2>3. QED
    BY <2>1, <2>2 DEF Response
<1>4. woff' \in 0 .. Len(wbuf'.data)
  <2>1. Len(wbuf'.data) \in Nat
    BY <1>2, LenProperties DEF Buffer, IsSeq
  <2>2. woff \in 0 .. Len(wbuf.data) /\ Len(wbuf.data) \in Nat
    BY InvGives
  <2>3. QED
    BY <1>1, <1>2, <2>1, <2>2
<1>5. /\ asked' \in Seq(Request) /\ hung' \in BOOLEAN /\ keep' \in BOOLEAN
      /\ taken' \in 0 .. Len(asked') /\ net' \in Seq(Token) /\ Buffer(rbuf') /\ rbuf'.data \in Seq(Token)
      /\ rbuf'.data \o net' = FlattenSeq(Behind(asked', taken'))
  BY <1>1, InvGives
<1>6. QED
  BY <1>2, <1>3, <1>4, <1>5, InvFrom

\* What was written to its end leaves an empty buffer.
LEMMA ClearedIs ==
  ASSUME Buffer(wbuf)
  PROVE  Buffer(Cleared(wbuf)) /\ Cleared(wbuf).data = <<>>
<1> DEFINE b == Cleared(wbuf)
<1>1. IsSeq(<<>>)
  BY ShortIsSeq
<1>2. wbuf = [data |-> wbuf.data, cap |-> wbuf.cap] /\ wbuf.cap \in Nat
  BY DEF Buffer
<1>3. b = [data |-> <<>>, cap |-> wbuf.cap]
  BY <1>2 DEF Cleared
<1> HIDE DEF b
<1>4. b.data = <<>> /\ b.cap = wbuf.cap /\ b = [data |-> b.data, cap |-> b.cap]
  BY <1>3
<1>5. Len(b.data) = 0
  BY <1>4, EmptySeq
<1>6. Buffer(b) /\ b.data = <<>>
  BY <1>1, <1>2, <1>4, <1>5 DEF Buffer
<1>7. QED
  BY <1>6 DEF b

\* js_http_on_write: a part is written, or all of it and the next request looked for.
LEMMA OnWriteInv ==
  ASSUME IInv, OnWrite
  PROVE  IInv'
<1>1. asked' = asked /\ hung' = hung /\ net' = net /\ state = "writing"
  BY DEF OnWrite
<1>2. /\ net \in Seq(Token) /\ Buffer(rbuf) /\ rbuf.data \in Seq(Token) /\ Buffer(wbuf)
      /\ woff \in 0 .. Len(wbuf.data) /\ Len(wbuf.data) \in Nat
      /\ rbuf.data \o net = FlattenSeq(Behind(asked, taken))
  BY <1>1, InvGives
<1>3. ASSUME NEW n \in 1 .. Len(wbuf.data) - woff,
             woff + n < Len(wbuf.data), woff' = woff + n,
             UNCHANGED <<state, rbuf, wbuf, keep, deferred, taken>>
      PROVE  IInv'
  <2>1. woff' \in 0 .. Len(wbuf'.data)
    BY <1>2, <1>3
  <2>2. /\ asked' \in Seq(Request) /\ hung' \in BOOLEAN
        /\ state' \in {"reading", "writing", "pending", "closed"}
        /\ keep' \in BOOLEAN /\ taken' \in 0 .. Len(asked')
        /\ net' \in Seq(Token) /\ Buffer(rbuf') /\ rbuf'.data \in Seq(Token) /\ Buffer(wbuf')
        /\ Response(deferred')
        /\ rbuf'.data \o net' = FlattenSeq(Behind(asked', taken'))
    BY <1>1, <1>2, <1>3, InvGives
  <2>3. QED
    BY <2>1, <2>2, InvFrom
<1>4. ASSUME Close PROVE IInv'
  BY <1>1, <1>2, <1>4, CloseInv
<1>5. ASSUME woff' = 0, Process(rbuf, Cleared(wbuf)) PROVE IInv'
  <2> DEFINE b == Cleared(wbuf)
  <2>1. Buffer(b) /\ b.data = <<>>
    BY <1>2, ClearedIs
  <2> HIDE DEF b
  <2>2. woff' \in 0 .. Len(b.data)
    <3>1. Len(b.data) = 0
      BY <2>1, EmptySeq
    <3>2. QED
      BY <1>5, <3>1
  <2>3. Process(rbuf, b)
    BY <1>5 DEF b
  <2>4. QED
    BY <1>1, <1>2, <2>1, <2>2, <2>3, ProcessInv
<1>6. QED
  BY <1>3, <1>4, <1>5 DEF OnWrite

\* Every step of the connection keeps the invariant.
LEMMA StepInv == IInv /\ [Next]_vars => IInv'
<1> SUFFICES ASSUME IInv, [Next]_vars PROVE IInv'
  OBVIOUS
<1>1. ASSUME NEW r \in Request, Ask(r) PROVE IInv'
  BY <1>1, AskInv
<1>2. CASE HangUp
  BY <1>2, HangUpInv
<1>3. CASE OnRead
  BY <1>3, OnReadInv
<1>4. CASE PendingFinish
  BY <1>4, PendingFinishInv
<1>5. CASE OnWrite
  BY <1>5, OnWriteInv
<1>6. CASE UNCHANGED vars
  <2>1. /\ asked' = asked /\ net' = net /\ hung' = hung /\ state' = state /\ rbuf' = rbuf /\ wbuf' = wbuf
        /\ woff' = woff /\ keep' = keep /\ deferred' = deferred /\ taken' = taken
    BY <1>6 DEF vars
  <2>2. /\ asked' \in Seq(Request) /\ hung' \in BOOLEAN
        /\ state' \in {"reading", "writing", "pending", "closed"}
        /\ woff' \in 0 .. Len(wbuf'.data) /\ keep' \in BOOLEAN /\ taken' \in 0 .. Len(asked')
        /\ net' \in Seq(Token) /\ Buffer(rbuf') /\ rbuf'.data \in Seq(Token) /\ Buffer(wbuf')
        /\ Response(deferred')
        /\ state' # "closed" => rbuf'.data \o net' = FlattenSeq(Behind(asked', taken'))
    BY <2>1, InvGives
  <2>3. QED
    BY <2>2, InvFrom
<1>7. QED
  BY <1>1, <1>2, <1>3, <1>4, <1>5, <1>6 DEF Next

\* In every state the server can reach, the invariant holds.
THEOREM HttpInvariance == Spec => []IInv
<1>1. Init => IInv
  BY InitInv
<1>2. IInv /\ [Next]_vars => IInv'
  BY StepInv
<1>3. QED
  BY <1>1, <1>2, PTL DEF Spec

\* Every variable keeps its type, and no request is parsed that was not sent.
THEOREM HttpTyped == Spec => []TypeOK
<1>1. IInv => TypeOK
  BY DEF IInv
<1>2. QED
  BY <1>1, HttpInvariance, PTL

\* Whatever requests are sent, and however TCP cuts them, each request is parsed from
\* its first byte on and taken to its last one (js_http.c:127-215).
THEOREM InputStaysAligned == Spec => []InputAligned
<1>1. IInv => InputAligned
  BY DEF IInv
<1>2. QED
  BY <1>1, HttpInvariance, PTL

\* Whatever the first capacity, the requests and the responses, js_buf_append never
\* copies behind what it has allocated (js_buf.c:9-33).
THEOREM BuffersAlwaysFit == Spec => []BuffersFit
<1>1. IInv => BuffersFit
  BY DEF IInv, Buffer, BuffersFit
<1>2. QED
  BY <1>1, HttpInvariance, PTL

-----------------------------------------------------------------------------
(* What js_http_parse_request makes of a request that is one               *)

\* The part of a sequence that agrees with another one is that one.
LEMMA PartIs ==
  ASSUME NEW U, NEW b \in Seq(U), NEW s, NEW m \in Nat,
         \A j \in 1 .. Len(b) : s[m + j] = b[j]
  PROVE  SubSeq(s, m + 1, m + Len(b)) = b
<1> DEFINE n == Len(b)
           t == SubSeq(s, m + 1, m + n)
<1>1. n \in Nat /\ \A j \in 1 .. n : b[j] \in U
  BY LenProperties, ElementOfSeq
<1>2. \A j \in 1 .. n : s[m + j] = b[j]
  OBVIOUS
<1> HIDE DEF n
<1>3. ASSUME NEW i \in m + 1 .. m + n PROVE s[i] \in U
  <2>1. i - m \in 1 .. n /\ m + (i - m) = i
    BY <1>1
  <2>2. QED
    BY <1>1, <1>2, <2>1
<1>4. /\ t \in Seq(U)
      /\ Len(t) = IF m + 1 <= m + n THEN (m + n) - (m + 1) + 1 ELSE 0
      /\ \A i \in 1 .. (m + n) - (m + 1) + 1 : t[i] = s[(m + 1) + i - 1]
  <2>1. m + 1 \in Int /\ m + n \in Int
    BY <1>1
  <2>2. QED
    BY <1>3, <2>1, SubSeqProperties
<1> HIDE DEF t
<1>5. Len(t) = n
  BY <1>1, <1>4
<1>6. ASSUME NEW i \in 1 .. n PROVE t[i] = b[i]
  <2>1. i \in 1 .. (m + n) - (m + 1) + 1 /\ (m + 1) + i - 1 = m + i
    BY <1>1
  <2>2. QED
    BY <1>2, <1>4, <2>1
<1>7. t = b
  BY <1>4, <1>5, <1>6, SeqEqual DEF n
<1>8. QED
  BY <1>7 DEF t, n

\* Two spaces in the first line end the path there.
LEMMA PathEndIs ==
  ASSUME NEW U, NEW ls \in Seq(U), Len(ls) # 0, Spaces(ls[1]) = 2
  PROVE  PathEnd(ls) = 1
<1> DEFINE spaced == {i \in DOMAIN ls : Spaces(ls[i]) > 0}
           ends == {i \in spaced : Spaces(ls[i]) > 1 \/ \E j \in spaced : j < i}
<1>1. PathEnd(ls) = IF ends = {} THEN 0 ELSE Min(ends)
  BY DEF PathEnd
<1>2. DOMAIN ls = 1 .. Len(ls) /\ 1 \in DOMAIN ls /\ Len(ls) \in Nat
  OBVIOUS
<1>3. 1 \in ends /\ \A j \in ends : j \in Nat /\ 1 <= j
  BY <1>2
<1> HIDE DEF ends
<1>4. Min(ends) = 1
  BY <1>3 DEF Min
<1>5. QED
  BY <1>1, <1>3, <1>4

\* A request that has everything a request line and a head should have.
Fit(r) == r \in Request /\ ~Unfit(r)

\* What the code makes of a request that is one.
LEMMA ParseFits ==
  ASSUME NEW r, Fit(r), NEW data \in Seq(Token), NEW more \in Seq(Token), NEW rest \in Seq(Token),
         data \o more = Wire(r) \o rest
  PROVE  /\ Parse(data).rc # -1
         /\ Parse(data).rc = 1 =>
              /\ Parse(data).method = MethodFromStr(r.method)
              /\ Parse(data).path = r.path
              /\ Parse(data).headers = HeaderLines(HeadLines(r), 1)
              /\ Parse(data).body = r.body
<1> DEFINE ls == HeadLines(r)
           n == Len(ls)
           w == Wire(r)
           b == r.body
           end == HeadEnd(data)
           lines == Lines(data, end)
           first == PathEnd(lines)
           headers == HeaderLines(lines, first)
           len == BodyLength(headers)
           needed == end + 1 + len
           body == SubSeq(data, end + 2, needed)
           method == IF Spaces(lines[1]) > 0 THEN MethodFromStr(lines[1].method) ELSE "ALL"
           path == IF first = 1 THEN lines[1].path ELSE Nonsense
           size == Total(end + 1, len)
           whole == [rc |-> 1, method |-> method, path |-> path, headers |-> headers,
                     body |-> body, size |-> size]
<1>1. /\ ls \in Seq(Token) /\ n \in Nat \ {0} /\ b \in Seq(Token) /\ r \in Request
  BY HeadLinesAre DEF Fit
<1>2. Len(w) = 2 * n + 1 + Len(b) /\ w \in Seq(Token)
  BY <1>1, WireIs
<1>3. Len(b) \in Nat /\ Len(data) \in Nat
  BY <1>1, LenProperties
<1>4. /\ end = IF 2 * n + 1 <= Len(data) THEN 2 * n ELSE 0
      /\ 2 * n + 1 <= Len(data) => Lines(data, 2 * n) = ls
      /\ \A i \in 1 .. Len(w) : i <= Len(data) => data[i] = w[i]
  BY <1>1, HeadSeen
<1>5. Parse(data) = IF end = 0 THEN [rc |-> 0]
                    ELSE IF first \in {0, Len(lines)} THEN [rc |-> -1]
                    ELSE IF Len(data) < needed THEN [rc |-> 0]
                    ELSE whole
  BY DEF Parse
<1>6. /\ ls[1] = Start(r) /\ n = Len(r.headers) + 1 /\ r.headers # <<>> /\ Len(r.headers) \in Nat \ {0}
      /\ w = Ended(ls) \o <<Crlf>> \o b
  <2>1. r.headers \in Seq(Range(r.headers) \ {Crlf})
    BY <1>1, RequestAssumption
  <2> DEFINE V == {Start(r)} \union Range(r.headers)
             h == Start(r)
             s == r.headers
  <2>2. s \in Seq(V) /\ h \in V
    BY <2>1, SeqMonotonic
  <2> HIDE DEF V, h, s
  <2>3. Len(<<h>> \o s) = Len(s) + 1 /\ (<<h>> \o s)[1] = h
    BY <2>2, PrependIs
  <2>4. s # <<>> /\ Len(s) \in Nat
    BY <2>2, LenProperties DEF s, Fit, Unfit
  <2>5. Len(s) # 0
    BY <2>2, <2>4, EmptySeq
  <2>6. ls = <<h>> \o s
    BY DEF HeadLines, h, s
  <2>7. w = Ended(ls) \o <<Crlf>> \o b
    BY DEF Wire, HeadLines
  <2> HIDE DEF ls
  <2>8. QED
    BY <2>3, <2>4, <2>5, <2>6, <2>7 DEF h, s
<1> HIDE DEF w, b
<1>7. /\ Spaces(ls[1]) = 2 /\ ls[1].method = r.method /\ ls[1].path = r.path
  <2>1. /\ Start(r).kind = "start" /\ Start(r).method = r.method /\ Start(r).path = r.path
        /\ Start(r).spaces = r.spaces /\ r.spaces = 2
    BY DEF Start, Fit, Unfit
  <2> HIDE DEF ls
  <2>2. QED
    BY <1>6, <2>1 DEF Spaces
<1> HIDE DEF ls
<1>8. PathEnd(ls) = 1
  BY <1>1, <1>7, PathEndIs
<1>9. CASE end = 0
  <2>1. Parse(data) = [rc |-> 0]
    <3> HIDE DEF end, lines, first, needed, whole
    <3>1. QED
      BY <1>5, <1>9
  <2>2. Parse(data).rc = 0
    BY <2>1
  <2>3. QED
    BY <2>2
<1>10. CASE end # 0
  <2>1. end = 2 * n /\ lines = ls /\ first = 1 /\ 2 * n + 1 <= Len(data)
    <3> HIDE DEF n, end
    <3>1. end = 2 * n /\ 2 * n + 1 <= Len(data)
      BY <1>4, <1>10
    <3>2. lines = ls
      BY <1>4, <3>1
    <3>3. QED
      BY <1>8, <3>1, <3>2
  <2>2. ~ (first \in {0, Len(lines)})
    BY <1>6, <2>1
  <2>3. len = Len(b)
    <3>1. PathEnd(ls) \notin {0, Len(ls)} => BodyLength(HeaderLines(ls, PathEnd(ls))) = Len(b)
      BY <1>1, RequestAssumption DEF HeadLines, ls, b
    <3> HIDE DEF end, lines
    <3>2. QED
      BY <1>6, <1>8, <2>1, <3>1
  <2>4. needed = Len(w)
    <3> HIDE DEF end, len, n
    <3>1. QED
      BY <1>1, <1>2, <1>3, <2>1, <2>3
  <2>5. Parse(data) = IF Len(data) < needed THEN [rc |-> 0] ELSE whole
    <3> HIDE DEF end, lines, first, needed, whole
    <3>1. QED
      BY <1>5, <1>10, <2>2
  <2>6. method = MethodFromStr(r.method) /\ path = r.path /\ headers = HeaderLines(ls, 1)
    <3> HIDE DEF lines, first
    <3>1. QED
      BY <1>7, <2>1
  <2>7. CASE Len(data) < needed
    <3>1. Parse(data) = [rc |-> 0]
      <4> HIDE DEF needed, whole
      <4>1. QED
        BY <2>5, <2>7
    <3>2. Parse(data).rc = 0
      BY <3>1
    <3>3. QED
      BY <3>2
  <2>8. CASE ~ (Len(data) < needed)
    <3>1. Parse(data) = whole
      <4> HIDE DEF needed, whole
      <4>1. QED
        BY <2>5, <2>8
    <3>2. body = b
      <4>1. body = SubSeq(data, 2 * n + 2, Len(w)) /\ Len(w) <= Len(data)
        <5> HIDE DEF end, needed, n
        <5>1. QED
          BY <1>2, <1>3, <2>1, <2>4, <2>8, <1>1
      <4>2. SubSeq(data, 2 * n + 2, Len(w)) = b
        <5> DEFINE m == 2 * n + 1
        <5>1. w = Packed(ls, b) /\ Crlf \in Token
          BY <1>1, <1>6, HeadLinesAre DEF Packed
        <5>2. \A j \in 1 .. Len(b) : w[m + j] = b[j]
          <6> DEFINE x == Packed(ls, b)
          <6>1. \A j \in 1 .. Len(b) : x[2 * Len(ls) + 1 + j] = b[j]
            <7>1. ls \in Seq(Token) /\ b \in Seq(Token) /\ Crlf \in Token
              BY <1>1, <5>1
            <7> HIDE DEF m, n
            <7>2. QED
              BY <7>1, PackedIs
          <6>2. w = x
            BY <5>1
          <6> HIDE DEF x
          <6>3. QED
            BY <6>1, <6>2
        <5>3. \A j \in 1 .. Len(b) : m + j \in 1 .. Len(w) /\ m + j <= Len(data)
          <6> HIDE DEF n
          <6>1. QED
            BY <1>1, <1>2, <1>3, <4>1
        <5>4. \A j \in 1 .. Len(b) : data[m + j] = b[j]
          BY <1>4, <5>2, <5>3
        <5>5. m \in Nat /\ m + 1 = 2 * n + 2 /\ m + Len(b) = Len(w)
          <6> HIDE DEF n
          <6>1. QED
            BY <1>1, <1>2, <1>3
        <5> HIDE DEF m
        <5>6. SubSeq(data, m + 1, m + Len(b)) = b
          BY <1>1, <5>4, <5>5, PartIs
        <5>7. QED
          BY <5>5, <5>6
      <4>3. QED
        BY <4>1, <4>2
    <3> HIDE DEF method, path, headers, body, size
    <3>3. /\ Parse(data).rc = 1 /\ Parse(data).method = method /\ Parse(data).path = path
          /\ Parse(data).headers = headers /\ Parse(data).body = body
      BY <3>1
    <3>4. QED
      BY <2>6, <3>2, <3>3 DEF ls, b
  <2>9. QED
    BY <2>7, <2>8
<1>11. QED
  BY <1>9, <1>10

-----------------------------------------------------------------------------
(* The routes, and the reply to a request                                  *)

\* A text as js_route_parse takes it from a pattern.
Texts == [word : STRING, colon : BOOLEAN]

\* Without the empty text at its end a path stays a sequence of its texts.
LEMMA SegmentsAre ==
  ASSUME NEW T, NEW s \in Seq(T)
  PROVE  /\ Trimmed(s) = Segments(s)
         /\ Segments(s) \in Seq(T)
         /\ \A i \in DOMAIN Segments(s) : i \in 1 .. Len(s) /\ Segments(s)[i] = s[i]
<1>1. Trimmed(s) = Segments(s)
  BY DEF Trimmed, Segments
<1>2. CASE s # <<>> /\ Last(s) = Empty
  <2> DEFINE n == Len(s)
             t == SubSeq(s, 1, n - 1)
  <2>1. n \in Nat \ {0} /\ \A i \in 1 .. n : s[i] \in T
    <3>1. n # 0
      BY <1>2, EmptySeq
    <3>2. QED
      BY <3>1, LenProperties, ElementOfSeq
  <2>2. Segments(s) = t
    BY <1>2 DEF Segments, Front
  <2>3. 1 \in Int /\ n - 1 \in Int /\ \A i \in 1 .. n - 1 : s[i] \in T
    BY <2>1
  <2> HIDE DEF n
  <2>4. t \in Seq(T) /\ Len(t) = n - 1 /\ \A i \in 1 .. n - 1 : t[i] = s[i]
    <3>1. /\ t \in Seq(T)
          /\ Len(t) = IF 1 <= n - 1 THEN (n - 1) - 1 + 1 ELSE 0
          /\ \A i \in 1 .. (n - 1) - 1 + 1 : t[i] = s[1 + i - 1]
      BY <2>3, SubSeqProperties
    <3> HIDE DEF t
    <3>2. QED
      BY <2>1, <3>1
  <2> HIDE DEF t
  <2>5. DOMAIN t = 1 .. n - 1
    BY <2>4, LenProperties
  <2>6. \A i \in 1 .. n - 1 : i \in 1 .. n
    BY <2>1
  <2>7. QED
    BY <1>1, <2>2, <2>4, <2>5, <2>6 DEF n
<1>3. CASE ~(s # <<>> /\ Last(s) = Empty)
  <2>1. Segments(s) = s
    BY <1>3 DEF Segments
  <2>2. QED
    BY <1>1, <2>1, LenProperties
<1>4. QED
  BY <1>2, <1>3

\* The calls, as HttpAssumption types them.
LEMMA MocksAre ==
  /\ Len(Mocks) \in Nat /\ DOMAIN Mocks = 1 .. Len(Mocks)
  /\ \A i \in 1 .. Len(Mocks) :
       /\ Mocks[i].method \in {"GET", "POST", "PUT", "PATCH", "DELETE", "ALL"}
       /\ Mocks[i].pattern \in Seq(Texts)
       /\ Mocks[i].throws \in BOOLEAN
<1> DEFINE M == [method  : Methods \union {"ALL"},
                 pattern : Seq(Texts),
                 throws  : BOOLEAN,
                 shows   : SUBSET {"method", "accept"}]
<1>1. Mocks \in Seq(M)
  BY HttpAssumption DEF Texts
<1>2. \A m \in M : /\ m.method \in {"GET", "POST", "PUT", "PATCH", "DELETE", "ALL"}
                   /\ m.pattern \in Seq(Texts) /\ m.throws \in BOOLEAN
  BY DEF Methods
<1> HIDE DEF M
<1>3. QED
  BY <1>1, <1>2, LenProperties, ElementOfSeq

\* One route for each call, in their order.
RouteOf(m) == [method |-> m.method, segments |-> Segments(m.pattern)]

\* The router holds them.
LEMMA RoutesAre ==
  /\ Len(Routes) = Len(Mocks)
  /\ \A i \in 1 .. Len(Mocks) : Routes[i] = RouteOf(Mocks[i])
<1> DEFINE n == Len(Mocks)
           U == {RouteOf(Mocks[i]) : i \in 1 .. n}
           step == [i \in 1 .. n |-> [v \in Seq(U) |-> Append(v, RouteOf(Mocks[i]))]]
           g(h) == [i \in 0 .. n |->
                       IF i = 0 THEN <<>> ELSE RouteAdd(h[i - 1], Mocks[i].method, Mocks[i].pattern)]
           c == CHOOSE h : h = g(h)
<1>1. n \in Nat /\ <<>> \in Seq(U) /\ Len(<<>>) = 0 /\ \A i \in 1 .. n : RouteOf(Mocks[i]) \in U
  BY MocksAre, EmptySeq
<1>2. Routes = c[n]
  BY DEF Routes
<1>3. \A h : g(h) = [i \in 0 .. n |-> IF i = 0 THEN <<>> ELSE Append(h[i - 1], RouteOf(Mocks[i]))]
  BY DEF RouteAdd, RouteOf
<1>4. \A i \in 1 .. n, v \in Seq(U) : step[i][v] = Append(v, RouteOf(Mocks[i])) /\ step[i][v] \in Seq(U)
  <2> HIDE DEF n
  <2>1. \A i \in 1 .. n, v \in Seq(U) : step[i][v] = Append(v, RouteOf(Mocks[i]))
    OBVIOUS
  <2> HIDE DEF U, step
  <2>2. QED
    BY <1>1, <2>1, AppendProperties
<1> HIDE DEF step, n, U
<1>5. PICK f : Steps(n, <<>>, step, f)
  BY <1>1, StepsExist
<1>6. \A i \in 0 .. n : f[i] \in Seq(U)
  <2>1. \A i \in 1 .. n, v \in Seq(U) : step[i][v] \in Seq(U)
    BY <1>4
  <2>2. QED
    BY <1>1, <1>5, <2>1, StepsStay
<1>7. f[0] = <<>> /\ \A i \in 1 .. n : f[i] = Append(f[i - 1], RouteOf(Mocks[i]))
  <2>1. f[0] = <<>> /\ \A i \in 1 .. n : f[i] = step[i][f[i - 1]]
    BY <1>5 DEF Steps
  <2>2. \A i \in 1 .. n : i - 1 \in 0 .. n
    BY <1>1
  <2>3. QED
    BY <1>4, <1>6, <2>1, <2>2
<1>8. f = g(f)
  <2>1. f = [i \in 0 .. n |-> f[i]]
    BY <1>5 DEF Steps
  <2>2. \A i \in 0 .. n : f[i] = IF i = 0 THEN <<>> ELSE Append(f[i - 1], RouteOf(Mocks[i]))
    <3>1. \A i \in 0 .. n : i # 0 => i \in 1 .. n
      BY <1>1
    <3> HIDE DEF c, g
    <3>2. QED
      BY <1>7, <3>1, Zenon
  <2>3. g(f) = [i \in 0 .. n |-> IF i = 0 THEN <<>> ELSE Append(f[i - 1], RouteOf(Mocks[i]))]
    BY <1>3
  <2> HIDE DEF g
  <2>4. QED
    BY <2>1, <2>2, <2>3
<1>9. c = g(c)
  <2>1. \E h : h = g(h)
    <3> HIDE DEF g
    <3>1. QED
      BY <1>8
  <2> HIDE DEF g
  <2>2. QED
    BY <2>1
<1>10. c = [i \in 0 .. n |-> IF i = 0 THEN <<>> ELSE Append(c[i - 1], RouteOf(Mocks[i]))]
  <2> HIDE DEF g, c
  <2>1. QED
    BY <1>3, <1>9
<1> HIDE DEF c, g
<1>11. \A i \in 0 .. n : c[i] = IF i = 0 THEN <<>> ELSE Append(c[i - 1], RouteOf(Mocks[i]))
  BY <1>10, Zenon
<1> DEFINE Cut(k) == /\ c[k] \in Seq(U) /\ Len(c[k]) = k
                     /\ \A j \in 1 .. k : c[k][j] = RouteOf(Mocks[j])
           G == {k \in 0 .. n : Cut(k)}
<1>12. 0 \in G
  <2>1. 0 \in 0 .. n
    BY <1>1
  <2>2. c[0] = <<>>
    BY <1>11, <2>1
  <2>3. Cut(0)
    <3> DEFINE v == c[0]
    <3>1. v \in Seq(U) /\ Len(v) = 0
      BY <1>1, <2>2
    <3> HIDE DEF v
    <3>2. \A j \in 1 .. 0 : v[j] = RouteOf(Mocks[j])
      OBVIOUS
    <3>3. QED
      BY <3>1, <3>2 DEF v
  <2> HIDE DEF Cut
  <2>4. QED
    BY <2>1, <2>3
<1>13. ASSUME NEW k \in 1 .. n, k - 1 \in G PROVE k \in G
  <2> DEFINE v == c[k - 1]
             e == RouteOf(Mocks[k])
  <2>1. v \in Seq(U) /\ Len(v) = k - 1 /\ \A j \in 1 .. k - 1 : v[j] = RouteOf(Mocks[j])
    BY <1>13
  <2>2. k \in 0 .. n /\ k # 0 /\ k \in Nat
    BY <1>1
  <2>3. e \in U /\ c[k] = Append(v, e)
    BY <1>1, <1>11, <2>2
  <2> HIDE DEF v, e
  <2>4. /\ Append(v, e) \in Seq(U) /\ Len(Append(v, e)) = k /\ Append(v, e)[k] = e
        /\ \A j \in 1 .. k - 1 : Append(v, e)[j] = v[j]
    BY <2>1, <2>2, <2>3, AppendProperties
  <2>5. \A j \in 1 .. k : Append(v, e)[j] = RouteOf(Mocks[j])
    BY <2>1, <2>2, <2>4 DEF e
  <2>6. QED
    BY <2>2, <2>3, <2>4, <2>5
<1> HIDE DEF G
<1>14. \A k \in 0 .. n : k \in G
  BY <1>1, <1>12, <1>13, UpTo
<1>15. n \in 0 .. n
  BY <1>1
<1>16. Cut(n)
  BY <1>14, <1>15 DEF G
<1>17. QED
  BY <1>2, <1>16 DEF n

\* The calls that suit a request.
Suiting(r) == {i \in DOMAIN Mocks : Suits(Mocks[i], r)}

\* A path as PlainRequests has it.
PlainPath(path) == path \in Seq([word : STRING, colon : {FALSE}])

\* A route fits a request in the code where its call suits it.
LEMMA FitsIsSuits ==
  ASSUME NEW r, PlainPath(r.path), NEW i \in 1 .. Len(Mocks)
  PROVE  Fits(Routes[i], MethodFromStr(r.method), Segments(r.path)) <=> Suits(Mocks[i], r)
<1> DEFINE m == Mocks[i]
           P == Segments(m.pattern)
           S == Segments(r.path)
           Bare == [word : STRING, colon : {FALSE}]
<1>1. m.method \in {"GET", "POST", "PUT", "PATCH", "DELETE", "ALL"} /\ m.pattern \in Seq(Texts)
  BY MocksAre
<1>2. Routes[i] = RouteOf(m)
  BY RoutesAre
<1>3. P \in Seq(Texts) /\ Trimmed(m.pattern) = P
  BY <1>1, SegmentsAre
<1>4. S \in Seq(Bare) /\ Trimmed(r.path) = S
  BY SegmentsAre DEF PlainPath
<1> HIDE DEF m, P, S
<1>5. RouteOf(m).method = m.method /\ RouteOf(m).segments = P
  BY DEF RouteOf, P
<1>6. m.method \in {"ALL", MethodFromStr(r.method)} <=> m.method \in {r.method, "ALL"}
  BY <1>1 DEF MethodFromStr, Methods
<1>7. ASSUME Len(P) = Len(S), NEW j \in DOMAIN S
      PROVE  P[j].colon \/ P[j].word = S[j].word <=> P[j].colon \/ P[j] = S[j]
  <2>1. j \in 1 .. Len(S) /\ j \in 1 .. Len(P)
    BY <1>4, <1>7, LenProperties
  <2>2. P[j] \in Texts /\ S[j] \in Bare
    BY <1>3, <1>4, <2>1, ElementOfSeq
  <2>3. \A x \in Texts, y \in Bare : x.colon \/ x.word = y.word <=> x.colon \/ x = y
    <3>1. ASSUME NEW x \in Texts, NEW y \in Bare, ~x.colon
          PROVE  x.word = y.word <=> x = y
      <4>1. x = [word |-> x.word, colon |-> x.colon] /\ x.colon \in BOOLEAN
        BY DEF Texts
      <4>2. y = [word |-> y.word, colon |-> y.colon] /\ y.colon = FALSE
        OBVIOUS
      <4>3. QED
        BY <3>1, <4>1, <4>2
    <3>2. QED
      BY <3>1
  <2>4. QED
    BY <2>2, <2>3
<1>8. Fits(Routes[i], MethodFromStr(r.method), S)
        <=> /\ m.method \in {"ALL", MethodFromStr(r.method)}
            /\ Len(P) = Len(S)
            /\ \A j \in DOMAIN S : P[j].colon \/ P[j].word = S[j].word
  BY <1>2, <1>5 DEF Fits
<1>9. Suits(m, r) <=> /\ m.method \in {r.method, "ALL"}
                      /\ Len(P) = Len(S)
                      /\ \A j \in DOMAIN S : P[j].colon \/ P[j] = S[j]
  BY <1>3, <1>4 DEF Suits
<1>10. QED
  BY <1>6, <1>7, <1>8, <1>9 DEF m, S

\* The first of the calls that suit is the match.
LEMMA MatchIs ==
  ASSUME NEW r, PlainPath(r.path)
  PROVE  RouteMatch(Routes, MethodFromStr(r.method), r.path)
           = IF Suiting(r) = {} THEN 0 ELSE Min(Suiting(r))
<1> DEFINE S == Segments(r.path)
           m == MethodFromStr(r.method)
           I == {i \in 1 .. Len(Routes) : Fits(Routes[i], m, S)}
<1>1. RouteMatch(Routes, m, r.path) = IF I = {} THEN 0 ELSE Min(I)
  BY DEF RouteMatch, SelectInSeq
<1>2. I = Suiting(r)
  <2>1. DOMAIN Mocks = 1 .. Len(Mocks) /\ Len(Routes) = Len(Mocks)
    BY MocksAre, RoutesAre
  <2>2. \A i \in 1 .. Len(Mocks) : Fits(Routes[i], m, S) <=> Suits(Mocks[i], r)
    BY FitsIsSuits
  <2> HIDE DEF S, m
  <2>3. QED
    BY <2>1, <2>2 DEF Suiting
<1> HIDE DEF I
<1>3. QED
  BY <1>1, <1>2

\* The least and the greatest of some positions.
LEMMA MinOf ==
  ASSUME NEW S \in SUBSET Nat, S # {}
  PROVE  Min(S) \in S /\ \A x \in S : Min(S) <= x
<1>1. \E x \in S : \A y \in S : x <= y
  BY LeastNatural
<1>2. Min(S) = CHOOSE x \in S : \A y \in S : x <= y
  BY DEF Min
<1>3. QED
  BY <1>1, <1>2

\* What is in a set and not above any of it is its least element.
LEMMA MinIs ==
  ASSUME NEW S \in SUBSET Nat, NEW m \in S, \A x \in S : m <= x
  PROVE  Min(S) = m
<1>1. Min(S) \in S /\ Min(S) <= m
  BY MinOf
<1>2. m <= Min(S) /\ Min(S) \in Nat /\ m \in Nat
  BY <1>1
<1>3. QED
  BY <1>1, <1>2

\* A set of positions has a greatest element.
LEMMA MaxOf ==
  ASSUME NEW n \in Nat, NEW S \in SUBSET (1 .. n), S # {}
  PROVE  Max(S) \in S
<1> DEFINE T == {k \in Nat : n - k \in S}
<1>1. PICK e : e \in S
  OBVIOUS
<1>2. e \in 1 .. n /\ n - e \in Nat /\ n - (n - e) = e
  BY <1>1
<1>3. n - e \in T
  BY <1>1, <1>2
<1>4. PICK k \in T : \A j \in T : k <= j
  <2>1. T \in SUBSET Nat /\ T # {}
    BY <1>3
  <2> HIDE DEF T
  <2>2. QED
    BY <2>1, LeastNatural
<1>5. ASSUME NEW x \in S PROVE n - k >= x
  <2>1. x \in 1 .. n /\ n - x \in Nat /\ n - (n - x) = x
    OBVIOUS
  <2>2. n - x \in T
    BY <2>1
  <2>3. k <= n - x /\ k \in Nat
    BY <1>4, <2>2
  <2>4. QED
    BY <2>1, <2>3
<1>6. \E x \in S : \A y \in S : x >= y
  BY <1>4, <1>5
<1>7. Max(S) = CHOOSE x \in S : \A y \in S : x >= y
  BY DEF Max
<1>8. QED
  BY <1>6, <1>7

\* What the path of a request says of the parameters in a pattern.
Values(r, pattern) ==
    LET params == {j \in DOMAIN Trimmed(pattern) : pattern[j].colon}
    IN [name \in {pattern[j].word : j \in params} |->
           r.path[Max({j \in params : pattern[j].word = name})].word]

\* js_request_get_params shows it.
LEMMA ParamsAre ==
  ASSUME NEW r, PlainPath(r.path), NEW i \in Suiting(r)
  PROVE  ParamsObject(Params(Routes[i], r.path)) = Values(r, Mocks[i].pattern)
<1> DEFINE pattern == Mocks[i].pattern
           params == {j \in DOMAIN Trimmed(pattern) : pattern[j].colon}
           P == Segments(pattern)
           S == Segments(r.path)
           pp == Params(Routes[i], r.path)
           names == {pattern[j].word : j \in params}
           at(name) == {j \in params : pattern[j].word = name}
<1>1. i \in 1 .. Len(Mocks) /\ Suits(Mocks[i], r)
  BY MocksAre DEF Suiting
<1>2. pattern \in Seq(Texts) /\ Routes[i].segments = P
  <2>1. pattern \in Seq(Texts)
    BY <1>1, MocksAre
  <2>2. Routes[i] = RouteOf(Mocks[i])
    BY <1>1, RoutesAre
  <2>3. RouteOf(Mocks[i]).segments = P
    BY DEF RouteOf
  <2>4. QED
    BY <2>1, <2>2, <2>3
<1>3. /\ Trimmed(pattern) = P /\ P \in Seq(Texts)
      /\ \A j \in DOMAIN P : P[j] = pattern[j]
  BY <1>2, SegmentsAre
<1>4. /\ Trimmed(r.path) = S /\ S \in Seq([word : STRING, colon : {FALSE}])
      /\ \A j \in DOMAIN S : S[j] = r.path[j]
  BY SegmentsAre DEF PlainPath
<1>5. Len(P) = Len(S)
  BY <1>1, <1>3, <1>4 DEF Suits
<1>6. DOMAIN P = 1 .. Len(P) /\ DOMAIN S = 1 .. Len(P) /\ Len(P) \in Nat
  BY <1>3, <1>4, <1>5, LenProperties
<1>7. pp = [j \in {k \in DOMAIN P : P[k].colon} |-> <<P[j].word, S[j].word>>]
  BY <1>2 DEF Params
<1> HIDE DEF P, S, pattern
<1>8. params = {j \in 1 .. Len(P) : pattern[j].colon}
  BY <1>3, <1>6
<1>9. {k \in DOMAIN P : P[k].colon} = params
  BY <1>3, <1>6, <1>8
<1> HIDE DEF params
<1>10. \A j \in params : j \in 1 .. Len(P) /\ P[j] = pattern[j] /\ S[j] = r.path[j]
  BY <1>3, <1>4, <1>6, <1>8
<1> HIDE DEF pp
<1>11. DOMAIN pp = params /\ \A j \in params : pp[j] = <<pattern[j].word, r.path[j].word>>
  BY <1>7, <1>9, <1>10
<1>12. \A j \in params : pp[j][1] = pattern[j].word /\ pp[j][2] = r.path[j].word
  BY <1>11
<1>13. ParamsObject(pp) = [name \in {pp[j][1] : j \in DOMAIN pp} |->
                              pp[Max({j \in DOMAIN pp : pp[j][1] = name})][2]]
  BY DEF ParamsObject
<1>14. {pp[j][1] : j \in DOMAIN pp} = names
  BY <1>11, <1>12
<1>15. ASSUME NEW name \in names
       PROVE  pp[Max({j \in DOMAIN pp : pp[j][1] = name})][2] = r.path[Max(at(name))].word
  <2>1. {j \in DOMAIN pp : pp[j][1] = name} = at(name)
    BY <1>11, <1>12
  <2>2. at(name) \in SUBSET (1 .. Len(P)) /\ at(name) # {}
    BY <1>10
  <2>3. Max(at(name)) \in at(name)
    <3> DEFINE A == at(name)
    <3>1. A \in SUBSET (1 .. Len(P)) /\ A # {}
      BY <2>2
    <3> HIDE DEF A
    <3>2. Max(A) \in A
      BY <1>6, <3>1, MaxOf
    <3>3. QED
      BY <3>2 DEF A
  <2>4. Max(at(name)) \in params
    BY <2>3
  <2>5. pp[Max(at(name))][2] = r.path[Max(at(name))].word
    BY <1>12, <2>4
  <2> HIDE DEF at
  <2>6. QED
    BY <2>1, <2>5
<1>16. ParamsObject(pp) = [name \in names |-> r.path[Max(at(name))].word]
  <2> HIDE DEF names, at
  <2>1. QED
    BY <1>13, <1>14, <1>15
<1>17. QED
  BY <1>16 DEF pp, params, pattern, Values

\* In the head each header of a name comes one line later than in the request.
LEMMA NamedIs ==
  ASSUME NEW r \in Request, NEW name
  PROVE  LET hs == HeaderLines(HeadLines(r), 1)
         IN /\ Named(hs, name) = {j + 1 : j \in HeadersOf(r, name)}
            /\ \A j \in HeadersOf(r, name) : hs[j + 1] = r.headers[j]
            /\ DOMAIN r.headers = 1 .. Len(r.headers) /\ Len(r.headers) \in Nat
<1> DEFINE ls == HeadLines(r)
           h == r.headers
           n == Len(h)
           hs == HeaderLines(ls, 1)
           V == {Start(r)} \union Range(h)
           D == {j \in 1 + 1 .. Len(ls) : ls[j].kind = "header"}
<1>1. h \in Seq(V) /\ Start(r) \in V
  <2>1. h \in Seq(Range(h) \ {Crlf})
    BY RequestAssumption
  <2>2. QED
    BY <2>1, SeqMonotonic
<1>2. DOMAIN h = 1 .. n /\ n \in Nat
  BY <1>1, LenProperties
<1>3. ls = <<Start(r)>> \o h
  BY DEF HeadLines
<1>4. Len(ls) = n + 1 /\ \A j \in 1 .. n : ls[j + 1] = h[j]
  <2> DEFINE s == Start(r)
  <2>1. s \in V /\ ls = <<s>> \o h
    BY <1>1, <1>3
  <2> HIDE DEF s, V, ls, h
  <2>2. QED
    BY <1>1, <2>1, PrependIs
<1>5. hs = [j \in D |-> ls[j]]
  BY DEF HeaderLines
<1> HIDE DEF ls, h, hs
<1>6. DOMAIN hs = D /\ \A j \in D : hs[j] = ls[j]
  BY <1>5
<1>7. Named(hs, name) = {j \in D : ls[j].name = name}
  BY <1>6 DEF Named
<1>8. HeadersOf(r, name) = {j \in 1 .. n : h[j].kind = "header" /\ h[j].name = name}
  BY <1>2 DEF HeadersOf, h
<1> HIDE DEF n
<1>9. \A j \in 1 .. n : j + 1 \in 1 + 1 .. Len(ls)
  BY <1>2, <1>4
<1>10. \A k \in 1 + 1 .. Len(ls) : k - 1 \in 1 .. n /\ k = (k - 1) + 1
  BY <1>2, <1>4
<1>11. ASSUME NEW j \in HeadersOf(r, name)
       PROVE  j + 1 \in D /\ ls[j + 1].name = name /\ hs[j + 1] = h[j]
  BY <1>4, <1>6, <1>8, <1>9
<1>12. ASSUME NEW k \in D, ls[k].name = name
       PROVE  \E j \in HeadersOf(r, name) : k = j + 1
  <2>1. k - 1 \in 1 .. n /\ k = (k - 1) + 1 /\ ls[k].kind = "header"
    BY <1>10
  <2>2. ls[k] = h[k - 1]
    BY <1>4, <2>1
  <2>3. QED
    BY <1>8, <1>12, <2>1, <2>2
<1> HIDE DEF D
<1>13. Named(hs, name) = {j + 1 : j \in HeadersOf(r, name)}
  BY <1>7, <1>11, <1>12
<1>14. QED
  BY <1>2, <1>11, <1>13 DEF ls, h, hs, n

\* The first of them is the first in the head.
LEMMA FirstNamedIs ==
  ASSUME NEW r \in Request, NEW name
  PROVE  LET hs == HeaderLines(HeadLines(r), 1)
         IN /\ Named(hs, name) = {} <=> HeadersOf(r, name) = {}
            /\ HeadersOf(r, name) # {} =>
                 /\ Min(HeadersOf(r, name)) \in HeadersOf(r, name)
                 /\ hs[Min(Named(hs, name))] = r.headers[Min(HeadersOf(r, name))]
<1> DEFINE hs == HeaderLines(HeadLines(r), 1)
           H == HeadersOf(r, name)
           N == Named(hs, name)
<1>1. N = {j + 1 : j \in H} /\ \A j \in H : hs[j + 1] = r.headers[j]
  BY NamedIs
<1>2. H \in SUBSET Nat
  <2>1. DOMAIN r.headers = 1 .. Len(r.headers) /\ Len(r.headers) \in Nat
    BY NamedIs
  <2>2. QED
    BY <2>1 DEF HeadersOf
<1> HIDE DEF hs, H, N
<1>3. N = {} <=> H = {}
  BY <1>1
<1>4. ASSUME H # {} PROVE Min(H) \in H /\ hs[Min(N)] = r.headers[Min(H)]
  <2>1. Min(H) \in H /\ \A j \in H : Min(H) <= j
    BY <1>2, <1>4, MinOf
  <2> DEFINE m == Min(H)
  <2> HIDE DEF m
  <2>2. m \in H /\ \A j \in H : m <= j
    BY <2>1 DEF m
  <2>3. N \in SUBSET Nat /\ m + 1 \in N /\ \A k \in N : m + 1 <= k
    BY <1>1, <1>2, <2>2
  <2>4. Min(N) = m + 1
    BY <2>3, MinIs
  <2>5. QED
    BY <1>1, <2>2, <2>4 DEF m
<1>5. QED
  BY <1>3, <1>4 DEF hs, H, N

\* Of a header that is there once at most js_headers_get returns all there is.
LEMMA AcceptIsShown ==
  ASSUME NEW r \in Request, \A i, j \in HeadersOf(r, "accept") : i = j
  PROVE  HeadersGet(HeaderLines(HeadLines(r), 1), "accept") = Accepts(r)
<1> DEFINE hs == HeaderLines(HeadLines(r), 1)
           ac == "accept"
           H == HeadersOf(r, ac)
           N == Named(hs, ac)
           m == Min(H)
<1>1. HeadersGet(hs, ac) = IF N = {} THEN {} ELSE {hs[Min(N)].word}
  BY DEF HeadersGet
<1>2. Accepts(r) = {r.headers[j].word : j \in H}
  BY DEF Accepts
<1>3. (N = {} <=> H = {}) /\ (H # {} => m \in H /\ hs[Min(N)] = r.headers[m])
  BY FirstNamedIs
<1>4. \A i, j \in H : i = j
  OBVIOUS
<1> HIDE DEF N, H, hs, m, ac
<1>5. HeadersGet(hs, ac) = {r.headers[j].word : j \in H}
  <2>1. CASE H = {}
    BY <1>1, <1>3, <2>1
  <2>2. CASE H # {}
    <3>1. \A j \in H : j = m
      BY <1>3, <1>4, <2>2
    <3>2. {r.headers[j].word : j \in H} = {r.headers[m].word}
      BY <1>3, <2>2, <3>1
    <3>3. QED
      BY <1>1, <1>3, <2>2, <3>2
  <2>3. QED
    BY <2>1, <2>2
<1>6. QED
  BY <1>2, <1>5 DEF hs, ac

\* At most one header says Connection, and with a word only.
PlainHeaders(r) ==
    \A i \in DOMAIN r.headers : SaysHow(r.headers[i]) =>
        /\ r.headers[i] = Connection(r.headers[i].word)
        /\ \A j \in DOMAIN r.headers : SaysHow(r.headers[j]) => j = i

\* The connection is kept unless the request asks to close it.
LEMMA KeepAliveIs ==
  ASSUME NEW r \in Request, PlainHeaders(r)
  PROVE  KeepAlive(HeaderLines(HeadLines(r), 1)) = ~AsksClose(r)
<1> DEFINE hs == HeaderLines(HeadLines(r), 1)
           how == "connection"
           close == "close"
           H == HeadersOf(r, how)
           N == Named(hs, how)
           m == Min(H)
<1>1. KeepAlive(hs) <=> (N # {} => hs[Min(N)].word # close)
  BY DEF KeepAlive
<1>2. (N = {} <=> H = {}) /\ (H # {} => m \in H /\ hs[Min(N)] = r.headers[m])
  BY FirstNamedIs
<1>3. \A j : j \in H <=> j \in DOMAIN r.headers /\ SaysHow(r.headers[j])
  BY DEF HeadersOf, SaysHow
<1>4. /\ \A word : /\ SaysHow(Connection(word)) /\ Connection(word).word = word
  BY DEF SaysHow, Connection, Header
<1>5. AsksClose(r) <=> \E i \in DOMAIN r.headers : r.headers[i] = Connection(close)
  BY DEF AsksClose
<1>6. KeepAlive(hs) \in BOOLEAN /\ AsksClose(r) \in BOOLEAN
  BY Zenon DEF KeepAlive, AsksClose
<1> HIDE DEF N, H, hs, m, close
<1>7. CASE H = {}
  <2>1. KeepAlive(hs)
    BY <1>1, <1>2, <1>7
  <2>2. ~AsksClose(r)
    BY <1>3, <1>4, <1>5, <1>7
  <2>3. QED
    BY <1>6, <2>1, <2>2 DEF hs
<1>8. CASE H # {}
  <2>1. m \in DOMAIN r.headers /\ SaysHow(r.headers[m]) /\ hs[Min(N)] = r.headers[m]
    BY <1>2, <1>3, <1>8
  <2>2. /\ r.headers[m] = Connection(r.headers[m].word)
        /\ \A j \in DOMAIN r.headers : SaysHow(r.headers[j]) => j = m
    BY <2>1 DEF PlainHeaders
  <2>3. KeepAlive(hs) <=> r.headers[m].word # close
    BY <1>1, <1>2, <1>8, <2>1
  <2>4. AsksClose(r) <=> r.headers[m].word = close
    BY <1>4, <1>5, <2>1, <2>2
  <2>5. QED
    BY <1>6, <2>3, <2>4 DEF hs
<1>9. QED
  BY <1>7, <1>8

\* What a client can see of a response.
View(resp, alive) == [status |-> resp.status, headers |-> resp.headers, alive |-> alive, body |-> resp.body]

\* The response the code makes of a request is its reply, and the connection is kept
\* unless the request asks to close it.
LEMMA AnswerIs ==
  ASSUME PlainRequests, NEW r, Fit(r), NEW req,
         req.method = MethodFromStr(r.method), req.path = r.path,
         req.headers = HeaderLines(HeadLines(r), 1), req.body = r.body
  PROVE  /\ KeepAlive(req.headers) = ~AsksClose(r)
         /\ View(HandleRequest(req), ~AsksClose(r)) = Reply(r)
<1> DEFINE S == Suiting(r)
           i == Min(S)
           pattern == Mocks[i].pattern
           value == Values(r, pattern)
           k == RouteMatch(Routes, req.method, req.path)
           method == MethodStr(req.method)
           accept == HeadersGet(req.headers, "accept")
           echo == Echo(i, r.method, value, Accepts(r), r.body)
           mine == Echo(k, method, ParamsObject(Params(Routes[k], req.path)), accept, req.body)
           alive == ~AsksClose(r)
<1>1. /\ r \in Request /\ PlainPath(r.path) /\ PlainHeaders(r)
      /\ Shows(r, "method") => r.method \in Methods
      /\ Shows(r, "accept") => \A a, b \in HeadersOf(r, "accept") : a = b
  BY DEF Fit, PlainRequests, PlainPath, PlainHeaders
<1>2. KeepAlive(req.headers) = alive
  BY <1>1, KeepAliveIs
<1>3. HandleRequest(req) = IF k = 0 THEN NotFound ELSE IF Mocks[k].throws THEN InternalServerError ELSE mine
  BY DEF HandleRequest
<1>4. Reply(r) = View(CASE S = {} -> NotFound
                        [] S # {} /\ Mocks[i].throws -> InternalServerError
                        [] OTHER -> echo, alive)
  BY DEF Reply, View, Suiting, Values
<1>5. k = IF S = {} THEN 0 ELSE i
  BY <1>1, MatchIs
<1>6. S # {} => i \in S /\ i # 0
  <2>1. S \in SUBSET (Nat \ {0})
    BY MocksAre DEF Suiting
  <2> HIDE DEF S
  <2>2. S # {} => i \in S
    BY <2>1, MinOf
  <2>3. QED
    BY <2>1, <2>2
<1>7. Shows(r, "method") => method = r.method
  BY <1>1 DEF MethodStr, MethodFromStr, Methods
<1>8. Shows(r, "accept") => accept = Accepts(r)
  BY <1>1, AcceptIsShown
<1>9. ASSUME S # {} PROVE mine = echo
  <2>1. k = i /\ i \in S
    BY <1>5, <1>6, <1>9
  <2>2. ParamsObject(Params(Routes[i], r.path)) = value
    <3> HIDE DEF i
    <3>1. PlainPath(r.path) /\ i \in Suiting(r)
      BY <1>1, <2>1
    <3>2. QED
      BY <3>1, ParamsAre
  <2>3. ParamsObject(Params(Routes[k], req.path)) = value
    <3> HIDE DEF k, i, value
    <3>1. QED
      BY <2>1, <2>2
  <2>4. \A what \in Mocks[i].shows : Shows(r, what)
    BY <2>1 DEF Suiting, Shows
  <2> HIDE DEF k, i, value, method, accept
  <2>5. /\ "method" \in Mocks[i].shows => method = r.method
        /\ "accept" \in Mocks[i].shows => accept = Accepts(r)
    BY <1>7, <1>8, <2>4
  <2>6. QED
    BY <2>1, <2>3, <2>5 DEF Echo
<1>10. HandleRequest(req) = CASE S = {} -> NotFound
                              [] S # {} /\ Mocks[i].throws -> InternalServerError
                              [] OTHER -> echo
  <2> HIDE DEF k, i, S, mine, echo
  <2>1. CASE S = {}
    BY <1>3, <1>5, <2>1
  <2>2. CASE S # {}
    <3>1. k = i /\ k # 0 /\ mine = echo
      BY <1>5, <1>6, <1>9, <2>2
    <3>2. CASE Mocks[i].throws
      BY <1>3, <2>2, <3>1, <3>2
    <3>3. CASE ~Mocks[i].throws
      BY <1>3, <2>2, <3>1, <3>3
    <3>4. QED
      BY <3>2, <3>3
  <2>3. QED
    BY <2>1, <2>2
<1>11. View(HandleRequest(req), alive) = Reply(r)
  <2> HIDE DEF alive, echo, i, S
  <2>1. QED
    BY <1>4, <1>10
<1>12. QED
  BY <1>2, <1>11

-----------------------------------------------------------------------------
(* The bytes of a response                                                 *)

\* A response as the server sends one: its headers name the route only.
Sendable(resp) ==
    /\ IsSeq(resp.body)
    /\ IsSeq(resp.headers)
    /\ \A k \in 1 .. Len(resp.headers) : \E e : resp.headers[k] = Header("route", "", e)

\* The lines of its head.
HeadFor(resp, alive) ==
    <<Status(resp.status)>> \o resp.headers \o <<LengthIs(Len(resp.body)), SaysConnection(alive)>>

\* Where everything is in it.
LEMMA HeadIs ==
  ASSUME NEW resp, Sendable(resp), NEW alive
  PROVE  LET h == HeadFor(resp, alive)
             m == Len(resp.headers) + 3
         IN /\ IsSeq(h) /\ Len(h) = m /\ Len(resp.headers) \in Nat
            /\ h[1] = Status(resp.status)
            /\ \A k \in 1 .. Len(resp.headers) : h[k + 1] = resp.headers[k]
            /\ h[m - 1] = LengthIs(Len(resp.body))
            /\ h[m] = SaysConnection(alive)
<1> DEFINE a == Status(resp.status)
           t == resp.headers
           x == LengthIs(Len(resp.body))
           y == SaysConnection(alive)
           n == Len(t)
           at == <<a>> \o t
           xy == <<x, y>>
           h == at \o xy
<1>1. PICK U : t \in Seq(U)
  BY DEF Sendable, IsSeq
<1> DEFINE V == U \union {a, x, y}
<1>2. t \in Seq(V) /\ a \in V /\ x \in V /\ y \in V
  BY <1>1, SeqMonotonic
<1>3. HeadFor(resp, alive) = h
  BY DEF HeadFor
<1>4. n \in Nat
  BY <1>1, LenProperties
<1> HIDE DEF a, t, x, y, V
<1>5. at \in Seq(V) /\ Len(at) = n + 1 /\ at[1] = a /\ \A k \in 1 .. n : at[k + 1] = t[k]
  BY <1>2, PrependIs
<1>6. xy \in Seq(V) /\ Len(xy) = 2 /\ xy[1] = x /\ xy[2] = y
  BY <1>2
<1> HIDE DEF at, xy, n
<1>7. /\ h \in Seq(V) /\ Len(h) = n + 3
      /\ \A k \in 1 .. n + 3 : h[k] = IF k <= n + 1 THEN at[k] ELSE xy[k - (n + 1)]
  <2>1. /\ h \in Seq(V) /\ Len(h) = Len(at) + Len(xy)
        /\ \A k \in 1 .. Len(at) + Len(xy) : h[k] = IF k <= Len(at) THEN at[k] ELSE xy[k - Len(at)]
    BY <1>5, <1>6, ConcatProperties
  <2> HIDE DEF h
  <2>2. QED
    BY <1>4, <1>5, <1>6, <2>1
<1> HIDE DEF h
<1>8. /\ 1 \in 1 .. n + 3 /\ 1 <= n + 1
      /\ n + 2 \in 1 .. n + 3 /\ ~(n + 2 <= n + 1) /\ (n + 2) - (n + 1) = 1
      /\ n + 3 \in 1 .. n + 3 /\ ~(n + 3 <= n + 1) /\ (n + 3) - (n + 1) = 2
      /\ (n + 3) - 1 = n + 2
      /\ \A k \in 1 .. n : k + 1 \in 1 .. n + 3 /\ k + 1 <= n + 1
  BY <1>4
<1>9. h[1] = a /\ h[(n + 3) - 1] = x /\ h[n + 3] = y /\ \A k \in 1 .. n : h[k + 1] = t[k]
  BY <1>5, <1>6, <1>7, <1>8
<1>10. IsSeq(h)
  BY <1>7 DEF IsSeq
<1>11. QED
  BY <1>3, <1>4, <1>7, <1>9, <1>10 DEF n, t, a, x, y

\* Of its lines one gives the length, one says how the connection goes on.
LEMMA HeadSays ==
  ASSUME NEW resp, Sendable(resp), NEW alive, NEW j \in 1 .. Len(resp.headers) + 3
  PROVE  LET h == HeadFor(resp, alive)
             m == Len(resp.headers) + 3
         IN /\ h[j] # Crlf
            /\ h[j].kind = "header" /\ h[j].name = "content-length" <=> j = m - 1
            /\ h[j].kind = "header" /\ h[j].name = "connection" <=> j = m
<1> DEFINE h == HeadFor(resp, alive)
           n == Len(resp.headers)
<1>1. /\ n \in Nat /\ h[1] = Status(resp.status)
      /\ \A k \in 1 .. n : h[k + 1] = resp.headers[k]
      /\ h[(n + 3) - 1] = LengthIs(Len(resp.body))
      /\ h[n + 3] = SaysConnection(alive)
  BY HeadIs
<1>2. \A k \in 1 .. n : \E e : resp.headers[k] = Header("route", "", e)
  BY DEF Sendable
<1>3. /\ \A c : Status(c).kind = "status" /\ Status(c) # Crlf
      /\ \A e : Header("route", "", e).name = "route" /\ Header("route", "", e) # Crlf
      /\ \A e : LengthIs(e).kind = "header" /\ LengthIs(e).name = "content-length" /\ LengthIs(e) # Crlf
      /\ /\ SaysConnection(alive).kind = "header" /\ SaysConnection(alive).name = "connection"
         /\ SaysConnection(alive) # Crlf
  BY DEF Status, Header, LengthIs, SaysConnection, Connection, Crlf
<1>4. "route" # "content-length" /\ "route" # "connection" /\ "connection" # "content-length" /\ "status" # "header"
  OBVIOUS
<1> HIDE DEF h, n
<1>5. j \in 1 .. n + 3
  BY DEF n
<1>6. CASE j = 1
  <2>1. h[j].kind = "status" /\ h[j] # Crlf /\ j # (n + 3) - 1 /\ j # n + 3
    BY <1>1, <1>3, <1>6
  <2>2. QED
    BY <1>4, <2>1 DEF h, n
<1>7. CASE j \in 2 .. n + 1
  <2>1. j - 1 \in 1 .. n /\ j = (j - 1) + 1 /\ j # (n + 3) - 1 /\ j # n + 3
    BY <1>1, <1>7
  <2>2. h[j] = resp.headers[j - 1]
    BY <1>1, <2>1
  <2>3. h[j].name = "route" /\ h[j] # Crlf
    BY <1>2, <1>3, <2>1, <2>2
  <2>4. QED
    BY <1>4, <2>1, <2>3 DEF h, n
<1>8. CASE j = n + 2
  <2>1. j = (n + 3) - 1 /\ j # n + 3
    BY <1>1, <1>8
  <2>2. h[j].kind = "header" /\ h[j].name = "content-length" /\ h[j] # Crlf
    BY <1>1, <1>3, <2>1
  <2>3. QED
    BY <1>4, <2>1, <2>2 DEF h, n
<1>9. CASE j = n + 3
  <2>1. j # (n + 3) - 1
    BY <1>1, <1>9
  <2>2. h[j].kind = "header" /\ h[j].name = "connection" /\ h[j] # Crlf
    BY <1>1, <1>3, <1>9
  <2>3. QED
    BY <1>4, <1>9, <2>1, <2>2 DEF h, n
<1>10. j = 1 \/ j \in 2 .. n + 1 \/ j = n + 2 \/ j = n + 3
  BY <1>1, <1>5
<1>11. QED
  BY <1>6, <1>7, <1>8, <1>9, <1>10

\* From position p + 1 on, o goes on like s, as far as it goes.
Agrees(o, p, s) == \A j \in 1 .. Len(s) : p + j <= Len(o) => o[p + j] = s[j]

\* The m lines of the head h, each with its end, the blank line, the body b.
Laid(s, m, h, b) ==
    /\ IsSeq(s) /\ Len(b) \in Nat /\ m \in Nat
    /\ Len(s) = 2 * m + 1 + Len(b)
    /\ \A j \in 1 .. m : s[2 * j - 1] = h[j] /\ s[2 * j] = Crlf
    /\ s[2 * m + 1] = Crlf
    /\ \A j \in 1 .. Len(b) : s[2 * m + 1 + j] = b[j]

\* That is how a response is sent.
LEMMA SerializedIs ==
  ASSUME NEW resp, Sendable(resp), NEW alive
  PROVE  Laid(Serialize(resp, alive), Len(resp.headers) + 3, HeadFor(resp, alive), resp.body)
<1> DEFINE h == HeadFor(resp, alive)
           b == resp.body
           m == Len(resp.headers) + 3
<1>1. IsSeq(h) /\ Len(h) = m /\ m \in Nat
  BY HeadIs
<1>2. IsSeq(b)
  BY DEF Sendable
<1>3. Serialize(resp, alive) = Packed(h, b)
  BY DEF Serialize, HeadFor, Packed
<1> HIDE DEF h, b, m
<1>4. PICK U : h \in Seq(U)
  BY <1>1 DEF IsSeq
<1>5. PICK W : b \in Seq(W)
  BY <1>2 DEF IsSeq
<1> DEFINE V == U \union W \union {Crlf}
<1>6. h \in Seq(V) /\ b \in Seq(V) /\ Crlf \in V
  BY <1>4, <1>5, SeqMonotonic
<1> HIDE DEF V
<1> DEFINE s == Packed(h, b)
<1>7. /\ s \in Seq(V)
      /\ Len(s) = 2 * Len(h) + 1 + Len(b)
      /\ \A j \in 1 .. Len(h) : s[2 * j - 1] = h[j] /\ s[2 * j] = Crlf
      /\ s[2 * Len(h) + 1] = Crlf
      /\ \A j \in 1 .. Len(b) : s[2 * Len(h) + 1 + j] = b[j]
  <2>1. s \in Seq(V) /\ Len(s) = 2 * Len(h) + 1 + Len(b) /\ s[2 * Len(h) + 1] = Crlf
    BY <1>6, PackedIs
  <2>2. \A j \in 1 .. Len(h) : s[2 * j - 1] = h[j] /\ s[2 * j] = Crlf
    BY <1>6, PackedIs
  <2>3. \A j \in 1 .. Len(b) : s[2 * Len(h) + 1 + j] = b[j]
    BY <1>6, PackedIs
  <2>4. QED
    BY <2>1, <2>2, <2>3
<1>8. IsSeq(s) /\ Len(b) \in Nat
  BY <1>5, <1>7, LenProperties DEF IsSeq
<1> HIDE DEF s
<1>9. QED
  <2>1. Laid(s, m, h, b)
    BY <1>1, <1>7, <1>8 DEF Laid
  <2>2. QED
    BY <1>3, <2>1 DEF s, h, b, m

\* The m lines h, their ends and a blank line, as far as d bytes go.
Begins(o, p, d, m, h) ==
    /\ m \in Nat /\ m >= 3 /\ d \in Nat
    /\ \A j \in 1 .. m : h[j] # Crlf
    /\ \A j \in 1 .. m : /\ p + (2 * j - 1) <= d => o[p + (2 * j - 1)] = h[j]
                         /\ p + 2 * j <= d => o[p + 2 * j] = Crlf
    /\ p + (2 * m + 1) <= d => o[p + (2 * m + 1)] = Crlf

\* Where the head ends, if that has come.
LEMMA BlankIs ==
  ASSUME NEW o, NEW p \in Nat, NEW m, NEW h, Begins(o, p, Len(o), m, h)
  PROVE  /\ Blanks(o, p + 1) = {} <=> Len(o) < p + 2 * m + 1
         /\ p + 2 * m + 1 <= Len(o) => Min(Blanks(o, p + 1)) = p + 2 * m
<1> DEFINE B == Blanks(o, p + 1)
           d == Len(o)
<1> USE DEF Begins
<1>1. B = {j \in p + 1 .. d - 1 : o[j] = Crlf /\ o[j + 1] = Crlf}
  BY DEF Blanks
<1>2. Begins(o, p, d, m, h)
  OBVIOUS
<1> HIDE DEF B, d
<1>3. ASSUME NEW i \in B PROVE i >= p + 2 * m /\ i \in Nat /\ i + 1 <= d
  <2>1. i \in p + 1 .. d - 1 /\ o[i] = Crlf /\ o[i + 1] = Crlf
    BY <1>2, <1>1
  <2> SUFFICES ASSUME i < p + 2 * m PROVE FALSE
    BY <1>2, <2>1
  <2>2. PICK j \in 1 .. m : i = p + (2 * j - 1) \/ i = p + 2 * j
    <3> DEFINE k == i - p
    <3>1. k \in 1 .. 2 * m - 1 /\ i = p + k
      BY <1>2, <2>1
    <3> HIDE DEF k
    <3>2. (k + 1) \div 2 \in 1 .. m /\ (k = 2 * ((k + 1) \div 2) - 1 \/ k = 2 * ((k + 1) \div 2))
      BY <1>2, <3>1
    <3>3. QED
      BY <1>2, <3>1, <3>2
  <2>3. CASE i = p + (2 * j - 1)
    <3>1. o[i] = h[j]
      BY <1>2, <2>1, <2>3
    <3>2. QED
      BY <1>2, <2>1, <3>1
  <2>4. CASE i = p + 2 * j
    <3>1. j + 1 \in 1 .. m /\ p + (2 * (j + 1) - 1) = i + 1 /\ i + 1 <= d
      BY <1>2, <2>1, <2>4
    <3>2. o[i + 1] = h[j + 1]
      BY <1>2, <3>1
    <3>3. QED
      BY <1>2, <2>1, <3>1, <3>2
  <2>5. QED
    BY <1>2, <2>2, <2>3, <2>4
<1>4. ASSUME p + 2 * m + 1 <= d PROVE p + 2 * m \in B
  <2>1. m \in 1 .. m /\ p + 2 * m <= d /\ p + 2 * m \in p + 1 .. d - 1
        /\ (p + 2 * m) + 1 = p + (2 * m + 1) /\ p + (2 * m + 1) <= d
    BY <1>2, <1>4
  <2>2. o[p + 2 * m] = Crlf /\ o[(p + 2 * m) + 1] = Crlf
    BY <1>2, <2>1
  <2>3. QED
    BY <1>2, <1>1, <2>1, <2>2
<1>5. B = {} <=> d < p + 2 * m + 1
  <2>1. ASSUME B # {} PROVE ~(d < p + 2 * m + 1)
    <3>1. PICK i : i \in B
      BY <1>2, <2>1
    <3>2. i >= p + 2 * m /\ i \in Nat /\ i + 1 <= d
      BY <1>2, <1>3, <3>1
    <3>3. QED
      BY <1>2, <3>2
  <2>2. ASSUME ~(d < p + 2 * m + 1) PROVE B # {}
    BY <1>2, <1>4, <2>2
  <2>3. QED
    BY <1>2, <2>1, <2>2
<1>6. ASSUME p + 2 * m + 1 <= d PROVE Min(B) = p + 2 * m
  <2>1. B \in SUBSET Nat /\ p + 2 * m \in B /\ \A i \in B : p + 2 * m <= i
    BY <1>2, <1>3, <1>4, <1>6
  <2>2. QED
    BY <1>2, <2>1, MinIs
<1>7. QED
  BY <1>5, <1>6 DEF B, d

\* All of a head, and the k-th of its lines, which alone has the name.
NamedIn(o, p, m, h, name, k) ==
    /\ m \in Nat /\ m >= 3 /\ k \in 1 .. m
    /\ Min(Blanks(o, p + 1)) = p + 2 * m
    /\ \A j \in 1 .. m : o[p + (2 * j - 1)] = h[j] /\ o[p + 2 * j] = Crlf
    /\ \A j \in 1 .. m : h[j].kind = "header" /\ h[j].name = name <=> j = k

\* Where that line is.
LEMMA LineIs ==
  ASSUME NEW o, NEW p \in Nat, NEW m, NEW h, NEW name, NEW k, NamedIn(o, p, m, h, name, k)
  PROVE  LineAt(o, p + 1, name) = p + (2 * k - 1)
<1> USE DEF NamedIn
<1> DEFINE S == {j \in p + 1 .. p + 2 * m : o[j].kind = "header" /\ o[j].name = name}
<1>1. LineAt(o, p + 1, name) = Min(S)
  BY DEF LineAt
<1>2. p + (2 * k - 1) \in S
  <2>1. p + (2 * k - 1) \in p + 1 .. p + 2 * m /\ o[p + (2 * k - 1)] = h[k]
    OBVIOUS
  <2>2. h[k].kind = "header" /\ h[k].name = name
    OBVIOUS
  <2>3. QED
    BY <2>1, <2>2
<1>3. ASSUME NEW i \in S PROVE i = p + (2 * k - 1)
  <2>1. i \in p + 1 .. p + 2 * m /\ o[i].kind = "header" /\ o[i].name = name
    OBVIOUS
  <2>2. PICK j \in 1 .. m : i = p + (2 * j - 1) \/ i = p + 2 * j
    <3> DEFINE n == i - p
    <3>1. n \in 1 .. 2 * m /\ i = p + n
      BY <2>1
    <3> HIDE DEF n
    <3>2. (n + 1) \div 2 \in 1 .. m /\ (n = 2 * ((n + 1) \div 2) - 1 \/ n = 2 * ((n + 1) \div 2))
      BY <3>1
    <3>3. QED
      BY <3>1, <3>2
  <2>3. CASE i = p + 2 * j
    <3>1. o[i] = Crlf
      BY <2>3
    <3>2. Crlf.kind # "header"
      BY DEF Crlf
    <3>3. QED
      BY <2>1, <3>1, <3>2
  <2>4. CASE i = p + (2 * j - 1)
    <3>1. o[i] = h[j]
      BY <2>4
    <3>2. j = k
      BY <2>1, <3>1
    <3>3. QED
      BY <2>4, <3>2
  <2>5. QED
    BY <2>2, <2>3, <2>4
<1>4. S \in SUBSET Nat
  OBVIOUS
<1> HIDE DEF S
<1>5. Min(S) = p + (2 * k - 1)
  <2> DEFINE e == p + (2 * k - 1)
  <2>1. e \in S /\ e \in Nat /\ \A i \in S : i = e
    BY <1>2, <1>3
  <2> HIDE DEF e
  <2>2. \A i \in S : e <= i
    BY <2>1
  <2>3. Min(S) = e
    BY <1>4, <2>1, <2>2, MinIs
  <2>4. QED
    BY <2>3 DEF e
<1>6. QED
  BY <1>1, <1>5

\* Where bytes go on like a response, the client finds it, once all of it has come.
LEMMA DecodeIs ==
  ASSUME NEW o, IsSeq(o), NEW p \in Nat, NEW resp, Sendable(resp), NEW alive \in BOOLEAN,
         Agrees(o, p, Serialize(resp, alive))
  PROVE  /\ Whole(o, p + 1) <=> p + Len(Serialize(resp, alive)) <= Len(o)
         /\ Whole(o, p + 1) => /\ LastOf(o, p + 1) = p + Len(Serialize(resp, alive))
                               /\ ReplyAt(o, p + 1) = View(resp, alive)
<1> DEFINE s == Serialize(resp, alive)
           h == HeadFor(resp, alive)
           n == Len(resp.headers)
           m == n + 3
           b == resp.body
           L == Len(b)
           d == Len(o)
           q == p + 1
<1>1. /\ L \in Nat /\ n \in Nat
      /\ Len(s) = 2 * m + 1 + L
      /\ \A j \in 1 .. m : s[2 * j - 1] = h[j] /\ s[2 * j] = Crlf
      /\ s[2 * m + 1] = Crlf
      /\ \A j \in 1 .. L : s[2 * m + 1 + j] = b[j]
  <2>1. Laid(s, m, h, b) /\ n \in Nat
    BY SerializedIs, HeadIs
  <2> HIDE DEF s, m, h, b
  <2>2. QED
    BY <2>1 DEF Laid
<1>2. \A j \in 1 .. m : /\ h[j] # Crlf
                        /\ h[j].kind = "header" /\ h[j].name = "content-length" <=> j = m - 1
                        /\ h[j].kind = "header" /\ h[j].name = "connection" <=> j = m
  BY HeadSays
<1>3. /\ h[1] = Status(resp.status) /\ h[m - 1] = LengthIs(L) /\ h[m] = SaysConnection(alive)
      /\ \A k \in 1 .. n : h[k + 1] = resp.headers[k]
  BY HeadIs
<1>4. d \in Nat
  BY LenProperties DEF IsSeq
<1>5. \A j \in 1 .. Len(s) : p + j <= d => o[p + j] = s[j]
  BY DEF Agrees
<1> HIDE DEF s, h, n, b, L, d
<1>6. \A j \in 1 .. m : /\ p + (2 * j - 1) <= d => o[p + (2 * j - 1)] = h[j]
                        /\ p + 2 * j <= d => o[p + 2 * j] = Crlf
  <2>1. \A j \in 1 .. m : 2 * j - 1 \in 1 .. Len(s) /\ 2 * j \in 1 .. Len(s)
    BY <1>1
  <2>2. QED
    BY <1>1, <1>5, <2>1
<1>7. p + (2 * m + 1) <= d => o[p + (2 * m + 1)] = Crlf
  <2>1. 2 * m + 1 \in 1 .. Len(s)
    BY <1>1
  <2>2. QED
    BY <1>1, <1>5, <2>1
<1>8. m \in Nat /\ m >= 3
  BY <1>1
<1> HIDE DEF m
<1>9. /\ Blanks(o, p + 1) = {} <=> d < p + 2 * m + 1
      /\ p + 2 * m + 1 <= d => Min(Blanks(o, p + 1)) = p + 2 * m
  <2>1. Begins(o, p, d, m, h)
    BY <1>2, <1>4, <1>6, <1>7, <1>8 DEF Begins
  <2>2. QED
    BY <2>1, BlankIs DEF d
<1>10. CASE d < p + 2 * m + 1
  <2>1. ~Whole(o, q)
    BY <1>9, <1>10 DEF Whole
  <2>2. ~(p + Len(s) <= d)
    BY <1>1, <1>4, <1>8, <1>10
  <2>3. QED
    BY <2>1, <2>2 DEF s, d
<1>11. CASE ~(d < p + 2 * m + 1)
  <2>1. p + 2 * m + 1 <= d /\ Min(Blanks(o, q)) = p + 2 * m /\ Blanks(o, q) # {}
    BY <1>4, <1>8, <1>9, <1>11
  <2>2. \A j \in 1 .. m : o[p + (2 * j - 1)] = h[j] /\ o[p + 2 * j] = Crlf
    <3>1. \A j \in 1 .. m : p + (2 * j - 1) <= d /\ p + 2 * j <= d
      BY <1>4, <1>8, <2>1
    <3>2. QED
      BY <1>6, <3>1
  <2>3. LineAt(o, q, "content-length") = p + (2 * (m - 1) - 1)
    <3> DEFINE name == "content-length"
               k == m - 1
    <3>1. k \in 1 .. m /\ \A j \in 1 .. m : h[j].kind = "header" /\ h[j].name = name <=> j = k
      BY <1>2, <1>8
    <3> HIDE DEF name, k
    <3>2. NamedIn(o, p, m, h, name, k)
      BY <1>8, <2>1, <2>2, <3>1 DEF NamedIn
    <3>3. LineAt(o, p + 1, name) = p + (2 * k - 1)
      BY <3>2, LineIs
    <3>4. QED
      BY <3>3 DEF name, k
  <2>4. LineAt(o, q, "connection") = p + (2 * m - 1)
    <3> DEFINE name == "connection"
    <3>1. m \in 1 .. m /\ \A j \in 1 .. m : h[j].kind = "header" /\ h[j].name = name <=> j = m
      BY <1>2, <1>8
    <3> HIDE DEF name
    <3>2. NamedIn(o, p, m, h, name, m)
      BY <1>8, <2>1, <2>2, <3>1 DEF NamedIn
    <3>3. LineAt(o, p + 1, name) = p + (2 * m - 1)
      BY <3>2, LineIs
    <3>4. QED
      BY <3>3 DEF name
  <2> DEFINE size == p + (2 * (m - 1) - 1)
             conn == p + (2 * m - 1)
  <2>5. o[size] = LengthIs(L) /\ o[conn] = SaysConnection(alive) /\ o[q] = Status(resp.status)
    <3>1. m - 1 \in 1 .. m /\ m \in 1 .. m /\ 1 \in 1 .. m /\ q = p + (2 * 1 - 1)
      BY <1>8
    <3>2. QED
      BY <1>3, <2>2, <3>1
  <2>6. o[size].n = L
    <3> HIDE DEF size, conn, q
    <3>1. LengthIs(L).n = L
      BY DEF LengthIs, Header
    <3>2. QED
      BY <2>5, <3>1
  <2>7. LastOf(o, q) = p + Len(s)
    <3>1. LastOf(o, q) = Min(Blanks(o, q)) + 1 + o[LineAt(o, q, "content-length")].n
      BY DEF LastOf
    <3>2. LastOf(o, q) = (p + 2 * m) + 1 + L
      <4> HIDE DEF q
      <4>1. QED
        BY <2>1, <2>3, <2>6, <3>1
    <3>3. QED
      BY <1>1, <1>8, <3>2
  <2>8. Whole(o, q) <=> p + Len(s) <= d
    BY <2>1, <2>7 DEF Whole, d
  <2>9. ASSUME p + Len(s) <= d PROVE ReplyAt(o, q) = View(resp, alive)
    <3> DEFINE status == IF o[q].kind = "status" THEN o[q].code ELSE 0
               S == LineAt(o, q, "content-length")
               C == LineAt(o, q, "connection")
               headers == [k \in 1 .. (Min({S, C}) - q) \div 2 - 1 |-> o[q + 2 * k]]
               says == o[C].word # "close"
               body == SubSeq(o, Min(Blanks(o, q)) + 2, LastOf(o, q))
    <3>1. ReplyAt(o, q) = [status |-> status, headers |-> headers, alive |-> says, body |-> body]
      BY DEF ReplyAt
    <3>2. status = resp.status
      BY <2>5 DEF Status
    <3>3. says = alive
      <4>1. SaysConnection(alive).word = IF alive THEN "keep-alive" ELSE "close"
        BY DEF SaysConnection, Connection, Header
      <4>2. o[C].word = IF alive THEN "keep-alive" ELSE "close"
        BY <2>4, <2>5, <4>1
      <4>3. "keep-alive" # "close"
        OBVIOUS
      <4> HIDE DEF C
      <4>4. QED
        BY <4>2, <4>3
    <3>4. headers = resp.headers
      <4>1. Min({S, C}) = size
        <5>1. {S, C} \in SUBSET Nat /\ size \in {S, C} /\ \A x \in {S, C} : size <= x
          BY <1>8, <2>3, <2>4
        <5> HIDE DEF S, C, size
        <5>2. QED
          BY <5>1, MinIs
      <4>2. (size - q) \div 2 - 1 = n
        BY <1>1, <1>8 DEF m
      <4>3. headers = [k \in 1 .. n |-> o[q + 2 * k]]
        <5> HIDE DEF S, C, size, q
        <5>1. QED
          BY <4>1, <4>2
      <4>4. ASSUME NEW k \in 1 .. n PROVE o[q + 2 * k] = resp.headers[k]
        <5>1. k + 1 \in 1 .. m /\ q + 2 * k = p + (2 * (k + 1) - 1)
          BY <1>1 DEF m
        <5>2. QED
          BY <1>3, <2>2, <5>1
      <4>5. resp.headers = [k \in 1 .. n |-> resp.headers[k]]
        <5> DEFINE t == resp.headers
        <5>1. PICK U : t \in Seq(U)
          BY DEF Sendable, IsSeq
        <5> HIDE DEF t
        <5>2. t = [k \in 1 .. Len(t) |-> t[k]]
          BY <5>1, LenProperties
        <5>3. QED
          BY <5>2 DEF t, n
      <4> HIDE DEF headers, q
      <4>6. QED
        BY <4>3, <4>4, <4>5
    <3>5. body = b
      <4> DEFINE z == p + (2 * m + 1)
      <4>1. /\ \A j \in 1 .. L : o[z + j] = b[j]
        <5>1. ASSUME NEW j \in 1 .. L PROVE o[z + j] = b[j]
          <6>1. 2 * m + 1 + j \in 1 .. Len(s) /\ p + (2 * m + 1 + j) <= d /\ z + j = p + (2 * m + 1 + j)
            BY <1>1, <1>4, <1>8, <2>9
          <6>2. QED
            BY <1>1, <1>5, <6>1
        <5>2. QED
          BY <5>1
      <4>2. z \in Nat /\ z + 1 = (p + 2 * m) + 2 /\ z + L = p + Len(s)
        BY <1>1, <1>8
      <4>3. body = SubSeq(o, z + 1, z + L)
        <5> HIDE DEF z, q
        <5>1. QED
          BY <2>1, <2>7, <4>2
      <4>4. PICK U : b \in Seq(U)
        BY DEF Sendable, IsSeq, b
      <4> HIDE DEF z
      <4>5. SubSeq(o, z + 1, z + L) = b
        BY <4>1, <4>2, <4>4, PartIs DEF L
      <4>6. QED
        BY <4>3, <4>5
    <3> HIDE DEF status, headers, says, body
    <3>6. QED
      BY <3>1, <3>2, <3>3, <3>4, <3>5 DEF View, b
  <2>10. QED
    BY <2>7, <2>8, <2>9 DEF s, d
<1>12. QED
  BY <1>10, <1>11

-----------------------------------------------------------------------------
(* The responses in what a client received                                 *)

\* A response with what its Connection header says, and its bytes.
Viewed(x) == Sendable(x) /\ x.alive \in BOOLEAN /\ x = View(x, x.alive)
Sent(x) == Serialize(x, x.alive)

\* The bytes o begin with the responses rs; c[k] is where the k-th of them ends.
Found(o, rs, c) ==
    /\ IsSeq(o) /\ IsSeq(rs)
    /\ c[0] = 0
    /\ \A k \in 0 .. Len(rs) : c[k] \in Nat /\ c[k] <= Len(o)
    /\ \A k \in 1 .. Len(rs) :
         /\ Viewed(rs[k])
         /\ c[k] = c[k - 1] + Len(Sent(rs[k]))
         /\ Agrees(o, c[k - 1], Sent(rs[k]))

\* And go on like a response that has not come to its end.
Unfinished(o, p) ==
    \E resp, alive : /\ Sendable(resp) /\ alive \in BOOLEAN
                     /\ Agrees(o, p, Serialize(resp, alive))
                     /\ Len(o) < p + Len(Serialize(resp, alive))

\* Then those responses are what the client finds.
LEMMA RepliesAre ==
  ASSUME NEW o, NEW rs, NEW c, Found(o, rs, c), Unfinished(o, c[Len(rs)]),
         NEW most \in Nat, Len(rs) <= most
  PROVE  RepliesIn(o, most) = rs
<1> DEFINE n == Len(rs)
           d == Len(o)
           after == [i \in 1 .. d + 1 |-> IF Whole(o, i) THEN LastOf(o, i) + 1 ELSE i]
           step == [k \in 1 .. most |-> after]
           g(h) == [k \in 0 .. most |-> IF k = 0 THEN 1 ELSE after[h[k - 1]]]
           starts == CHOOSE h : h = g(h)
           at(k) == (IF k <= n THEN c[k] ELSE c[n]) + 1
<1>1. n \in Nat /\ d \in Nat
  BY LenProperties DEF Found, IsSeq
<1>2. /\ c[0] = 0
      /\ \A k \in 0 .. n : c[k] \in Nat /\ c[k] <= d
  BY DEF Found
<1>3. ASSUME NEW k \in 1 .. n
      PROVE  /\ Whole(o, c[k - 1] + 1) /\ LastOf(o, c[k - 1] + 1) = c[k]
             /\ ReplyAt(o, c[k - 1] + 1) = rs[k]
  <2> DEFINE p == c[k - 1]
             x == rs[k]
             s == Sent(x)
  <2>1. k - 1 \in 0 .. n /\ k \in 0 .. n
    BY <1>1
  <2>2. p \in Nat /\ c[k] = p + Len(s) /\ p + Len(s) <= d
    BY <1>2, <2>1 DEF Found
  <2>3. Viewed(x) /\ Agrees(o, p, s) /\ IsSeq(o)
    BY DEF Found
  <2>4. Sendable(x) /\ x.alive \in BOOLEAN /\ x = View(x, x.alive) /\ s = Serialize(x, x.alive)
    BY <2>3 DEF Viewed, Sent
  <2> HIDE DEF p, x, s, d
  <2>5. /\ Whole(o, p + 1) <=> p + Len(s) <= Len(o)
        /\ Whole(o, p + 1) => LastOf(o, p + 1) = p + Len(s) /\ ReplyAt(o, p + 1) = View(x, x.alive)
    <3> DEFINE alive == x.alive
    <3>1. alive \in BOOLEAN /\ s = Serialize(x, alive) /\ Agrees(o, p, Serialize(x, alive))
      BY <2>3, <2>4
    <3> HIDE DEF alive
    <3>2. /\ Whole(o, p + 1) <=> p + Len(Serialize(x, alive)) <= Len(o)
          /\ Whole(o, p + 1) => /\ LastOf(o, p + 1) = p + Len(Serialize(x, alive))
                                /\ ReplyAt(o, p + 1) = View(x, alive)
      BY <2>2, <2>3, <2>4, <3>1, DecodeIs
    <3>3. QED
      BY <3>1, <3>2 DEF alive
  <2>6. QED
    BY <2>2, <2>4, <2>5 DEF p, x, d
<1>4. ~Whole(o, c[n] + 1)
  <2>1. PICK resp, alive : /\ Sendable(resp) /\ alive \in BOOLEAN
                           /\ Agrees(o, c[n], Serialize(resp, alive))
                           /\ Len(o) < c[n] + Len(Serialize(resp, alive))
    BY DEF Unfinished
  <2> DEFINE p == c[n]
             l == Len(Serialize(resp, alive))
  <2>2. p \in Nat /\ IsSeq(o) /\ Agrees(o, p, Serialize(resp, alive))
    BY <1>1, <1>2, <2>1 DEF Found
  <2>3. IsSeq(Serialize(resp, alive))
    BY <2>1, SerializedIs DEF Laid
  <2>4. l \in Nat
    BY <2>3, LenProperties DEF IsSeq
  <2> HIDE DEF p
  <2>5. Whole(o, p + 1) <=> p + l <= d
    BY <2>1, <2>2, DecodeIs
  <2> HIDE DEF l, d
  <2>6. d < p + l
    BY <2>1 DEF p, l, d
  <2>7. QED
    BY <1>1, <2>2, <2>4, <2>5, <2>6 DEF p
<1> HIDE DEF n, d
<1>5. \A k \in 1 .. most : after[at(k - 1)] = at(k)
  <2>1. ASSUME NEW k \in 1 .. most, k <= n PROVE after[at(k - 1)] = at(k)
    <3>1. k \in 1 .. n /\ k - 1 \in 0 .. n /\ k - 1 <= n
      BY <1>1, <2>1
    <3>2. c[k - 1] + 1 \in 1 .. d + 1
      BY <1>1, <1>2, <3>1
    <3>3. after[c[k - 1] + 1] = c[k] + 1
      BY <1>3, <3>1, <3>2
    <3> HIDE DEF after
    <3>4. QED
      BY <2>1, <3>1, <3>3
  <2>2. ASSUME NEW k \in 1 .. most, ~(k <= n) PROVE after[at(k - 1)] = at(k)
    <3>1. at(k - 1) = c[n] + 1 /\ at(k) = c[n] + 1
      BY <1>1, <2>2
    <3>2. c[n] + 1 \in 1 .. d + 1
      BY <1>1, <1>2
    <3> HIDE DEF at
    <3>3. after[c[n] + 1] = c[n] + 1
      BY <1>4, <3>2
    <3> HIDE DEF after
    <3>4. QED
      BY <3>1, <3>3
  <2>3. QED
    BY <2>1, <2>2
<1> HIDE DEF after
<1>6. starts = g(starts)
  <2>1. PICK f : Steps(most, 1, step, f)
    BY StepsExist
  <2>2. f = [k \in 0 .. most |-> f[k]] /\ f[0] = 1 /\ \A k \in 1 .. most : f[k] = step[k][f[k - 1]]
    BY <2>1 DEF Steps
  <2>3. \A k \in 0 .. most : f[k] = IF k = 0 THEN 1 ELSE after[f[k - 1]]
    BY <2>2
  <2>4. f = g(f)
    BY <2>2, <2>3
  <2> HIDE DEF g
  <2>5. QED
    BY <2>4
<1> HIDE DEF starts
<1>7. \A k \in 0 .. most : starts[k] = IF k = 0 THEN 1 ELSE after[starts[k - 1]]
  BY <1>6, Zenon
<1> HIDE DEF g
<1> DEFINE G == {k \in 0 .. most : starts[k] = at(k)}
<1>8. 0 \in G
  <2>1. 0 \in 0 .. most /\ at(0) = 1
    BY <1>1, <1>2
  <2> HIDE DEF at
  <2>2. QED
    BY <1>7, <2>1
<1>9. ASSUME NEW k \in 1 .. most, k - 1 \in G PROVE k \in G
  <2> HIDE DEF at
  <2>1. k \in 0 .. most /\ k # 0
    OBVIOUS
  <2>2. starts[k - 1] = at(k - 1)
    BY <1>9
  <2>3. QED
    BY <1>5, <1>7, <2>1, <2>2
<1> HIDE DEF G
<1>10. \A k \in 0 .. most : k \in G
  BY <1>8, <1>9, UpTo
<1>11. \A k \in 0 .. most : starts[k] = at(k)
  BY <1>10 DEF G
<1>12. \A k \in 1 .. most : starts[k - 1] = at(k - 1)
  <2> HIDE DEF at
  <2>1. \A k \in 1 .. most : k - 1 \in 0 .. most
    OBVIOUS
  <2>2. QED
    BY <1>11, <2>1
<1> DEFINE D == {j \in 1 .. most : Whole(o, starts[j - 1])}
<1>13. RepliesIn(o, most) = [k \in D |-> ReplyAt(o, starts[k - 1])]
  BY DEF RepliesIn, after, starts, g, d
<1>14. \A k \in 1 .. n : k \in 1 .. most /\ at(k - 1) = c[k - 1] + 1
  BY <1>1 DEF n
<1>15. \A k \in 1 .. most : ~(k \in 1 .. n) => at(k - 1) = c[n] + 1
  BY <1>1
<1> HIDE DEF at
<1>16. D = 1 .. n
  <2>1. \A k \in 1 .. n : k \in D
    BY <1>3, <1>12, <1>14
  <2>2. \A k \in D : k \in 1 .. n
    BY <1>4, <1>12, <1>15
  <2>3. \A k \in D : k \in 1 .. most
    OBVIOUS
  <2> HIDE DEF D
  <2>4. QED
    BY <2>1, <2>2
<1>17. \A k \in 1 .. n : ReplyAt(o, starts[k - 1]) = rs[k]
  BY <1>3, <1>12, <1>14
<1>18. rs = [k \in 1 .. n |-> rs[k]]
  BY LenProperties DEF Found, IsSeq, n
<1> HIDE DEF D
<1>19. QED
  BY <1>13, <1>16, <1>17, <1>18

-----------------------------------------------------------------------------
(* What js_http_process sends                                              *)

\* The response and what its Connection header says, as the request wants them.
Good(resp, alive, r) == ~Unfit(r) => alive = ~AsksClose(r) /\ View(resp, alive) = Reply(r)

\* Whatever the request, the response can be sent.
LEMMA HandleSends ==
  ASSUME NEW req, IsSeq(req.body)
  PROVE  Sendable(HandleRequest(req))
<1> DEFINE i == RouteMatch(Routes, req.method, req.path)
           method == MethodStr(req.method)
           params == ParamsObject(Params(Routes[i], req.path))
           accept == HeadersGet(req.headers, "accept")
           e == Echo(i, method, params, accept, req.body)
           resp == HandleRequest(req)
<1>1. IsSeq(resp.body) /\ IsSeq(resp.headers)
  BY HandleIs DEF Response
<1>2. resp = IF i = 0 THEN NotFound ELSE IF Mocks[i].throws THEN InternalServerError ELSE e
  BY DEF HandleRequest
<1>3. NotFound.headers = <<>> /\ InternalServerError.headers = <<>>
  BY DEF NotFound, InternalServerError, Plain
<1> HIDE DEF i, method, params, accept
<1>4. e.headers = <<Header("route", "", i)>>
  BY DEF Echo
<1> HIDE DEF e, resp
<1>5. resp.headers = <<>> \/ resp.headers = <<Header("route", "", i)>>
  BY <1>2, <1>3, <1>4
<1>6. ASSUME NEW k \in 1 .. Len(resp.headers) PROVE \E x : resp.headers[k] = Header("route", "", x)
  <2>1. CASE resp.headers = <<>>
    <3>1. Len(resp.headers) = 0
      BY <2>1, EmptySeq
    <3>2. FALSE
      BY <3>1
    <3>3. QED
      BY <3>2
  <2>2. CASE resp.headers = <<Header("route", "", i)>>
    <3> DEFINE x == Header("route", "", i)
    <3>1. Len(<<x>>) = 1 /\ <<x>>[1] = x
      OBVIOUS
    <3> HIDE DEF x
    <3>2. resp.headers = <<x>>
      BY <2>2 DEF x
    <3>3. k = 1
      BY <3>1, <3>2
    <3>4. resp.headers[k] = x
      BY <3>1, <3>2, <3>3
    <3>5. QED
      BY <3>4 DEF x
  <2>3. QED
    BY <1>5, <2>1, <2>2
<1>7. QED
  BY <1>1, <1>6 DEF Sendable, resp

\* A response that says nothing is none the less one.
LEMMA NotFoundSends == Sendable(NotFound)
<1> DEFINE body == <<Byte("Not Found")>>
           none == <<>>
<1>1. IsSeq(body) /\ IsSeq(none) /\ Len(none) = 0
  BY ShortIsSeq, EmptySeq
<1>2. NotFound = [status |-> 404, headers |-> none, body |-> body]
  BY DEF NotFound, Plain
<1> HIDE DEF body, none
<1>3. NotFound.headers = none /\ NotFound.body = body
  BY <1>2
<1>4. ASSUME NEW k \in 1 .. Len(none) PROVE \E e : none[k] = Header("route", "", e)
  <2>1. FALSE
    BY <1>1
  <2>2. QED
    BY <2>1
<1>5. QED
  BY <1>1, <1>3, <1>4 DEF Sendable

\* What the code makes of a request it has taken is as the request wants it.
LEMMA TakenIs ==
  ASSUME PlainRequests,
         NEW r \in Request, NEW data \in Seq(Token), NEW more \in Seq(Token), NEW rest \in Seq(Token),
         data \o more = Wire(r) \o rest, Parse(data).rc = 1
  PROVE  /\ Sendable(HandleRequest(Parse(data)))
         /\ Good(HandleRequest(Parse(data)), KeepAlive(Parse(data).headers), r)
         /\ KeepAlive(Parse(data).headers) \in BOOLEAN
<1> DEFINE req == Parse(data)
           alive == KeepAlive(req.headers)
<1>1. IsSeq(req.body)
  BY ParseIs
<1> HIDE DEF req
<1>2. Sendable(HandleRequest(req))
  BY <1>1, HandleSends
<1>3. alive \in BOOLEAN
  BY Zenon DEF KeepAlive
<1>4. ASSUME ~Unfit(r) PROVE alive = ~AsksClose(r) /\ View(HandleRequest(req), alive) = Reply(r)
  <2>1. Fit(r)
    BY <1>4 DEF Fit
  <2>2. /\ req.method = MethodFromStr(r.method) /\ req.path = r.path
        /\ req.headers = HeaderLines(HeadLines(r), 1) /\ req.body = r.body
    BY <2>1, ParseFits DEF req
  <2>3. alive = ~AsksClose(r) /\ View(HandleRequest(req), ~AsksClose(r)) = Reply(r)
    BY <2>1, <2>2, AnswerIs
  <2> HIDE DEF alive
  <2>4. QED
    BY <2>3
<1>5. Good(HandleRequest(req), alive, r)
  BY <1>4 DEF Good
<1>6. QED
  BY <1>2, <1>3, <1>5 DEF req

\* What js_http_process does with nothing left to be written: it gives up on a request
\* that is none, waits for more, or makes a response of the next request.
Goes(b) ==
    \/ /\ state' = "closed" /\ taken' = taken
       /\ taken + 1 \in 1 .. Len(asked) /\ Unfit(asked[taken + 1])
    \/ /\ state' = "reading" /\ taken' = taken /\ wbuf' = b
    \/ /\ taken' = taken + 1 /\ taken' \in 1 .. Len(asked)
       /\ \E resp : /\ Sendable(resp) /\ Good(resp, keep', asked[taken'])
                    /\ \/ state' = "writing" /\ wbuf'.data = Serialize(resp, keep')
                       \/ state' = "pending" /\ wbuf' = b /\ deferred' = resp

\* It does nothing else: the input is at the first byte of the next request.
LEMMA ProcessGoes ==
  ASSUME PlainRequests, asked \in Seq(Request), taken \in 0 .. Len(asked),
         NEW in, in.data \in Seq(Token), NEW b, Buffer(b), b.data = <<>>, net' \in Seq(Token),
         in.data \o net' = FlattenSeq(Behind(asked, taken)),
         Process(in, b)
  PROVE  Goes(b)
<1> DEFINE req == Parse(in.data)
           data == in.data
           r == asked[taken + 1]
           rest == FlattenSeq(Behind(asked, taken + 1))
           w == Wire(r)
<1>1. ASSUME req.rc # 0
      PROVE  /\ taken + 1 \in 1 .. Len(asked) /\ r \in Request
             /\ data \o net' = w \o rest /\ rest \in Seq(Token)
  <2>1. taken # Len(asked)
    <3> SUFFICES ASSUME taken = Len(asked) PROVE FALSE
      OBVIOUS
    <3>1. data \o net' = <<>>
      BY BehindAre
    <3>2. data = <<>>
      BY <3>1, ConcatEqualIffEmpty
    <3>3. QED
      BY <1>1, <3>2, ParseNothing
  <2>2. taken + 1 \in 0 .. Len(asked) /\ taken < Len(asked) /\ r \in Request /\ taken + 1 \in 1 .. Len(asked)
    <3>1. taken \in Nat /\ Len(asked) \in Nat /\ taken < Len(asked)
      BY <2>1, LenProperties
    <3>2. taken + 1 \in 1 .. Len(asked)
      BY <3>1
    <3>3. QED
      BY <3>1, <3>2, ElementOfSeq
  <2>3. FlattenSeq(Behind(asked, taken)) = w \o rest
    BY <2>2, BehindAre
  <2>4. rest \in Seq(Token)
    BY <2>2, BehindAre
  <2>5. QED
    BY <2>2, <2>3, <2>4
<1> HIDE DEF rest, w, r
<1>2. CASE req.rc = -1 /\ Close
  <2>1. taken + 1 \in 1 .. Len(asked) /\ r \in Request /\ data \o net' = Wire(r) \o rest /\ rest \in Seq(Token)
    <3> HIDE DEF req, data
    <3>1. req.rc # 0
      BY <1>2
    <3>2. taken + 1 \in 1 .. Len(asked) /\ r \in Request
      BY <1>1, <3>1
    <3>3. data \o net' = w \o rest /\ rest \in Seq(Token)
      BY <1>1, <3>1
    <3>4. QED
      BY <3>2, <3>3 DEF w
  <2>2. Unfit(r)
    <3> SUFFICES ASSUME ~Unfit(r) PROVE FALSE
      OBVIOUS
    <3>1. Fit(r)
      BY <2>1 DEF Fit
    <3>2. req.rc # -1
      <4>1. data \in Seq(Token) /\ Fit(r) /\ data \o net' = Wire(r) \o rest /\ rest \in Seq(Token)
        BY <2>1, <3>1
      <4> HIDE DEF data
      <4>2. Parse(data).rc # -1
        BY <4>1, ParseFits
      <4>3. QED
        BY <4>2 DEF data
    <3> HIDE DEF req
    <3>3. QED
      BY <1>2, <3>2
  <2>3. state' = "closed" /\ taken' = taken
    BY <1>2 DEF Close
  <2>4. QED
    BY <2>1, <2>2, <2>3 DEF Goes, r
<1>3. CASE req.rc = 0 /\ state' = "reading" /\ wbuf' = b /\ taken' = taken
  BY <1>3 DEF Goes
<1>4. CASE /\ req.rc = 1
           /\ keep' = KeepAlive(req.headers)
           /\ taken' = taken + 1
           /\ \/ Respond(b, HandleRequest(req), keep')
              \/ /\ state' = "pending"
                 /\ deferred' = HandleRequest(req)
                 /\ wbuf' = b
  <2> DEFINE resp == HandleRequest(req)
  <2>1. taken + 1 \in 1 .. Len(asked) /\ r \in Request /\ data \o net' = Wire(r) \o rest /\ rest \in Seq(Token)
    BY <1>1, <1>4 DEF w
  <2>2. req.rc = 1
    BY <1>4
  <2>3. Sendable(resp) /\ Good(resp, KeepAlive(req.headers), r)
    BY <2>1, <2>2, TakenIs
  <2> HIDE DEF req, resp
  <2>4. Sendable(resp) /\ Good(resp, keep', asked[taken']) /\ taken' \in 1 .. Len(asked)
    BY <1>4, <2>1, <2>3 DEF r
  <2>5. ASSUME Respond(b, resp, keep') PROVE state' = "writing" /\ wbuf'.data = Serialize(resp, keep')
    <3> DEFINE s == Serialize(resp, keep')
    <3>1. IsSeq(s)
      <4> DEFINE alive == keep'
      <4>1. IsSeq(Serialize(resp, alive))
        <5> HIDE DEF alive
        <5>1. QED
          BY <2>3, SerializedIs DEF Laid
      <4>2. QED
        BY <4>1
    <3>2. wbuf' = BufAppend(b, s) /\ state' = "writing"
      BY <2>5 DEF Respond
    <3> HIDE DEF s
    <3>3. wbuf'.data = b.data \o s
      BY <3>1, <3>2, BufAppendIs
    <3>4. b.data \o s = s
      BY <3>1, ConcatEmptySeq DEF IsSeq
    <3>5. QED
      BY <3>2, <3>3, <3>4 DEF s
  <2>6. \/ state' = "writing" /\ wbuf'.data = Serialize(resp, keep')
        \/ state' = "pending" /\ wbuf' = b /\ deferred' = resp
    BY <1>4, <2>5 DEF resp
  <2>7. QED
    BY <1>4, <2>4, <2>6 DEF Goes
<1>5. QED
  BY <1>2, <1>3, <1>4 DEF Process

-----------------------------------------------------------------------------
(* What the client has received, at any time                               *)

\* After n responses of p bytes: what the client has of the next one, and what the server
\* holds of it.
Going(n, p) ==
    /\ n \in Nat /\ n <= taken /\ p \in Nat
    /\ Unfinished(out, p)
    /\ state = "reading" => n = taken /\ Len(out) = p /\ wbuf.data = <<>> /\ woff = 0
    /\ state = "pending" =>
         /\ n = taken - 1 /\ Len(out) = p /\ wbuf.data = <<>> /\ woff = 0
         /\ Sendable(deferred) /\ Good(deferred, keep, asked[taken])
    /\ state = "writing" =>
         /\ n = taken - 1 /\ Len(out) = p + woff /\ woff < Len(wbuf.data)
         /\ \A j \in 1 .. woff : out[p + j] = wbuf.data[j]
         /\ \E resp : /\ Sendable(resp) /\ Good(resp, keep, asked[taken])
                      /\ wbuf.data = Serialize(resp, keep)

\* What the client has received is responses and a part of one.
Served == \E rs, c : Found(out, rs, c) /\ Going(Len(rs), c[Len(rs)])

\* Between two responses nothing of the next has come.
LEMMA BetweenIs ==
  ASSUME NEW o, NEW p, p \in Nat, Len(o) = p
  PROVE  Unfinished(o, p)
<1> DEFINE resp == NotFound
           s == Serialize(resp, TRUE)
<1>1. Sendable(resp)
  BY NotFoundSends
<1> HIDE DEF resp
<1>2. Laid(s, Len(resp.headers) + 3, HeadFor(resp, TRUE), resp.body)
  BY <1>1, SerializedIs
<1> DEFINE m == Len(resp.headers) + 3
           b == resp.body
<1>3. Len(s) \in Nat \ {0}
  <2> HIDE DEF s, m, b
  <2>1. m \in Nat /\ Len(b) \in Nat /\ Len(s) = 2 * m + 1 + Len(b)
    BY <1>2 DEF Laid, m, b
  <2>2. QED
    BY <2>1
<1> HIDE DEF s
<1>4. Agrees(o, p, s)
  BY <1>3 DEF Agrees
<1>5. Len(o) < p + Len(s)
  BY <1>3
<1>6. QED
  BY <1>1, <1>4, <1>5 DEF Unfinished, s

\* A part of a response, but not all of it, has come.
LEMMA PartHasCome ==
  ASSUME NEW o, NEW p, p \in Nat, NEW resp, Sendable(resp), NEW alive \in BOOLEAN, NEW n \in Nat,
         Len(o) = p + n, n < Len(Serialize(resp, alive)),
         \A j \in 1 .. n : o[p + j] = Serialize(resp, alive)[j]
  PROVE  Unfinished(o, p)
<1> DEFINE s == Serialize(resp, alive)
<1>1. IsSeq(s)
  BY SerializedIs DEF Laid
<1>2. Len(s) \in Nat
  BY <1>1, LenProperties DEF IsSeq
<1>3. \A j \in 1 .. n : o[p + j] = s[j]
  OBVIOUS
<1>4. n < Len(s)
  OBVIOUS
<1> HIDE DEF s
<1>5. Agrees(o, p, s)
  <2>1. \A j \in 1 .. Len(s) : p + j <= Len(o) => j \in 1 .. n
    BY <1>2
  <2>2. QED
    BY <1>3, <2>1 DEF Agrees
<1>6. Len(o) < p + Len(s)
  BY <1>2, <1>4
<1>7. QED
  BY <1>5, <1>6 DEF Unfinished, s

\* What the client then finds.
LEMMA ShownIs ==
  ASSUME NEW o, NEW rs, NEW c, Found(o, rs, c), Unfinished(o, c[Len(rs)]),
         NEW t, t \in Nat, Len(rs) <= t, NEW a, Len(a) \in Nat, t <= Len(a)
  PROVE  RepliesIn(o, Len(a) + 1) = rs
<1>1. Len(rs) \in Nat
  BY LenProperties DEF Found, IsSeq
<1>2. Len(a) + 1 \in Nat /\ Len(rs) <= Len(a) + 1
  BY <1>1
<1>3. QED
  BY <1>2, RepliesAre

\* So the responses found are those the server sent.
LEMMA RepliesShown ==
  ASSUME NEW rs, NEW c, Found(out, rs, c), Going(Len(rs), c[Len(rs)]),
         asked \in Seq(Request), taken \in 0 .. Len(asked)
  PROVE  Replies = rs
<1>1. Unfinished(out, c[Len(rs)]) /\ Len(rs) <= taken
  BY DEF Going
<1>2. Len(asked) \in Nat /\ taken \in Nat /\ taken <= Len(asked)
  BY LenProperties
<1>3. QED
  BY <1>1, <1>2, ShownIs DEF Replies

\* The same in the next state.
LEMMA RepliesShownNext ==
  ASSUME NEW rs, NEW c, Found(out', rs, c), Going(Len(rs), c[Len(rs)])',
         asked' \in Seq(Request), taken' \in 0 .. Len(asked')
  PROVE  Replies' = rs
<1>1. Unfinished(out', c[Len(rs)]) /\ Len(rs) <= taken'
  BY DEF Going
<1>2. Len(asked') \in Nat /\ taken' \in Nat /\ taken' <= Len(asked')
  BY LenProperties
<1>3. Replies' = RepliesIn(out', Len(asked') + 1)
  BY DEF Replies
<1>4. QED
  BY <1>1, <1>2, <1>3, ShownIs

\* A connection just accepted has served nothing.
LEMMA InitServed == Init => Served /\ Talk!Init
<1> SUFFICES ASSUME Init PROVE Served /\ Talk!Init
  OBVIOUS
<1> DEFINE rs == <<>>
           c == [k \in 0 .. 0 |-> 0]
<1>1. /\ asked = <<>> /\ hung = FALSE /\ state = "reading" /\ wbuf = NoBuf /\ woff = 0
      /\ taken = 0 /\ out = <<>>
  BY DEF Init
<1>2. wbuf.data = <<>>
  BY <1>1 DEF NoBuf
<1>3. IsSeq(rs) /\ Len(rs) = 0 /\ c[0] = 0
  <2>1. IsSeq(rs)
    BY ShortIsSeq
  <2>2. Len(rs) = 0
    BY EmptySeq
  <2>3. c[0] = 0
    OBVIOUS
  <2>4. QED
    BY <2>1, <2>2, <2>3
<1>4. IsSeq(out) /\ Len(out) = 0
  BY <1>1, <1>3 DEF rs
<1> HIDE DEF rs, c
<1>5. Found(out, rs, c)
  BY <1>3, <1>4 DEF Found
<1>6. Unfinished(out, 0)
  BY <1>4, BetweenIs
<1>7. Going(Len(rs), c[Len(rs)])
  BY <1>1, <1>2, <1>3, <1>4, <1>6 DEF Going
<1>8. asked \in Seq(Request) /\ taken \in 0 .. Len(asked)
  BY <1>1, EmptySeq
<1>9. Replies = rs
  BY <1>5, <1>7, <1>8, RepliesShown
<1>10. Talk!Init
  BY <1>1, <1>9 DEF Talk!Init, rs
<1>11. QED
  BY <1>5, <1>7, <1>10 DEF Served

\* What comes behind responses leaves them as they are.
LEMMA FoundStill ==
  ASSUME NEW o, NEW rs, NEW c, Found(o, rs, c), NEW u, IsSeq(u)
  PROVE  Found(o \o u, rs, c)
<1> DEFINE w == o \o u
           n == Len(rs)
<1>1. IsSeq(o) /\ IsSeq(rs) /\ c[0] = 0 /\ n \in Nat
  BY LenProperties DEF Found, IsSeq
<1>2. IsSeq(w) /\ Len(w) = Len(o) + Len(u) /\ Len(o) \in Nat /\ Len(u) \in Nat
  BY <1>1, ConcatIsSeq
<1>3. \A j \in 1 .. Len(o) : w[j] = o[j]
  <2>1. PICK U : o \in Seq(U)
    BY <1>1 DEF IsSeq
  <2>2. PICK W : u \in Seq(W)
    BY DEF IsSeq
  <2>3. o \in Seq(U \cup W) /\ u \in Seq(U \cup W)
    BY <2>1, <2>2
  <2>4. \A j \in 1 .. Len(o) + Len(u) : w[j] = IF j <= Len(o) THEN o[j] ELSE u[j - Len(o)]
    BY <2>3, ConcatProperties
  <2> HIDE DEF w
  <2>5. QED
    BY <1>2, <2>4
<1> HIDE DEF w
<1>4. \A k \in 0 .. n : c[k] \in Nat /\ c[k] <= Len(o)
  BY DEF Found
<1>5. \A k \in 0 .. n : c[k] \in Nat /\ c[k] <= Len(w)
  BY <1>2, <1>4
<1>6. ASSUME NEW k \in 1 .. n
      PROVE  Viewed(rs[k]) /\ c[k] = c[k - 1] + Len(Sent(rs[k])) /\ Agrees(w, c[k - 1], Sent(rs[k]))
  <2> DEFINE p == c[k - 1]
             s == Sent(rs[k])
  <2>1. Viewed(rs[k]) /\ c[k] = p + Len(s) /\ Agrees(o, p, s)
    BY DEF Found
  <2>2. k \in 0 .. n /\ k - 1 \in 0 .. n
    BY <1>1
  <2>3. p \in Nat /\ c[k] \in Nat /\ c[k] <= Len(o)
    BY <1>4, <2>2
  <2>4. Len(s) \in Nat
    <3> DEFINE x == rs[k]
               alive == x.alive
    <3>1. Sendable(x) /\ s = Serialize(x, alive)
      BY <2>1 DEF Viewed, Sent
    <3> HIDE DEF s, x, alive
    <3>2. IsSeq(s)
      BY <3>1, SerializedIs DEF Laid
    <3>3. QED
      BY <3>2, LenProperties DEF IsSeq
  <2> HIDE DEF p, s
  <2>5. ASSUME NEW j \in 1 .. Len(s) PROVE w[p + j] = s[j]
    <3>1. p + j \in 1 .. Len(o) /\ p + j <= Len(o)
      BY <1>2, <2>1, <2>3, <2>4
    <3>2. o[p + j] = s[j]
      BY <2>1, <3>1 DEF Agrees
    <3>3. w[p + j] = o[p + j]
      BY <1>3, <3>1
    <3>4. QED
      BY <3>2, <3>3
  <2>6. Agrees(w, p, s)
    BY <2>5 DEF Agrees
  <2>7. QED
    BY <2>1, <2>6 DEF p, s
<1>7. Found(w, rs, c)
  BY <1>1, <1>2, <1>5, <1>6 DEF Found
<1>8. QED
  BY <1>7 DEF w

\* A sequence with one more at its end.
LEMMA OneMoreIs ==
  ASSUME NEW rs, IsSeq(rs), NEW x
  PROVE  /\ IsSeq(Append(rs, x)) /\ Len(Append(rs, x)) = Len(rs) + 1 /\ Len(rs) \in Nat
         /\ Append(rs, x)[Len(rs) + 1] = x
         /\ \A k \in 1 .. Len(rs) : Append(rs, x)[k] = rs[k]
         /\ SubSeq(Append(rs, x), 1, Len(rs)) = rs
<1> DEFINE ts == Append(rs, x)
<1>1. PICK U : rs \in Seq(U)
  BY DEF IsSeq
<1>2. rs \in Seq(U \cup {x}) /\ x \in U \cup {x} /\ Len(rs) \in Nat
  BY <1>1, LenProperties
<1>3. /\ ts \in Seq(U \cup {x}) /\ Len(ts) = Len(rs) + 1 /\ ts[Len(rs) + 1] = x
      /\ \A k \in 1 .. Len(rs) : ts[k] = rs[k]
  BY <1>2, AppendProperties
<1>4. IsSeq(ts)
  BY <1>3, Zenon DEF IsSeq
<1>5. SubSeq(ts, 1, Len(rs)) = rs
  <2>1. ts = rs \o <<x>> /\ <<x>> \in Seq(U \cup {x})
    BY <1>2, AppendIsConcat
  <2>2. QED
    BY <1>2, <2>1, SubSeqOfConcat1
<1> HIDE DEF ts
<1>6. QED
  BY <1>2, <1>3, <1>4, <1>5 DEF ts

\* A response received to its end is one more.
Extended(c, n, q) == [k \in 0 .. n + 1 |-> IF k <= n THEN c[k] ELSE q]

\* Then it is found behind the others.
LEMMA FoundOneMore ==
  ASSUME NEW o, NEW rs, NEW c, Found(o, rs, c), NEW x, Viewed(x),
         Len(o) = c[Len(rs)] + Len(Sent(x)), Agrees(o, c[Len(rs)], Sent(x))
  PROVE  /\ Found(o, Append(rs, x), Extended(c, Len(rs), Len(o)))
         /\ Len(Append(rs, x)) = Len(rs) + 1
         /\ Extended(c, Len(rs), Len(o))[Len(rs) + 1] = Len(o)
<1> DEFINE n == Len(rs)
           q == Len(o)
           d == Extended(c, n, q)
           ts == Append(rs, x)
<1>1. IsSeq(o) /\ IsSeq(rs) /\ c[0] = 0 /\ n \in Nat /\ q \in Nat
  BY LenProperties DEF Found, IsSeq
<1>2. IsSeq(ts) /\ Len(ts) = n + 1 /\ ts[n + 1] = x /\ \A k \in 1 .. n : ts[k] = rs[k]
  BY <1>1, OneMoreIs
<1>3. \A k \in 0 .. n : c[k] \in Nat /\ c[k] <= q
  BY DEF Found
<1>4. /\ \A k \in 0 .. n : d[k] = c[k]
      /\ d[n + 1] = q
  BY <1>1 DEF Extended
<1> HIDE DEF d, ts, q, n
<1>5. \A k \in 0 .. n + 1 : d[k] \in Nat /\ d[k] <= q
  <2> SUFFICES ASSUME NEW k \in 0 .. n + 1 PROVE d[k] \in Nat /\ d[k] <= q
    OBVIOUS
  <2>1. k \in 0 .. n \/ k = n + 1
    BY <1>1
  <2>2. CASE k \in 0 .. n
    BY <1>3, <1>4, <2>2
  <2>3. CASE k = n + 1
    BY <1>1, <1>4, <2>3
  <2>4. QED
    BY <2>1, <2>2, <2>3
<1>6. ASSUME NEW k \in 1 .. n + 1
      PROVE  Viewed(ts[k]) /\ d[k] = d[k - 1] + Len(Sent(ts[k])) /\ Agrees(o, d[k - 1], Sent(ts[k]))
  <2>1. CASE k \in 1 .. n
    <3>1. k \in 0 .. n /\ k - 1 \in 0 .. n
      BY <1>1, <2>1
    <3>2. d[k] = c[k] /\ d[k - 1] = c[k - 1] /\ ts[k] = rs[k]
      BY <1>2, <1>4, <2>1, <3>1
    <3>3. Viewed(rs[k]) /\ c[k] = c[k - 1] + Len(Sent(rs[k])) /\ Agrees(o, c[k - 1], Sent(rs[k]))
      BY <2>1 DEF Found, n
    <3>4. QED
      BY <3>2, <3>3
  <2>2. CASE k = n + 1
    <3>1. k - 1 = n /\ n \in 0 .. n
      BY <1>1, <2>2
    <3>2. d[k - 1] = c[n] /\ d[k] = q /\ ts[k] = x
      BY <1>2, <1>4, <2>2, <3>1
    <3>3. q = c[n] + Len(Sent(x)) /\ Agrees(o, c[n], Sent(x))
      BY DEF n, q
    <3>4. QED
      BY <3>2, <3>3
  <2>3. QED
    BY <1>1, <2>1, <2>2
<1>7. d[0] = 0
  BY <1>1, <1>4
<1>8. Found(o, ts, d)
  <2>1. \A k \in 0 .. Len(ts) : d[k] \in Nat /\ d[k] <= Len(o)
    BY <1>2, <1>5 DEF q
  <2>2. \A k \in 1 .. Len(ts) : /\ Viewed(ts[k]) /\ d[k] = d[k - 1] + Len(Sent(ts[k]))
                                /\ Agrees(o, d[k - 1], Sent(ts[k]))
    BY <1>2, <1>6
  <2>3. QED
    BY <1>1, <1>2, <1>7, <2>1, <2>2 DEF Found
<1>9. QED
  BY <1>2, <1>4, <1>8 DEF d, ts, n, q

\* What one write adds.
LEMMA WrittenIs ==
  ASSUME NEW o, IsSeq(o), NEW s, IsSeq(s), NEW p \in Nat, NEW m \in Nat, NEW n \in 1 .. Len(s) - m,
         m <= Len(s),
         Len(o) = p + m, \A j \in 1 .. m : o[p + j] = s[j]
  PROVE  LET w == o \o SubSeq(s, m + 1, m + n)
         IN /\ IsSeq(SubSeq(s, m + 1, m + n)) /\ Len(w) = p + (m + n)
            /\ \A j \in 1 .. m + n : w[p + j] = s[j]
<1> DEFINE u == SubSeq(s, m + 1, m + n)
           w == o \o u
<1>1. Len(s) \in Nat /\ n \in Nat /\ m + n \in Nat /\ m + n <= Len(s)
  BY LenProperties DEF IsSeq
<1>2. PICK U : o \in Seq(U)
  BY DEF IsSeq
<1>3. PICK W : s \in Seq(W)
  BY DEF IsSeq
<1>4. /\ u \in Seq(W) /\ Len(u) = n
      /\ \A j \in 1 .. n : u[j] = s[m + j]
  <2>1. m + 1 \in Int /\ m + n \in Int /\ \A i \in m + 1 .. m + n : s[i] \in W
    BY <1>1, <1>3, ElementOfSeq
  <2>2. /\ u \in Seq(W) /\ Len(u) = IF m + 1 <= m + n THEN m + n - (m + 1) + 1 ELSE 0
        /\ \A j \in 1 .. m + n - (m + 1) + 1 : u[j] = s[m + 1 + j - 1]
    BY <2>1, SubSeqProperties
  <2> HIDE DEF u
  <2>3. Len(u) = n
    BY <1>1, <2>2
  <2>4. ASSUME NEW j \in 1 .. n PROVE u[j] = s[m + j]
    <3>1. j \in 1 .. m + n - (m + 1) + 1 /\ m + 1 + j - 1 = m + j
      BY <1>1
    <3>2. u[j] = s[m + 1 + j - 1]
      BY <2>2, <3>1
    <3>3. QED
      BY <3>1, <3>2
  <2>5. QED
    BY <2>2, <2>3, <2>4
<1> HIDE DEF u
<1>5. o \in Seq(U \cup W) /\ u \in Seq(U \cup W)
  BY <1>2, <1>4
<1>6. /\ Len(w) = Len(o) + Len(u)
      /\ \A j \in 1 .. Len(o) + Len(u) : w[j] = IF j <= Len(o) THEN o[j] ELSE u[j - Len(o)]
  BY <1>5, ConcatProperties
<1> HIDE DEF w
<1>7. Len(w) = p + (m + n)
  BY <1>1, <1>4, <1>6
<1>8. ASSUME NEW j \in 1 .. m + n PROVE w[p + j] = s[j]
  <2>1. p + j \in 1 .. Len(o) + Len(u)
    BY <1>1, <1>4
  <2>2. w[p + j] = IF p + j <= Len(o) THEN o[p + j] ELSE u[p + j - Len(o)]
    BY <1>6, <2>1
  <2>3. CASE j <= m
    <3>1. p + j <= Len(o) /\ j \in 1 .. m
      BY <1>1, <2>3
    <3>2. QED
      BY <2>2, <3>1
  <2>4. CASE j > m
    <3>1. ~(p + j <= Len(o)) /\ p + j - Len(o) = j - m /\ j - m \in 1 .. n
      BY <1>1, <2>4
    <3>2. u[j - m] = s[m + (j - m)] /\ m + (j - m) = j
      BY <1>1, <1>4, <3>1
    <3>3. QED
      BY <2>2, <3>1, <3>2
  <2>5. QED
    BY <1>1, <2>3, <2>4
<1>9. IsSeq(u)
  BY <1>4, Zenon DEF IsSeq
<1>10. QED
  BY <1>7, <1>8, <1>9 DEF u, w

-----------------------------------------------------------------------------
(* Http implements Exchange, step by step                                  *)

\* A response has a length.
LEMMA SentHasLength ==
  ASSUME NEW resp, Sendable(resp), NEW alive
  PROVE  IsSeq(Serialize(resp, alive)) /\ Len(Serialize(resp, alive)) \in Nat \ {0}
<1> DEFINE s == Serialize(resp, alive)
           m == Len(resp.headers) + 3
           b == resp.body
<1>1. Laid(s, m, HeadFor(resp, alive), b)
  BY SerializedIs
<1> HIDE DEF s, m, b
<1>2. IsSeq(s) /\ m \in Nat /\ Len(b) \in Nat /\ Len(s) = 2 * m + 1 + Len(b)
  BY <1>1 DEF Laid
<1>3. Len(s) \in Nat \ {0}
  BY <1>2
<1>4. QED
  BY <1>2, <1>3 DEF s

\* Nothing new has come to its end.
LEMMA SameShown ==
  ASSUME IInv, IInv', NEW rs, NEW c,
         Found(out, rs, c), Going(Len(rs), c[Len(rs)]),
         Found(out', rs, c), Going(Len(rs), c[Len(rs)])'
  PROVE  Replies = rs /\ Replies' = rs /\ Served'
<1>1. Replies = rs
  <2>1. asked \in Seq(Request) /\ taken \in 0 .. Len(asked)
    BY InvGives
  <2>2. QED
    BY <2>1, RepliesShown
<1>2. Replies' = rs
  <2>1. asked' \in Seq(Request) /\ taken' \in 0 .. Len(asked')
    BY DEF IInv, TypeOK
  <2>2. QED
    BY <2>1, RepliesShownNext
<1>3. Served'
  BY DEF Served
<1>4. QED
  BY <1>1, <1>2, <1>3

\* A step the client sees nothing of.
LEMMA Unseen ==
  ASSUME asked' = asked, hung' = hung, Replies' = Replies, state # "closed", state' # "closed"
  PROVE  [Talk!Next]_(Talk!vars)
BY DEF Talk!vars

\* The server may end the connection.
LEMMA Ends ==
  ASSUME asked' = asked, hung' = hung, Replies' = Replies, state # "closed", state' = "closed",
         hung \/ (Len(Replies) + 1 \in DOMAIN asked /\ Unfit(asked[Len(Replies) + 1]))
  PROVE  [Talk!Next]_(Talk!vars)
BY DEF Talk!Next, Talk!End, Talk!UnfitAt

\* After js_http_process, with nothing of the next response sent.
LEMMA GoesOn ==
  ASSUME NEW b, b.data = <<>>, Goes(b), woff' = 0, asked' = asked, NEW n \in Nat, n = taken,
         NEW p \in Nat, Len(out') = p
  PROVE  Going(n, p)'
<1>1. Unfinished(out', p)
  BY BetweenIs
<1>2. CASE state' = "closed" /\ taken' = taken
  BY <1>1, <1>2 DEF Going
<1>3. CASE state' = "reading" /\ taken' = taken /\ wbuf' = b
  BY <1>1, <1>3 DEF Going
<1>4. ASSUME taken' = taken + 1, NEW resp, Sendable(resp), Good(resp, keep', asked[taken']),
             state' = "pending", wbuf' = b, deferred' = resp
      PROVE  Going(n, p)'
  <2>1. n <= taken' /\ n = taken' - 1
    BY <1>4
  <2>2. Sendable(deferred') /\ Good(deferred', keep', asked'[taken'])
    BY <1>4
  <2>3. wbuf'.data = <<>>
    BY <1>4
  <2>4. state' # "reading" /\ state' # "writing"
    BY <1>4
  <2>5. QED
    BY <1>1, <2>1, <2>2, <2>3, <2>4 DEF Going
<1>5. ASSUME taken' = taken + 1, NEW resp, Sendable(resp), Good(resp, keep', asked[taken']),
             state' = "writing", wbuf'.data = Serialize(resp, keep')
      PROVE  Going(n, p)'
  <2> DEFINE alive == keep'
  <2>1. woff' < Len(wbuf'.data) /\ Len(out') = p + woff'
    <3>1. Len(Serialize(resp, alive)) \in Nat \ {0}
      <4> HIDE DEF alive
      <4>1. QED
        BY <1>5, SentHasLength
    <3>2. Len(wbuf'.data) \in Nat \ {0}
      BY <1>5, <3>1
    <3>3. QED
      BY <3>2
  <2>2. ASSUME NEW j \in 1 .. woff' PROVE out'[p + j] = wbuf'.data[j]
    <3>1. FALSE
      OBVIOUS
    <3>2. QED
      BY <3>1
  <2>3. n <= taken' /\ n = taken' - 1
    BY <1>5
  <2>4. \E x : Sendable(x) /\ Good(x, keep', asked'[taken']) /\ wbuf'.data = Serialize(x, keep')
    BY <1>5
  <2>5. state' # "reading" /\ state' # "pending"
    BY <1>5
  <2>6. QED
    BY <1>1, <2>1, <2>2, <2>3, <2>4, <2>5 DEF Going
<1>6. QED
  BY <1>2, <1>3, <1>4, <1>5 DEF Goes

\* A request more changes nothing of what has been received.
LEMMA AskServed ==
  ASSUME IInv, IInv', Served, NEW r \in Request, Ask(r)
  PROVE  Served' /\ [Talk!Next]_(Talk!vars)
<1>1. PICK rs, c : Found(out, rs, c) /\ Going(Len(rs), c[Len(rs)])
  BY DEF Served
<1> DEFINE n == Len(rs)
           p == c[n]
<1>2. /\ asked' = Append(asked, r) /\ hung' = hung /\ state' = state /\ wbuf' = wbuf /\ woff' = woff
      /\ keep' = keep /\ deferred' = deferred /\ taken' = taken /\ out' = out
  BY DEF Ask
<1>3. asked \in Seq(Request) /\ taken \in 0 .. Len(asked)
  BY InvGives
<1>4. Going(n, p)'
  <2> HIDE DEF n, p
  <2>1. Going(n, p)
    BY <1>1 DEF n, p
  <2>2. ASSUME state \in {"pending", "writing"} PROVE asked'[taken] = asked[taken]
    <3>1. taken - 1 \in Nat
      BY <2>1, <2>2 DEF Going
    <3>2. taken \in 1 .. Len(asked)
      BY <1>3, <3>1, LenProperties
    <3>3. QED
      BY <1>2, <1>3, <3>2, AppendProperties
  <2>3. n \in Nat /\ n <= taken' /\ p \in Nat /\ Unfinished(out', p)
    BY <1>2, <2>1 DEF Going
  <2>4. state' = "reading" => n = taken' /\ Len(out') = p /\ wbuf'.data = <<>> /\ woff' = 0
    BY <1>2, <2>1 DEF Going
  <2>5. ASSUME state' = "pending"
        PROVE  /\ n = taken' - 1 /\ Len(out') = p /\ wbuf'.data = <<>> /\ woff' = 0
               /\ Sendable(deferred') /\ Good(deferred', keep', asked'[taken'])
    BY <1>2, <2>1, <2>2, <2>5 DEF Going
  <2>6. ASSUME state' = "writing"
        PROVE  /\ n = taken' - 1 /\ Len(out') = p + woff' /\ woff' < Len(wbuf'.data)
               /\ \A j \in 1 .. woff' : out'[p + j] = wbuf'.data[j]
               /\ \E resp : /\ Sendable(resp) /\ Good(resp, keep', asked'[taken'])
                            /\ wbuf'.data = Serialize(resp, keep')
    BY <1>2, <2>1, <2>2, <2>6 DEF Going
  <2>7. QED
    BY <2>3, <2>4, <2>5, <2>6 DEF Going
<1>5. Found(out', rs, c)
  BY <1>1, <1>2
<1>6. Replies' = Replies /\ Served'
  BY <1>1, <1>4, <1>5, SameShown
<1>7. Talk!Ask(r)
  BY <1>2, <1>6 DEF Talk!Ask
<1>8. QED
  BY <1>6, <1>7 DEF Talk!Next

\* Nor does the client's leaving.
LEMMA HangUpServed ==
  ASSUME IInv, IInv', Served, HangUp
  PROVE  Served' /\ [Talk!Next]_(Talk!vars)
<1>1. PICK rs, c : Found(out, rs, c) /\ Going(Len(rs), c[Len(rs)])
  BY DEF Served
<1>2. /\ asked' = asked /\ hung' = TRUE /\ state' = state /\ wbuf' = wbuf /\ woff' = woff
      /\ keep' = keep /\ deferred' = deferred /\ taken' = taken /\ out' = out
  BY DEF HangUp
<1>3. Going(Len(rs), c[Len(rs)])'
  BY <1>1, <1>2 DEF Going
<1>4. Found(out', rs, c)
  BY <1>1, <1>2
<1>5. Replies' = Replies /\ Served'
  BY <1>1, <1>3, <1>4, SameShown
<1>6. Talk!HangUp
  BY <1>2, <1>5 DEF Talk!HangUp
<1>7. QED
  BY <1>5, <1>6 DEF Talk!Next

\* The client is gone, and the connection with it.
LEMMA CloseServed ==
  ASSUME IInv, IInv', Served, hung, Close, state # "closed", asked' = asked, hung' = hung, out' = out
  PROVE  Served' /\ [Talk!Next]_(Talk!vars)
<1>1. PICK rs, c : Found(out, rs, c) /\ Going(Len(rs), c[Len(rs)])
  BY DEF Served
<1>2. state' = "closed" /\ taken' = taken
  BY DEF Close
<1>3. Going(Len(rs), c[Len(rs)])'
  BY <1>1, <1>2 DEF Going
<1>4. Found(out', rs, c)
  BY <1>1
<1>5. Replies' = Replies /\ Served'
  BY <1>1, <1>3, <1>4, SameShown
<1>6. QED
  BY <1>2, <1>5, Ends

\* js_http_on_read: nothing is sent yet.
LEMMA OnReadServed ==
  ASSUME PlainRequests, IInv, IInv', Served, OnRead
  PROVE  Served' /\ [Talk!Next]_(Talk!vars)
<1>1. asked' = asked /\ hung' = hung /\ out' = out /\ state = "reading"
  BY DEF OnRead
<1>2. /\ net \in Seq(Token) /\ Buffer(rbuf) /\ rbuf.data \in Seq(Token) /\ Buffer(wbuf)
      /\ asked \in Seq(Request) /\ taken \in 0 .. Len(asked)
      /\ rbuf.data \o net = FlattenSeq(Behind(asked, taken))
  BY <1>1, InvGives
<1>3. PICK rs, c : Found(out, rs, c) /\ Going(Len(rs), c[Len(rs)])
  BY DEF Served
<1> DEFINE n == Len(rs)
           p == c[n]
<1>4. n \in Nat /\ p \in Nat /\ n = taken /\ Len(out) = p /\ wbuf.data = <<>> /\ woff = 0
  BY <1>1, <1>3 DEF Going
<1>5. ASSUME NEW k \in 1 .. Len(net),
             net' = SubSeq(net, k + 1, Len(net)),
             Process(BufAppend(rbuf, SubSeq(net, 1, k)), wbuf),
             woff' = woff
      PROVE  Served' /\ [Talk!Next]_(Talk!vars)
  <2> DEFINE in == BufAppend(rbuf, SubSeq(net, 1, k))
  <2>1. /\ in.data \in Seq(Token) /\ net' \in Seq(Token)
        /\ in.data \o net' = FlattenSeq(Behind(asked, taken))
    BY <1>2, <1>5, ReadIs
  <2>2. Process(in, wbuf)
    BY <1>5
  <2> HIDE DEF in
  <2>3. Goes(wbuf)
    BY <1>2, <1>4, <2>1, <2>2, ProcessGoes
  <2>4. Going(n, p)'
    <3> HIDE DEF n, p
    <3>1. QED
      BY <1>1, <1>4, <1>5, <2>3, GoesOn
  <2>5. Found(out', rs, c)
    BY <1>1, <1>3
  <2>6. Replies = rs /\ Replies' = rs /\ Served'
    BY <1>3, <2>4, <2>5, SameShown
  <2>7. CASE state' = "closed"
    <3>1. n + 1 \in 1 .. Len(asked) /\ Unfit(asked[n + 1])
      BY <1>4, <2>3, <2>7 DEF Goes
    <3>2. Len(Replies) + 1 \in DOMAIN asked /\ Unfit(asked[Len(Replies) + 1])
      BY <1>2, <2>6, <3>1, LenProperties
    <3>3. QED
      BY <1>1, <2>6, <2>7, <3>2, Ends
  <2>8. CASE state' # "closed"
    BY <1>1, <2>6, <2>8, Unseen
  <2>9. QED
    BY <2>7, <2>8
<1>6. ASSUME hung, Close PROVE Served' /\ [Talk!Next]_(Talk!vars)
  BY <1>1, <1>6, CloseServed
<1>7. QED
  BY <1>5, <1>6 DEF OnRead

\* js_pending_finish: the response of the suspended script is the one to be sent.
LEMMA PendingFinishServed ==
  ASSUME IInv, IInv', Served, PendingFinish
  PROVE  Served' /\ [Talk!Next]_(Talk!vars)
<1>1. /\ state = "pending" /\ Respond(wbuf, deferred, keep)
      /\ asked' = asked /\ hung' = hung /\ woff' = woff /\ keep' = keep /\ taken' = taken /\ out' = out
  BY DEF PendingFinish
<1>2. PICK rs, c : Found(out, rs, c) /\ Going(Len(rs), c[Len(rs)])
  BY DEF Served
<1> DEFINE n == Len(rs)
           p == c[n]
           s == Serialize(deferred, keep)
<1>3. /\ n \in Nat /\ p \in Nat /\ n <= taken /\ n = taken - 1 /\ Len(out) = p /\ wbuf.data = <<>> /\ woff = 0
      /\ Sendable(deferred) /\ Good(deferred, keep, asked[taken]) /\ Unfinished(out, p)
  BY <1>1, <1>2 DEF Going
<1>4. IsSeq(s) /\ Len(s) \in Nat \ {0}
  <2> HIDE DEF s
  <2>1. IsSeq(Serialize(deferred, keep)) /\ Len(Serialize(deferred, keep)) \in Nat \ {0}
    BY <1>3, SentHasLength
  <2>2. QED
    BY <2>1 DEF s
<1>5. wbuf' = BufAppend(wbuf, s) /\ state' = "writing"
  BY <1>1 DEF Respond
<1>6. Buffer(wbuf)
  BY InvGives
<1> HIDE DEF s, n, p
<1>7. wbuf'.data = s
  <2>1. wbuf'.data = wbuf.data \o s
    BY <1>4, <1>5, <1>6, BufAppendIs
  <2>2. <<>> \o s = s
    BY <1>4, ConcatEmptySeq DEF IsSeq
  <2>3. QED
    BY <1>3, <2>1, <2>2
<1>8. Going(n, p)'
  <2>1. state' # "reading" /\ state' # "pending"
    BY <1>5
  <2>2. n <= taken' /\ n = taken' - 1 /\ Unfinished(out', p)
    BY <1>1, <1>3
  <2>3. Len(out') = p + woff' /\ woff' < Len(wbuf'.data)
    BY <1>1, <1>3, <1>4, <1>7
  <2>4. ASSUME NEW j \in 1 .. woff' PROVE out'[p + j] = wbuf'.data[j]
    <3>1. FALSE
      BY <1>1, <1>3
    <3>2. QED
      BY <3>1
  <2>5. \E x : Sendable(x) /\ Good(x, keep', asked'[taken']) /\ wbuf'.data = Serialize(x, keep')
    <3>1. Good(deferred, keep', asked'[taken']) /\ wbuf'.data = Serialize(deferred, keep')
      BY <1>1, <1>3, <1>7 DEF s
    <3>2. QED
      BY <1>3, <3>1
  <2>6. QED
    BY <1>3, <2>1, <2>2, <2>3, <2>4, <2>5 DEF Going
<1>9. Found(out', rs, c)
  BY <1>1, <1>2
<1>10. Replies' = Replies /\ Served'
  BY <1>2, <1>8, <1>9, SameShown DEF n, p
<1>11. QED
  BY <1>1, <1>5, <1>10, Unseen

\* A response has come to its end: it is the reply to the next request.
LEMMA Answers ==
  ASSUME IInv, IInv', asked' = asked, hung' = hung, state # "closed",
         NEW rs, NEW c, Found(out, rs, c), Going(Len(rs), c[Len(rs)]),
         NEW x, NEW e, Found(out', Append(rs, x), e),
         Len(Append(rs, x)) = Len(rs) + 1, Going(Len(Append(rs, x)), e[Len(Append(rs, x))])',
         Len(rs) = taken - 1,
         ~Unfit(asked[taken]) => keep = ~AsksClose(asked[taken]) /\ x = Reply(asked[taken]),
         \/ (state' # "closed") = keep
         \/ state' = "closed" /\ taken + 1 \in DOMAIN asked /\ Unfit(asked[taken + 1])
  PROVE  Served' /\ [Talk!Next]_(Talk!vars)
<1> DEFINE ts == Append(rs, x)
           n == Len(rs) + 1
<1>1. asked \in Seq(Request) /\ taken \in 0 .. Len(asked)
  BY InvGives
<1>2. Replies = rs
  BY <1>1, RepliesShown
<1>3. asked' \in Seq(Request) /\ taken' \in 0 .. Len(asked')
  BY DEF IInv, TypeOK
<1>4. Replies' = ts
  BY <1>3, RepliesShownNext
<1>5. Served'
  BY DEF Served
<1>6. IsSeq(rs) /\ Len(rs) \in Nat
  BY LenProperties DEF Found, IsSeq
<1>7. n = taken /\ n \in DOMAIN asked /\ Len(ts) = n
  BY <1>1, <1>6, LenProperties
<1>8. ts[n] = x /\ rs = SubSeq(ts, 1, Len(rs))
  BY <1>6, OneMoreIs
<1> HIDE DEF ts
<1>9. x = Reply(asked[n]) \/ Talk!UnfitAt(n)
  <2>1. Unfit(asked[n]) => Talk!UnfitAt(n)
    BY <1>7 DEF Talk!UnfitAt
  <2>2. QED
    BY <1>7, <2>1
<1>10. \/ (state' # "closed") = ~AsksClose(asked[n])
       \/ Talk!UnfitAt(n)
       \/ Talk!UnfitAt(n + 1) /\ ~(state' # "closed")
  <2>1. Unfit(asked[n]) => Talk!UnfitAt(n)
    BY <1>7 DEF Talk!UnfitAt
  <2>2. taken + 1 \in DOMAIN asked /\ Unfit(asked[taken + 1]) => Talk!UnfitAt(n + 1)
    BY <1>7 DEF Talk!UnfitAt
  <2>3. CASE (state' # "closed") = keep
    <3>1. ~Unfit(asked[n]) => keep = ~AsksClose(asked[n])
      BY <1>7
    <3> HIDE DEF n
    <3>2. QED
      BY <2>1, <2>3, <3>1
  <2>4. CASE state' = "closed" /\ taken + 1 \in DOMAIN asked /\ Unfit(asked[taken + 1])
    BY <2>2, <2>4
  <2>5. QED
    BY <2>3, <2>4
<1>11. Talk!Answer
  <2>1. Len(Replies') = Len(Replies) + 1 /\ Len(Replies) + 1 \in DOMAIN asked
    BY <1>2, <1>4, <1>7
  <2>2. Replies = SubSeq(Replies', 1, Len(Replies) + 1 - 1)
    <3>1. Len(rs) + 1 - 1 = Len(rs)
      BY <1>6
    <3>2. QED
      BY <1>2, <1>4, <1>8, <3>1
  <2>3. Replies'[Len(Replies) + 1] = Reply(asked[Len(Replies) + 1]) \/ Talk!UnfitAt(Len(Replies) + 1)
    BY <1>2, <1>4, <1>8, <1>9
  <2>4. \/ (state' # "closed") = ~AsksClose(asked[Len(Replies) + 1])
        \/ Talk!UnfitAt(Len(Replies) + 1)
        \/ Talk!UnfitAt(Len(Replies) + 1 + 1) /\ ~(state' # "closed")
    BY <1>2, <1>10
  <2>5. QED
    BY <2>1, <2>2, <2>3, <2>4 DEF Talk!Answer
<1>12. QED
  BY <1>5, <1>11 DEF Talk!Next

\* js_http_on_write: a part of the response is sent, or the rest of it.
LEMMA OnWriteServed ==
  ASSUME PlainRequests, IInv, IInv', Served, OnWrite
  PROVE  Served' /\ [Talk!Next]_(Talk!vars)
<1>1. asked' = asked /\ hung' = hung /\ net' = net /\ state = "writing"
  BY DEF OnWrite
<1>2. /\ net \in Seq(Token) /\ Buffer(rbuf) /\ rbuf.data \in Seq(Token) /\ Buffer(wbuf)
      /\ asked \in Seq(Request) /\ taken \in 0 .. Len(asked) /\ keep \in BOOLEAN
      /\ rbuf.data \o net = FlattenSeq(Behind(asked, taken))
  BY <1>1, InvGives
<1>3. PICK rs, c : Found(out, rs, c) /\ Going(Len(rs), c[Len(rs)])
  BY DEF Served
<1> DEFINE n == Len(rs)
           p == c[n]
           data == wbuf.data
<1>4. /\ n \in Nat /\ n <= taken /\ p \in Nat /\ n = taken - 1 /\ Len(out) = p + woff /\ woff < Len(data)
      /\ \A j \in 1 .. woff : out[p + j] = data[j]
  BY <1>1, <1>3 DEF Going
<1>5. PICK resp : /\ Sendable(resp) /\ Good(resp, keep, asked[taken])
                  /\ data = Serialize(resp, keep)
  BY <1>1, <1>3 DEF Going
<1>6. woff \in Nat /\ IsSeq(data) /\ Len(data) \in Nat /\ IsSeq(out)
  <2>1. woff \in 0 .. Len(data)
    BY InvGives
  <2>2. Len(data) \in Nat
    BY <1>2, LenProperties DEF Buffer, IsSeq
  <2>3. QED
    BY <1>2, <1>3, <2>1, <2>2 DEF Buffer, Found
<1>7. ASSUME NEW m \in 1 .. Len(data) - woff, out' = out \o SubSeq(data, woff + 1, woff + m)
      PROVE  /\ Found(out', rs, c) /\ Len(out') = p + (woff + m) /\ woff + m \in Nat
             /\ \A j \in 1 .. woff + m : out'[p + j] = data[j]
  <2> DEFINE u == SubSeq(data, woff + 1, woff + m)
  <2>1. /\ IsSeq(u) /\ Len(out \o u) = p + (woff + m)
        /\ \A j \in 1 .. woff + m : (out \o u)[p + j] = data[j]
    <3> HIDE DEF data, p
    <3>1. woff <= Len(data)
      BY <1>4, <1>6
    <3>2. IsSeq(SubSeq(data, woff + 1, woff + m))
      <4>1. woff + 1 \in 1 .. Len(data) + 1 /\ woff + m \in 0 .. Len(data)
        BY <1>6
      <4>2. QED
        BY <1>6, <4>1, SubSeqIsSeq
    <3>3. Len(out \o SubSeq(data, woff + 1, woff + m)) = p + (woff + m)
      BY <1>4, <1>6, <3>1, WrittenIs
    <3>4. \A j \in 1 .. woff + m : (out \o u)[p + j] = data[j]
      BY <1>4, <1>6, <3>1, WrittenIs
    <3>5. QED
      BY <3>2, <3>3, <3>4
  <2> HIDE DEF u
  <2>2. Found(out \o u, rs, c)
    BY <1>3, <2>1, FoundStill
  <2>3. out' = out \o u
    BY <1>7 DEF u
  <2>4. woff + m \in Nat
    BY <1>6
  <2>5. QED
    BY <2>1, <2>2, <2>3, <2>4
<1> HIDE DEF data, n, p
<1>8. ASSUME NEW m \in 1 .. Len(data) - woff, out' = out \o SubSeq(data, woff + 1, woff + m),
             woff + m < Len(data), woff' = woff + m,
             UNCHANGED <<state, rbuf, wbuf, keep, deferred, taken>>
      PROVE  Served' /\ [Talk!Next]_(Talk!vars)
  <2>1. Found(out', rs, c) /\ Len(out') = p + woff' /\ \A j \in 1 .. woff' : out'[p + j] = data[j]
    BY <1>7, <1>8
  <2>2. /\ state' = "writing" /\ wbuf' = wbuf /\ keep' = keep /\ taken' = taken
        /\ woff' \in Nat /\ woff' < Len(data)
    BY <1>1, <1>6, <1>7, <1>8
  <2>3. Unfinished(out', p)
    BY <1>2, <1>4, <1>5, <2>1, <2>2, PartHasCome
  <2>4. Going(n, p)'
    <3>1. state' # "reading" /\ state' # "pending"
      BY <2>2
    <3>2. wbuf'.data = data
      BY <2>2 DEF data
    <3>3. \E r : Sendable(r) /\ Good(r, keep', asked'[taken']) /\ wbuf'.data = Serialize(r, keep')
      BY <1>1, <1>5, <2>2, <3>2
    <3>4. n <= taken' /\ n = taken' - 1
      BY <1>4, <2>2
    <3>5. QED
      BY <1>4, <2>1, <2>2, <2>3, <3>1, <3>2, <3>3, <3>4 DEF Going
  <2>5. Replies' = Replies /\ Served'
    BY <1>3, <2>1, <2>4, SameShown DEF n, p
  <2>6. QED
    BY <1>1, <2>2, <2>5, Unseen
<1>9. ASSUME NEW m \in 1 .. Len(data) - woff, out' = out \o SubSeq(data, woff + 1, woff + m),
             woff + m = Len(data),
             \/ ~keep /\ Close
             \/ keep /\ woff' = 0 /\ Process(rbuf, Cleared(wbuf))
      PROVE  Served' /\ [Talk!Next]_(Talk!vars)
  <2>1. PICK x : x = View(resp, keep)
    OBVIOUS
  <2>2. PICK q : q = Len(out')
    OBVIOUS
  <2> DEFINE e == Extended(c, n, q)
             ts == Append(rs, x)
  <2>3. Found(out', rs, c) /\ Len(out') = p + Len(data) /\ \A j \in 1 .. Len(data) : out'[p + j] = data[j]
    BY <1>7, <1>9
  <2>4. Viewed(x) /\ Sent(x) = data
    <3>1. /\ x.status = resp.status /\ x.headers = resp.headers /\ x.alive = keep /\ x.body = resp.body
          /\ x = View(x, x.alive)
      BY <2>1 DEF View
    <3>2. Sendable(x)
      BY <1>5, <3>1 DEF Sendable
    <3>3. Serialize(x, x.alive) = Serialize(resp, keep)
      BY <3>1 DEF Serialize
    <3>4. QED
      BY <1>2, <1>5, <3>1, <3>2, <3>3 DEF Viewed, Sent
  <2>5. Agrees(out', p, data)
    BY <2>3 DEF Agrees
  <2>6. Found(out', ts, e) /\ Len(ts) = n + 1 /\ e[n + 1] = q
    BY <2>3, <2>4, <2>5, <2>2, FoundOneMore DEF n, p
  <2>7. q \in Nat
    BY <1>4, <1>6, <2>3, <2>2
  <2> HIDE DEF ts, e
  <2>8. n + 1 = taken /\ taken \in Nat /\ Len(out') = q
    BY <1>2, <1>4, <2>2, LenProperties
  <2>9. /\ Going(n + 1, q)'
        /\ \/ (state' # "closed") = keep
           \/ state' = "closed" /\ taken + 1 \in DOMAIN asked /\ Unfit(asked[taken + 1])
    <3>1. CASE ~keep /\ Close
      <4>1. state' = "closed" /\ taken' = taken
        BY <3>1 DEF Close
      <4>2. Unfinished(out', q)
        BY <2>7, <2>8, BetweenIs
      <4>3. Going(n + 1, q)'
        BY <2>7, <2>8, <4>1, <4>2 DEF Going
      <4>4. (state' # "closed") = keep
        BY <1>2, <3>1, <4>1
      <4>5. QED
        BY <4>3, <4>4
    <3>2. CASE keep /\ woff' = 0 /\ Process(rbuf, Cleared(wbuf))
      <4> DEFINE b == Cleared(wbuf)
      <4>1. Buffer(b) /\ b.data = <<>>
        BY <1>2, ClearedIs
      <4>2. Process(rbuf, b) /\ net' \in Seq(Token) /\ rbuf.data \o net' = FlattenSeq(Behind(asked, taken))
        BY <1>1, <1>2, <3>2
      <4> HIDE DEF b
      <4>3. Goes(b)
        BY <1>2, <4>1, <4>2, ProcessGoes
      <4>4. Going(n + 1, q)'
        <5> DEFINE k == n + 1
        <5>1. k \in Nat /\ k = taken
          BY <2>8
        <5> HIDE DEF k
        <5>2. Going(k, q)'
          BY <1>1, <2>7, <2>8, <3>2, <4>1, <4>3, <5>1, GoesOn
        <5>3. QED
          BY <5>2 DEF k
      <4>5. \/ state' = "closed" /\ taken + 1 \in 1 .. Len(asked) /\ Unfit(asked[taken + 1])
            \/ state' # "closed"
        BY <4>3 DEF Goes
      <4>6. DOMAIN asked = 1 .. Len(asked)
        BY <1>2, LenProperties
      <4>7. QED
        BY <3>2, <4>4, <4>5, <4>6
    <3>3. QED
      BY <1>9, <3>1, <3>2
  <2>10. ~Unfit(asked[taken]) => keep = ~AsksClose(asked[taken]) /\ x = Reply(asked[taken])
    BY <1>5, <2>1 DEF Good
  <2>11. /\ Found(out, rs, c) /\ Going(Len(rs), c[Len(rs)])
        /\ Found(out', Append(rs, x), e) /\ Len(Append(rs, x)) = Len(rs) + 1
        /\ Going(Len(Append(rs, x)), e[Len(Append(rs, x))])'
        /\ Len(rs) = taken - 1 /\ state # "closed"
    BY <1>1, <1>3, <1>4, <2>6, <2>9 DEF ts, n
  <2>12. QED
    BY <1>1, <2>9, <2>10, <2>11, Answers
<1>10. ASSUME hung, Close, out' = out PROVE Served' /\ [Talk!Next]_(Talk!vars)
  BY <1>1, <1>10, CloseServed
<1>11. QED
  <2>1. \/ \E m \in 1 .. Len(data) - woff :
            /\ out' = out \o SubSeq(data, woff + 1, woff + m)
            /\ \/ /\ woff + m < Len(data)
                  /\ woff' = woff + m
                  /\ UNCHANGED <<state, rbuf, wbuf, keep, deferred, taken>>
               \/ woff + m = Len(data) /\ ~keep /\ Close
               \/ woff + m = Len(data) /\ keep /\ woff' = 0 /\ Process(rbuf, Cleared(wbuf))
        \/ hung /\ Close /\ out' = out
    BY DEF OnWrite, data
  <2>2. QED
    BY <1>8, <1>9, <1>10, <2>1

\* Every step of the connection is one of the exchange's, or none.
LEMMA StepServed ==
  ASSUME PlainRequests, IInv, IInv', Served, [Next]_vars
  PROVE  Served' /\ [Talk!Next]_(Talk!vars)
<1>1. ASSUME NEW r \in Request, Ask(r) PROVE Served' /\ [Talk!Next]_(Talk!vars)
  BY <1>1, AskServed
<1>2. CASE HangUp
  BY <1>2, HangUpServed
<1>3. CASE OnRead
  BY <1>3, OnReadServed
<1>4. CASE PendingFinish
  BY <1>4, PendingFinishServed
<1>5. CASE OnWrite
  BY <1>5, OnWriteServed
<1>6. CASE UNCHANGED vars
  <2>1. PICK rs, c : Found(out, rs, c) /\ Going(Len(rs), c[Len(rs)])
    BY DEF Served
  <2>2. /\ asked' = asked /\ hung' = hung /\ state' = state /\ wbuf' = wbuf /\ woff' = woff
        /\ keep' = keep /\ deferred' = deferred /\ taken' = taken /\ out' = out
    BY <1>6 DEF vars
  <2>3. Going(Len(rs), c[Len(rs)])'
    BY <2>1, <2>2 DEF Going
  <2>4. Found(out', rs, c)
    BY <2>1, <2>2
  <2>5. Replies' = Replies /\ Served'
    BY <2>1, <2>3, <2>4, SameShown
  <2>6. QED
    BY <2>2, <2>5 DEF Talk!vars
<1>7. QED
  BY <1>1, <1>2, <1>3, <1>4, <1>5, <1>6 DEF Next

\* In every state the server can reach, what the client has received is whole responses
\* and a part of one, of which the server holds the rest (js_http.c:64-89).
THEOREM ServedInvariance ==
  ASSUME PlainRequests
  PROVE  Spec => []Served
<1>1. Init => Served
  BY InitServed
<1>2. IInv /\ IInv' /\ Served /\ [Next]_vars => Served'
  BY StepServed
<1>3. QED
  BY <1>1, <1>2, HttpInvariance, PTL DEF Spec

\* Http implements Exchange: whatever plain requests are sent, however TCP cuts them and the
\* responses, and whether scripts answer at once or later, the n-th response the client
\* finds is the reply to its n-th request, and the server ends the connection only
\* behind a response whose request asked for that, at a malformed request, or when
\* the client hung up (js_http.c:5-89, js_qjs.c:244-272).
THEOREM ServesExchanges ==
  ASSUME PlainRequests
  PROVE  Spec => Exchanges
<1>1. Init => Talk!Init
  BY InitServed
<1>2. IInv /\ IInv' /\ Served /\ [Next]_vars => [Talk!Next]_(Talk!vars)
  BY StepServed
<1>3. QED
  BY <1>1, <1>2, HttpInvariance, ServedInvariance, PTL DEF Spec, Exchanges, Talk!Spec
=============================================================================
