---------------------------- MODULE WorkerProofs ----------------------------
(***************************************************************************)
(* The safety of a worker thread, for any connections, requests, timeouts  *)
(* and delays: an inductive invariant of Worker and what follows from it.  *)
(***************************************************************************)
EXTENDS Worker, SequenceTheorems, TLAPS

\* What holds of one connection's record, whatever the others do.
ConnOK(k) ==
    /\ k.reg = Waits(k.state)
    /\ k.state \in {"none", "backlog", "elsewhere"} => k.parsed = 0 /\ k.rlen = 0
    /\ k.state = "reading" => k.rlen < ReqLen
    /\ k.state \in {"none", "backlog", "elsewhere", "reading", "pending"} =>
          k.wbuf = <<>> /\ k.woff = 0
    /\ k.state = "writing" => k.woff < Len(k.wbuf)
    /\ k.parsed * ReqLen + k.rlen + k.inq <= MaxReq * ReqLen

ConnsOK == \A c \in Conn : ConnOK(conn[c])

\* The inductive invariant.
IInv ==
    /\ TypeOK
    /\ ConnsOK
    /\ SuspendedIffExecuting
    /\ SettledHasTimeout
    /\ TimerOwnerAlive
    /\ CursorInTree
    /\ BatchFresh

-----------------------------------------------------------------------------
(* Names: executions and timers.                                           *)

\* The sentinel is no timer: a cursor that is a timer is not the sentinel.
LEMMA SentinelIsNoTimer == NoTimer \notin Timer
  BY DEF NoTimer, Timer, Exec

LEMMA ExecOfType == ASSUME NEW t \in Timer PROVE ExecOf(t) \in Exec
  BY DEF Timer, ExecOf

LEMMA ExecParts ==
  ASSUME NEW e \in Exec
  PROVE  e[1] \in Conn /\ e[2] \in 1 .. MaxReq /\ e = <<e[1], e[2]>>
  BY DEF Exec

\* A request that is in the buffer is one of the MaxReq a client sends.
LEMMA RequestInBound ==
  ASSUME NEW p \in Nat, NEW n \in Nat, NEW q \in Nat,
         p * ReqLen + n + q <= MaxReq * ReqLen,
         n >= ReqLen
  PROVE  /\ p + 1 \in 1 .. MaxReq
         /\ (p + 1) * ReqLen + (n - ReqLen) + q <= MaxReq * ReqLen
<1>1. (p + 1) * ReqLen = p * ReqLen + ReqLen
  BY WorkerAssumption
<1>2. (p + 1) * ReqLen <= MaxReq * ReqLen
  BY <1>1, WorkerAssumption
<1>3. p + 1 <= MaxReq
  BY <1>2, WorkerAssumption
<1> QED
  BY <1>1, <1>3, WorkerAssumption

-----------------------------------------------------------------------------
(* The operations on a connection's record.                                *)

LEMMA ResponseType ==
  ASSUME NEW r \in Nat
  PROVE  Response(r) \in Seq(Nat \X Nat) /\ Len(Response(r)) = RespLen
  BY WorkerAssumption DEF Response

\* A closed record is well-formed and waits for nothing.
LEMMA CloseOK ==
  ASSUME NEW k \in ConnRec,
         k.parsed * ReqLen + k.rlen + k.inq <= MaxReq * ReqLen
  PROVE  /\ Close(k) \in ConnRec
         /\ Close(k).state = "freed"
         /\ Close(k).parsed = k.parsed
         /\ ConnOK(Close(k))
<1> DEFINE x == Close(k)
<1>1. x \in ConnRec
  <2>1. "freed" \in States /\ "none" \in Interest /\ <<>> \in Seq(Nat \X Nat)
    BY DEF States, Interest
  <2> QED
    BY <2>1 DEF Close, EpollDel, ConnRec
<1>2. /\ x.state = "freed" /\ x.reg = "none"
      /\ x.inq = 0 /\ x.rlen = 0
      /\ x.parsed = k.parsed
  BY DEF Close, EpollDel, ConnRec
<1>3. /\ k.parsed \in Nat /\ k.rlen \in Nat /\ k.inq \in Nat
      /\ k.parsed * ReqLen \in Nat /\ MaxReq * ReqLen \in Nat
  BY WorkerAssumption DEF ConnRec
<1>4. x.parsed * ReqLen + x.rlen + x.inq <= MaxReq * ReqLen
  BY <1>2, <1>3
<1>5. ConnOK(x)
  BY <1>2, <1>4 DEF ConnOK, Waits
<1> QED
  BY <1>1, <1>2, <1>5

\* An answered record has output to write.
LEMMA AnswerOK ==
  ASSUME NEW k \in ConnRec, NEW r \in Nat,
         k.wbuf = <<>>, k.woff = 0,
         k.parsed * ReqLen + k.rlen + k.inq <= MaxReq * ReqLen
  PROVE  LET x == Answer(k, r)
         IN /\ x \in ConnRec
            /\ x.state = "writing"
            /\ x.reg = k.reg
            /\ x.parsed = k.parsed
            /\ x.woff < Len(x.wbuf)
            /\ x.parsed * ReqLen + x.rlen + x.inq <= MaxReq * ReqLen
<1> DEFINE x == Answer(k, r)
<1>1. k.wbuf \o Response(r) \in Seq(Nat \X Nat) /\ Len(k.wbuf \o Response(r)) = RespLen
  <2> DEFINE S == Nat \X Nat
             s == Response(r)
  <2>1. k.wbuf \in Seq(S) /\ Len(k.wbuf) = 0
    BY DEF ConnRec
  <2>2. s \in Seq(S) /\ Len(s) = RespLen
    BY ResponseType
  <2> HIDE DEF S, s
  <2>3. k.wbuf \o s \in Seq(S) /\ Len(k.wbuf \o s) = Len(k.wbuf) + Len(s)
    BY <2>1, <2>2, ConcatProperties
  <2>4. Len(k.wbuf \o s) = RespLen
    BY <2>1, <2>2, <2>3, WorkerAssumption
  <2> QED
    BY <2>3, <2>4 DEF S, s
<1>2. x \in ConnRec
  BY <1>1 DEF Answer, ConnRec, States, Interest
<1>3. /\ x.state = "writing" /\ x.reg = k.reg /\ x.parsed = k.parsed
      /\ x.rlen = k.rlen /\ x.inq = k.inq
      /\ x.woff = k.woff /\ x.wbuf = k.wbuf \o Response(r)
  BY DEF Answer, ConnRec
<1>4. x.woff < Len(x.wbuf)
  BY <1>1, <1>3, WorkerAssumption
<1> QED
  BY <1>2, <1>3, <1>4

\* What the epoll operations do to a record: they touch the registration only.
LEMMA EpollOK ==
  ASSUME NEW k \in ConnRec, NEW ev \in {"in", "out"}
  PROVE  /\ EpollDel(k) \in ConnRec
         /\ EpollDel(k).reg = "none"
         /\ k.reg = "none" => EpollAdd(k, ev) \in ConnRec /\ EpollAdd(k, ev).reg = ev
         /\ k.reg # "none" => EpollMod(k, ev) \in ConnRec /\ EpollMod(k, ev).reg = ev
         /\ \A x \in {EpollDel(k), EpollAdd(k, ev), EpollMod(k, ev)} :
              /\ x.state = k.state /\ x.parsed = k.parsed
              /\ x.rlen = k.rlen /\ x.inq = k.inq
              /\ x.wbuf = k.wbuf /\ x.woff = k.woff
  BY DEF EpollDel, EpollAdd, EpollMod, ConnRec, Interest

\* Resuming a suspended record leaves it writing, watched for that.
LEMMA ResumeOK ==
  ASSUME NEW k \in ConnRec, NEW r \in Nat,
         k.state = "pending", ConnOK(k)
  PROVE  /\ Resume(k, r) \in ConnRec
         /\ Resume(k, r).state = "writing"
         /\ Resume(k, r).parsed = k.parsed
         /\ ConnOK(Resume(k, r))
<1> DEFINE a == Answer(k, r)
           x == EpollAdd(a, "out")
<1>1. /\ k.reg = "none" /\ k.wbuf = <<>> /\ k.woff = 0
      /\ k.parsed * ReqLen + k.rlen + k.inq <= MaxReq * ReqLen
  BY DEF ConnOK, Waits
<1>2. /\ a \in ConnRec /\ a.state = "writing" /\ a.reg = "none"
      /\ a.parsed = k.parsed
      /\ a.woff < Len(a.wbuf)
      /\ a.parsed * ReqLen + a.rlen + a.inq <= MaxReq * ReqLen
  BY <1>1, AnswerOK
<1>3. /\ x \in ConnRec /\ x.reg = "out" /\ x.state = "writing" /\ x.parsed = a.parsed
      /\ x.rlen = a.rlen /\ x.inq = a.inq /\ x.wbuf = a.wbuf /\ x.woff = a.woff
  BY <1>2, EpollOK
<1>4. ConnOK(x)
  BY <1>2, <1>3 DEF ConnOK, Waits
<1> QED
  BY <1>2, <1>3, <1>4 DEF Resume

\* Suspending a record after its request was taken.
LEMMA SuspendOK ==
  ASSUME NEW k \in ConnRec,
         k.wbuf = <<>>, k.woff = 0,
         k.parsed * ReqLen + k.rlen + k.inq <= MaxReq * ReqLen
  PROVE  /\ Suspend(k) \in ConnRec
         /\ Suspend(k).state = "pending"
         /\ Suspend(k).parsed = k.parsed
         /\ ConnOK(Suspend(k))
<1> DEFINE a == [k EXCEPT !.state = "pending"]
           x == EpollDel(a)
<1>1. "pending" \in States
  BY DEF States
<1>2. /\ a \in ConnRec /\ a.state = "pending" /\ a.parsed = k.parsed
      /\ a.rlen = k.rlen /\ a.inq = k.inq /\ a.wbuf = k.wbuf /\ a.woff = k.woff
  BY <1>1 DEF ConnRec
<1>3. /\ x \in ConnRec /\ x.reg = "none" /\ x.state = "pending" /\ x.parsed = k.parsed
      /\ x.rlen = k.rlen /\ x.inq = k.inq /\ x.wbuf = k.wbuf /\ x.woff = k.woff
  BY <1>2, EpollOK
<1>4. ConnOK(x)
  BY <1>3 DEF ConnOK, Waits
<1> QED
  BY <1>3, <1>4 DEF Suspend

\* A record that may be handed to js_http_process.
CanProcess(k) ==
    /\ k \in ConnRec
    /\ k.state = "reading" /\ k.reg = "in"
    /\ k.wbuf = <<>> /\ k.woff = 0
    /\ k.parsed * ReqLen + k.rlen + k.inq <= MaxReq * ReqLen

LEMMA ReuseOK ==
  ASSUME NEW k \in ConnRec, k.reg = "out",
         k.parsed * ReqLen + k.rlen + k.inq <= MaxReq * ReqLen
  PROVE  CanProcess(Reuse(k))
<1> DEFINE a == [k EXCEPT !.wbuf = <<>>, !.woff = 0, !.state = "reading"]
           x == EpollMod(a, "in")
<1>1. "reading" \in States /\ <<>> \in Seq(Nat \X Nat)
  BY DEF States
<1>2. a \in ConnRec
  BY <1>1 DEF ConnRec
<1>3. /\ a.state = "reading" /\ a.parsed = k.parsed /\ a.reg = "out"
      /\ a.rlen = k.rlen /\ a.inq = k.inq /\ a.wbuf = <<>> /\ a.woff = 0
  BY DEF ConnRec
<1>4. x = Reuse(k)
  BY DEF Reuse
<1> HIDE DEF a
<1>5. /\ x \in ConnRec /\ x.reg = "in" /\ x.state = "reading" /\ x.parsed = k.parsed
      /\ x.rlen = k.rlen /\ x.inq = k.inq /\ x.wbuf = <<>> /\ x.woff = 0
  BY <1>2, <1>3, EpollOK
<1> HIDE DEF x
<1> QED
  BY <1>4, <1>5 DEF CanProcess

\* An answered record that keeps its registration changed to "out".
LEMMA RespondOK ==
  ASSUME NEW k, CanProcess(k), NEW r \in Nat
  PROVE  LET x == EpollMod(Answer(k, r), "out")
         IN x \in ConnRec /\ x.state = "writing" /\ ConnOK(x)
<1> DEFINE a == Answer(k, r)
           x == EpollMod(a, "out")
<1>1. /\ a \in ConnRec /\ a.state = "writing" /\ a.reg = "in"
      /\ a.woff < Len(a.wbuf)
      /\ a.parsed * ReqLen + a.rlen + a.inq <= MaxReq * ReqLen
  BY AnswerOK DEF CanProcess
<1>2. /\ x \in ConnRec /\ x.reg = "out" /\ x.state = "writing" /\ x.parsed = a.parsed
      /\ x.rlen = a.rlen /\ x.inq = a.inq /\ x.wbuf = a.wbuf /\ x.woff = a.woff
  BY <1>1, EpollOK
<1> QED
  BY <1>1, <1>2 DEF ConnOK, Waits

\* Taking a request off the buffer.
LEMMA TakeOK ==
  ASSUME NEW k, CanProcess(k), k.rlen >= ReqLen, NEW keepAlive \in BOOLEAN
  PROVE  LET p == [k EXCEPT !.rlen = @ - ReqLen, !.parsed = k.parsed + 1, !.keep = keepAlive]
         IN /\ k.parsed + 1 \in 1 .. MaxReq
            /\ CanProcess(p)
            /\ p.parsed = k.parsed + 1
<1> DEFINE p == [k EXCEPT !.rlen = @ - ReqLen, !.parsed = k.parsed + 1, !.keep = keepAlive]
<1>1. /\ k \in ConnRec /\ k.parsed \in Nat /\ k.rlen \in Nat /\ k.inq \in Nat
      /\ k.rlen - ReqLen \in Nat
  BY WorkerAssumption DEF CanProcess, ConnRec
<1>2. /\ k.parsed + 1 \in 1 .. MaxReq
      /\ (k.parsed + 1) * ReqLen + (k.rlen - ReqLen) + k.inq <= MaxReq * ReqLen
  BY <1>1, RequestInBound DEF CanProcess
<1>3. k.parsed + 1 \in 0 .. MaxReq
  BY <1>2
<1>4. p \in ConnRec
  BY <1>1, <1>3 DEF ConnRec
<1>5. /\ p.rlen = k.rlen - ReqLen /\ p.parsed = k.parsed + 1 /\ p.inq = k.inq
      /\ p.state = k.state /\ p.reg = k.reg /\ p.wbuf = k.wbuf /\ p.woff = k.woff
  BY <1>1 DEF ConnRec
<1>6. CanProcess(p)
  BY <1>2, <1>4, <1>5 DEF CanProcess
<1> QED
  BY <1>2, <1>5, <1>6

-----------------------------------------------------------------------------
(* Steps: what preserves the invariant, whatever action takes it.          *)

\* A batch holds at most one event of a connection.
LEMMA OneEvent ==
  ASSUME IInv, NEW c \in Conn, NEW v, <<c, v>> \in batch, NEW ev \in batch \ {<<c, v>>}
  PROVE  ev[1] # c
<1>1. ev \in Conn \X Interest
  BY DEF IInv, TypeOK
<1>2. ev = <<ev[1], ev[2]>>
  BY <1>1
<1>3. conn[c].reg = v
  BY DEF IInv, BatchFresh
<1>4. conn[ev[1]].reg = ev[2]
  BY DEF IInv, BatchFresh
<1> QED
  BY <1>2, <1>3, <1>4

LEMMA FreshType ==
  ASSUME NEW e, NEW new \in SUBSET FreshOf(e)
  PROVE  \A t \in new : t \in Timer /\ ExecOf(t) = e /\ timer[t] = "none"
  BY DEF FreshOf

\* Setting timeouts arms them, and leaves the others as they were.
LEMMA SetTimeoutsOK ==
  ASSUME NEW e, NEW new \in SUBSET FreshOf(e),
         NEW life \in [Timer -> {"none", "armed", "freed"}],
         left \in [Timer -> 0 .. MaxDelay],
         SetTimeouts(new, life)
  PROVE  /\ timer' \in [Timer -> {"none", "armed", "freed"}]
         /\ left' \in [Timer -> 0 .. MaxDelay]
         /\ \A t \in Timer : timer'[t] = IF t \in new THEN "armed" ELSE life[t]
         /\ new = {} => timer' = life
<1>1. timer' = [t \in Timer |-> IF t \in new THEN "armed" ELSE life[t]]
  BY DEF SetTimeouts
<1>2. left' \in [Timer -> 0 .. MaxDelay]
  <2>1. PICK delay \in [new -> Delays] :
           left' = [t \in Timer |-> IF t \in new THEN delay[t]
                                    ELSE IF life[t] = "armed" THEN left[t] ELSE 0]
    BY DEF SetTimeouts
  <2>2. \A t \in new : delay[t] \in 0 .. MaxDelay
    BY DEF Delays
  <2> QED
    BY <2>1, <2>2, WorkerAssumption
<1> QED
  BY <1>1, <1>2

\* The part of the state a step of the loop may change freely.
LoopTyped ==
    /\ pc' \in {"find", "poll", "dispatch", "fire"}
    /\ wake' \in 0 .. Forever
    /\ knock' \in BOOLEAN
    /\ wire' \in [Conn -> Seq(Nat \X Nat)]

\* A step that rewrites one connection's record and neither suspends nor resumes it.
LEMMA ConnStep ==
  ASSUME IInv, LoopTyped, left' \in [Timer -> 0 .. MaxDelay],
         NEW c \in Conn, NEW x \in ConnRec, ConnOK(x),
         conn' = [conn EXCEPT ![c] = x],
         x.state = "pending" \/ conn[c].state = "pending" =>
             x.state = conn[c].state /\ x.parsed = conn[c].parsed,
         UNCHANGED <<cursor, exec, resolved, timer>>,
         batch' \subseteq batch,
         \A ev \in batch' : ev[1] = c => x.reg = conn[c].reg
  PROVE  IInv'
<1>1. TypeOK'
  BY DEF IInv, TypeOK, LoopTyped
<1>2. \A d \in Conn : conn'[d] = IF d = c THEN x ELSE conn[d]
  BY DEF IInv, TypeOK
<1>3. ConnsOK'
  BY <1>2 DEF IInv, ConnsOK
<1>4. SuspendedIffExecuting'
  <2>1. \A d \in Conn, r \in 1 .. MaxReq :
           (conn'[d].state = "pending" /\ conn'[d].parsed = r)
             <=> (conn[d].state = "pending" /\ conn[d].parsed = r)
    BY <1>2
  <2> QED
    BY <2>1 DEF IInv, SuspendedIffExecuting
<1>5. SettledHasTimeout' /\ CursorInTree'
  BY DEF IInv, SettledHasTimeout, CursorInTree, ArmedOf, Armed
<1>6. TimerOwnerAlive'
  <2>1. SUFFICES ASSUME NEW t \in Timer, timer[t] = "armed"
                 PROVE  exec[ExecOf(t)] = "heap" /\ conn'[ExecOf(t)[1]].state = "pending"
    BY DEF TimerOwnerAlive, Armed
  <2>2. exec[ExecOf(t)] = "heap" /\ conn[ExecOf(t)[1]].state = "pending"
    BY <2>1 DEF IInv, TimerOwnerAlive, Armed
  <2>3. ExecOf(t)[1] \in Conn
    BY ExecOfType, ExecParts
  <2> QED
    BY <1>2, <2>2, <2>3
<1>7. BatchFresh'
  <2>1. SUFFICES ASSUME NEW ev \in batch'
                 PROVE  conn'[ev[1]].reg = ev[2] /\ ev[2] # "none"
    BY DEF BatchFresh
  <2>2. ev \in batch /\ ev[1] \in Conn
    BY <2>1 DEF IInv, TypeOK
  <2>3. conn[ev[1]].reg = ev[2] /\ ev[2] # "none"
    BY <2>2 DEF IInv, BatchFresh
  <2> QED
    BY <1>2, <2>2, <2>3
<1> QED
  BY <1>1, <1>3, <1>4, <1>5, <1>6, <1>7 DEF IInv

\* A step that suspends a connection and puts an execution on the heap.
LEMMA SuspendStep ==
  ASSUME IInv, LoopTyped,
         NEW c \in Conn, NEW x \in ConnRec, ConnOK(x),
         x.state = "pending", x.parsed \in 1 .. MaxReq, conn[c].state # "pending",
         NEW done \in BOOLEAN, NEW new \in SUBSET FreshOf(<<c, x.parsed>>),
         MustDefer(done, new),
         SetTimeouts(new, timer),
         conn' = [conn EXCEPT ![c] = x],
         exec' = [exec EXCEPT ![<<c, x.parsed>>] = "heap"],
         resolved' = [resolved EXCEPT ![<<c, x.parsed>>] = done],
         UNCHANGED cursor,
         batch' \subseteq batch,
         \A ev \in batch' : ev[1] # c
  PROVE  IInv'
<1> DEFINE e == <<c, x.parsed>>
<1>e. e \in Exec
  BY DEF Exec
<1>t. /\ timer' \in [Timer -> {"none", "armed", "freed"}]
      /\ left' \in [Timer -> 0 .. MaxDelay]
      /\ \A t \in Timer : timer'[t] = IF t \in new THEN "armed" ELSE timer[t]
  BY SetTimeoutsOK DEF IInv, TypeOK
<1>n. \A t \in new : t \in Timer /\ ExecOf(t) = e
  BY FreshType
<1>1. TypeOK'
  BY <1>e, <1>t DEF IInv, TypeOK, LoopTyped
<1>2. \A d \in Conn : conn'[d] = IF d = c THEN x ELSE conn[d]
  BY DEF IInv, TypeOK
<1>3. \A f \in Exec : /\ exec'[f] = IF f = e THEN "heap" ELSE exec[f]
                      /\ resolved'[f] = IF f = e THEN done ELSE resolved[f]
  BY DEF IInv, TypeOK
<1>4. ConnsOK'
  BY <1>2 DEF IInv, ConnsOK
<1>5. SuspendedIffExecuting'
  <2>1. SUFFICES ASSUME NEW d \in Conn, NEW r \in 1 .. MaxReq
                 PROVE  exec'[<<d, r>>] = "heap"
                          <=> (conn'[d].state = "pending" /\ conn'[d].parsed = r)
    BY DEF SuspendedIffExecuting
  <2>2. <<d, r>> \in Exec
    BY DEF Exec
  <2>3. exec[<<d, r>>] = "heap" <=> (conn[d].state = "pending" /\ conn[d].parsed = r)
    BY DEF IInv, SuspendedIffExecuting
  <2> QED
    BY <1>2, <1>3, <2>2, <2>3
<1>6. SettledHasTimeout'
  <2>1. SUFFICES ASSUME NEW f \in Exec, exec'[f] = "heap", resolved'[f]
                 PROVE  \E t \in Timer : timer'[t] = "armed" /\ ExecOf(t) = f
    BY DEF SettledHasTimeout, ArmedOf, Armed
  <2>2. CASE f = e
    <3>1. new # {}
      BY <1>3, <2>1, <2>2 DEF MustDefer
    <3> QED
      BY <1>t, <1>n, <2>2, <3>1
  <2>3. CASE f # e
    <3>1. PICK t \in Timer : timer[t] = "armed" /\ ExecOf(t) = f
      BY <1>3, <2>1, <2>3 DEF IInv, SettledHasTimeout, ArmedOf, Armed
    <3> QED
      BY <1>t, <3>1
  <2> QED
    BY <2>2, <2>3
<1>7. TimerOwnerAlive'
  <2>1. SUFFICES ASSUME NEW t \in Timer, timer'[t] = "armed"
                 PROVE  exec'[ExecOf(t)] = "heap" /\ conn'[ExecOf(t)[1]].state = "pending"
    BY DEF TimerOwnerAlive, Armed
  <2>2. ExecOf(t) \in Exec /\ ExecOf(t)[1] \in Conn
    BY ExecOfType, ExecParts
  <2>3. CASE t \in new
    <3>1. ExecOf(t) = e /\ e[1] = c
      BY <1>n, <2>3
    <3> QED
      BY <1>2, <1>3, <2>2, <3>1
  <2>4. CASE t \notin new
    <3>1. exec[ExecOf(t)] = "heap" /\ conn[ExecOf(t)[1]].state = "pending"
      BY <1>t, <2>1, <2>4 DEF IInv, TimerOwnerAlive, Armed
    <3> QED
      BY <1>2, <1>3, <2>2, <3>1
  <2> QED
    BY <2>3, <2>4
<1>8. CursorInTree'
  <2>1. cursor # NoTimer => cursor \in Timer /\ timer[cursor] = "armed"
    BY DEF IInv, TypeOK, CursorInTree
  <2> QED
    BY <1>t, <2>1 DEF CursorInTree
<1>9. BatchFresh'
  <2>1. SUFFICES ASSUME NEW ev \in batch'
                 PROVE  conn'[ev[1]].reg = ev[2] /\ ev[2] # "none"
    BY DEF BatchFresh
  <2>2. ev \in batch /\ ev[1] \in Conn
    BY <2>1 DEF IInv, TypeOK
  <2> QED
    BY <1>2, <2>1, <2>2 DEF IInv, BatchFresh
<1> QED
  BY <1>1, <1>4, <1>5, <1>6, <1>7, <1>8, <1>9 DEF IInv

\* A step that touches no connection, execution or timer.
LEMMA QuietStep ==
  ASSUME IInv, LoopTyped, left' \in [Timer -> 0 .. MaxDelay],
         UNCHANGED <<conn, exec, resolved, timer>>,
         cursor' = NoTimer \/ (cursor' \in Timer /\ timer[cursor'] = "armed"),
         \A ev \in batch' : /\ ev \in Conn \X Interest
                           /\ conn[ev[1]].reg = ev[2]
                           /\ ev[2] # "none"
  PROVE  IInv'
<1>1. TypeOK'
  BY DEF IInv, TypeOK, LoopTyped
<1>2. ConnsOK' /\ SuspendedIffExecuting'
  BY DEF IInv, ConnsOK, SuspendedIffExecuting
<1>3. SettledHasTimeout' /\ TimerOwnerAlive'
  BY DEF IInv, SettledHasTimeout, TimerOwnerAlive, ArmedOf, Armed
<1>4. CursorInTree' /\ BatchFresh'
  BY DEF CursorInTree, BatchFresh
<1> QED
  BY <1>1, <1>2, <1>3, <1>4 DEF IInv

\* A batch that only loses events stays fresh while no connection changes.
LEMMA BatchShrinks ==
  ASSUME IInv, batch' \subseteq batch
  PROVE  \A ev \in batch' : /\ ev \in Conn \X Interest
                           /\ conn[ev[1]].reg = ev[2]
                           /\ ev[2] # "none"
  BY DEF IInv, TypeOK, BatchFresh

\* js_http_process, on a connection that is not suspended and has no other event.
LEMMA ProcessStep ==
  ASSUME IInv, LoopTyped,
         NEW c \in Conn, conn[c].state # "pending",
         NEW k, CanProcess(k), Process(c, k),
         UNCHANGED cursor,
         batch' \subseteq batch,
         \A ev \in batch' : ev[1] # c
  PROVE  IInv'
<1>k. k \in ConnRec /\ k.parsed * ReqLen + k.rlen + k.inq <= MaxReq * ReqLen
  BY DEF CanProcess
<1>1. CASE k.rlen < ReqLen /\ conn' = [conn EXCEPT ![c] = k] /\ UNCHANGED scriptVars
  <2>1. ConnOK(k) /\ k.state # "pending"
    BY <1>1 DEF CanProcess, ConnOK, Waits
  <2>2. left' \in [Timer -> 0 .. MaxDelay] /\ UNCHANGED <<exec, resolved, timer>>
    BY <1>1 DEF scriptVars, IInv, TypeOK
  <2> QED
    BY <1>k, <1>1, <2>1, <2>2, ConnStep
<1>2. CASE conn' = [conn EXCEPT ![c] = Close(k)] /\ UNCHANGED scriptVars
  <2>1. ConnOK(Close(k)) /\ Close(k) \in ConnRec /\ Close(k).state # "pending"
    BY <1>k, CloseOK
  <2>2. left' \in [Timer -> 0 .. MaxDelay] /\ UNCHANGED <<exec, resolved, timer>>
    BY <1>2 DEF scriptVars, IInv, TypeOK
  <2> HIDE DEF Close
  <2> QED
    BY <1>2, <2>1, <2>2, ConnStep
<1>3. ASSUME k.rlen >= ReqLen,
             NEW keepAlive \in BOOLEAN, NEW done \in BOOLEAN,
             NEW new \in SUBSET FreshOf(<<c, k.parsed + 1>>),
             NEW p,
             p = [k EXCEPT !.rlen = @ - ReqLen, !.parsed = k.parsed + 1, !.keep = keepAlive],
             SetTimeouts(new, timer),
             \/ /\ ~MustDefer(done, new)
                /\ conn' = [conn EXCEPT ![c] = EpollMod(Answer(p, k.parsed + 1), "out")]
                /\ UNCHANGED <<exec, resolved>>
             \/ /\ MustDefer(done, new)
                /\ conn' = [conn EXCEPT ![c] = Suspend(p)]
                /\ exec' = [exec EXCEPT ![<<c, k.parsed + 1>>] = "heap"]
                /\ resolved' = [resolved EXCEPT ![<<c, k.parsed + 1>>] = done]
      PROVE  IInv'
  <2>1. /\ k.parsed + 1 \in 1 .. MaxReq
        /\ CanProcess(p)
        /\ p.parsed = k.parsed + 1
    BY <1>3, TakeOK
  <2>2. /\ left' \in [Timer -> 0 .. MaxDelay]
        /\ new = {} => timer' = timer
    BY <1>3, SetTimeoutsOK DEF IInv, TypeOK
  <2>3. CASE /\ ~MustDefer(done, new)
             /\ conn' = [conn EXCEPT ![c] = EpollMod(Answer(p, k.parsed + 1), "out")]
             /\ UNCHANGED <<exec, resolved>>
    <3> DEFINE x == EpollMod(Answer(p, k.parsed + 1), "out")
    <3>1. x \in ConnRec /\ x.state = "writing" /\ ConnOK(x)
      BY <2>1, RespondOK
    <3>2. timer' = timer
      BY <2>2, <2>3 DEF MustDefer
    <3> HIDE DEF x
    <3>3. conn' = [conn EXCEPT ![c] = x]
      BY <2>3 DEF x
    <3> QED
      BY <2>2, <2>3, <3>1, <3>2, <3>3, ConnStep
  <2>4. CASE /\ MustDefer(done, new)
             /\ conn' = [conn EXCEPT ![c] = Suspend(p)]
             /\ exec' = [exec EXCEPT ![<<c, k.parsed + 1>>] = "heap"]
             /\ resolved' = [resolved EXCEPT ![<<c, k.parsed + 1>>] = done]
    <3> DEFINE x == Suspend(p)
    <3>1. /\ x \in ConnRec /\ x.state = "pending" /\ ConnOK(x)
          /\ x.parsed = k.parsed + 1
      BY <2>1, SuspendOK DEF CanProcess
    <3> HIDE DEF x
    <3>2. conn' = [conn EXCEPT ![c] = x]
      BY <2>4 DEF x
    <3> QED
      BY <1>3, <2>1, <2>4, <3>1, <3>2, SuspendStep
  <2> QED
    BY <1>3, <2>3, <2>4
<1>4. k.rlen \in Nat
  BY <1>k DEF ConnRec
<1>5. 0 \in Parsed(k) => k.rlen < ReqLen
  BY DEF Parsed
<1>6. 1 \in Parsed(k) => k.rlen >= ReqLen
  BY <1>4, WorkerAssumption DEF Parsed
<1>7. ASSUME 1 \in Parsed(k),
             NEW keepAlive \in BOOLEAN, NEW done \in BOOLEAN,
             NEW new \in SUBSET FreshOf(<<c, k.parsed + 1>>),
             NEW p,
             p = [k EXCEPT !.rlen = @ - ReqLen, !.parsed = k.parsed + 1, !.keep = keepAlive],
             HandleRequest(<<c, k.parsed + 1>>, done, new),
             conn' = [conn EXCEPT ![c] = IF MustDefer(done, new) THEN Suspend(p)
                                         ELSE EpollMod(Answer(p, k.parsed + 1), "out")]
      PROVE  IInv'
  <2>1. SetTimeouts(new, timer)
    BY <1>7 DEF HandleRequest
  <2>2. CASE MustDefer(done, new)
    BY <1>3, <1>6, <1>7, <2>1, <2>2 DEF HandleRequest
  <2>3. CASE ~MustDefer(done, new)
    BY <1>3, <1>6, <1>7, <2>1, <2>3 DEF HandleRequest
  <2> QED
    BY <2>2, <2>3
<1> QED
  BY <1>1, <1>2, <1>5, <1>7 DEF Process

-----------------------------------------------------------------------------
(* The actions, one lemma for each group of them.                          *)

LEMMA InitOK == Init => IInv
<1> SUFFICES ASSUME Init PROVE IInv
  OBVIOUS
<1>1. NewConn \in ConnRec /\ ConnOK(NewConn) /\ NewConn.state = "none"
  <2>1. "none" \in States /\ "none" \in Interest /\ <<>> \in Seq(Nat \X Nat)
    BY DEF States, Interest
  <2>2. NewConn \in ConnRec
    BY <2>1, WorkerAssumption DEF NewConn, ConnRec
  <2> QED
    BY <2>2, WorkerAssumption DEF NewConn, ConnOK, Waits
<1>2. \A c \in Conn : conn[c] = NewConn
  BY DEF Init
<1>3. TypeOK
  <2>1. conn \in [Conn -> ConnRec] /\ wire \in [Conn -> Seq(Nat \X Nat)]
    BY <1>1 DEF Init
  <2>2. wake \in 0 .. Forever /\ left \in [Timer -> 0 .. MaxDelay]
    BY WorkerAssumption DEF Init, Forever
  <2> QED
    BY <2>1, <2>2 DEF Init, TypeOK
<1>4. ConnsOK
  BY <1>1, <1>2 DEF ConnsOK
<1>5. SuspendedIffExecuting
  BY <1>1, <1>2 DEF Init, SuspendedIffExecuting, Exec
<1>6. SettledHasTimeout /\ TimerOwnerAlive /\ CursorInTree /\ BatchFresh
  BY DEF Init, SettledHasTimeout, TimerOwnerAlive, Armed, CursorInTree, BatchFresh
<1> QED
  BY <1>3, <1>4, <1>5, <1>6 DEF IInv

\* What clients and the other threads do to a connection.
LEMMA ClientsOK == IInv /\ Clients => IInv'
<1> SUFFICES ASSUME IInv,
                    NEW c \in Conn,
                    Connect(c) \/ AcceptElsewhere(c) \/ Send(c) \/ HangUp(c)
             PROVE  IInv'
  BY DEF Clients
<1>1. /\ conn[c] \in ConnRec /\ ConnOK(conn[c])
      /\ conn[c].inq \in Nat /\ conn[c].parsed \in Nat /\ conn[c].rlen \in Nat
  BY DEF IInv, TypeOK, ConnsOK, ConnRec
<1>2. LoopTyped /\ left' \in [Timer -> 0 .. MaxDelay]
  BY DEF IInv, TypeOK, LoopTyped, Connect, AcceptElsewhere, Send, HangUp, loopVars, scriptVars
<1>3. /\ UNCHANGED <<cursor, exec, resolved, timer>>
      /\ batch' \subseteq batch
  BY DEF Connect, AcceptElsewhere, Send, HangUp, loopVars, scriptVars
<1>4. CASE Connect(c)
  <2> DEFINE x == [conn[c] EXCEPT !.state = "backlog"]
  <2>1. conn[c].state = "none" /\ conn' = [conn EXCEPT ![c] = x]
    BY <1>4 DEF Connect
  <2>2. "backlog" \in States
    BY DEF States
  <2>3. x \in ConnRec /\ x.state = "backlog" /\ x.reg = conn[c].reg
    BY <1>1, <2>2 DEF ConnRec
  <2>4. ConnOK(x)
    BY <1>1, <2>1, <2>2 DEF ConnOK, Waits, ConnRec
  <2> QED
    BY <1>2, <1>3, <2>1, <2>3, <2>4, ConnStep
<1>5. CASE AcceptElsewhere(c)
  <2> DEFINE x == [conn[c] EXCEPT !.state = "elsewhere"]
  <2>1. conn[c].state = "backlog" /\ conn' = [conn EXCEPT ![c] = x]
    BY <1>5 DEF AcceptElsewhere
  <2>2. "elsewhere" \in States
    BY DEF States
  <2>3. x \in ConnRec /\ x.state = "elsewhere" /\ x.reg = conn[c].reg
    BY <1>1, <2>2 DEF ConnRec
  <2>4. ConnOK(x)
    BY <1>1, <2>1, <2>2 DEF ConnOK, Waits, ConnRec
  <2> QED
    BY <1>2, <1>3, <2>1, <2>3, <2>4, ConnStep
<1>6. CASE Send(c)
  <2> DEFINE x == [conn[c] EXCEPT !.inq = @ + 1]
  <2>1. conn' = [conn EXCEPT ![c] = x]
    BY <1>6 DEF Send
  <2>0. conn[c].inq + 1 \in Nat
    BY <1>1
  <2>2. x \in ConnRec /\ x.state = conn[c].state /\ x.reg = conn[c].reg /\ x.parsed = conn[c].parsed
    <3>1. x \in ConnRec
      BY <1>1, <2>0 DEF ConnRec
    <3> QED
      BY <1>1, <3>1 DEF ConnRec
  <2>3. x.parsed * ReqLen + x.rlen + x.inq <= MaxReq * ReqLen
    <3>1. conn[c].parsed * ReqLen + conn[c].rlen + conn[c].inq < MaxReq * ReqLen
      BY <1>6 DEF Send
    <3>2. conn[c].parsed * ReqLen \in Nat /\ MaxReq * ReqLen \in Nat
      BY <1>1, WorkerAssumption
    <3>3. x.parsed = conn[c].parsed /\ x.rlen = conn[c].rlen /\ x.inq = conn[c].inq + 1
      BY <1>1 DEF ConnRec
    <3> QED
      BY <1>1, <3>1, <3>2, <3>3
  <2>4. ConnOK(x)
    BY <1>1, <2>3 DEF ConnOK, ConnRec
  <2> QED
    BY <1>2, <1>3, <2>1, <2>2, <2>4, ConnStep
<1>7. CASE HangUp(c)
  <2> DEFINE x == [conn[c] EXCEPT !.hungup = TRUE]
  <2>1. conn' = [conn EXCEPT ![c] = x]
    BY <1>7 DEF HangUp
  <2>2. x \in ConnRec /\ x.state = conn[c].state /\ x.reg = conn[c].reg /\ x.parsed = conn[c].parsed
    BY <1>1 DEF ConnRec
  <2>3. ConnOK(x)
    BY <1>1 DEF ConnOK, ConnRec
  <2> QED
    BY <1>2, <1>3, <2>1, <2>2, <2>3, ConnStep
<1> QED
  BY <1>4, <1>5, <1>6, <1>7

\* The timer js_rbtree finds is the sentinel or one of those in the tree.
LEMMA FirstInTree ==
  ASSUME NEW ts, NEW t \in First(ts)
  PROVE  t = NoTimer \/ t \in ts
  BY DEF First

LEMMA FindOK == IInv /\ Find => IInv'
<1> SUFFICES ASSUME IInv, Find PROVE IInv'
  OBVIOUS
<1>1. /\ UNCHANGED <<batch, knock, cursor, conn, wire, exec, resolved, timer, left>>
      /\ pc' = "poll"
  BY DEF Find, scriptVars
<1>2. wake' \in 0 .. Forever
  <2>1. CASE Armed = {}
    BY <2>1, WorkerAssumption DEF Find, Forever
  <2>2. CASE Armed # {}
    <3>1. PICK t \in First(Armed) : wake' = left[t]
      BY <2>2 DEF Find
    <3>2. t \in Timer
      BY <2>2 DEF First, Armed
    <3> QED
      BY <3>1, <3>2, WorkerAssumption DEF IInv, TypeOK, Forever
  <2> QED
    BY <2>1, <2>2
<1>3. LoopTyped /\ left' \in [Timer -> 0 .. MaxDelay]
  BY <1>1, <1>2 DEF IInv, TypeOK, LoopTyped
<1>4. cursor' = NoTimer \/ (cursor' \in Timer /\ timer[cursor'] = "armed")
  BY <1>1 DEF IInv, TypeOK, CursorInTree
<1>5. batch' \subseteq batch
  BY <1>1
<1> QED
  BY <1>1, <1>3, <1>4, <1>5, BatchShrinks, QuietStep

LEMMA PollEventsOK == IInv /\ PollEvents => IInv'
<1> SUFFICES ASSUME IInv, PollEvents PROVE IInv'
  OBVIOUS
<1>1. /\ UNCHANGED <<wake, cursor, conn, wire, exec, resolved, timer, left>>
      /\ pc' = "dispatch" /\ knock' \in BOOLEAN
  BY DEF PollEvents, scriptVars
<1>2. LoopTyped /\ left' \in [Timer -> 0 .. MaxDelay]
  BY <1>1 DEF IInv, TypeOK, LoopTyped
<1>3. cursor' = NoTimer \/ (cursor' \in Timer /\ timer[cursor'] = "armed")
  BY <1>1 DEF IInv, TypeOK, CursorInTree
<1>4. \A ev \in batch' : /\ ev \in Conn \X Interest
                        /\ conn[ev[1]].reg = ev[2]
                        /\ ev[2] # "none"
  <2>1. SUFFICES ASSUME NEW c \in Conn, Ready(c)
                 PROVE  conn[c].reg \in Interest /\ conn[c].reg # "none"
    BY DEF PollEvents
  <2> QED
    BY <2>1 DEF Ready, Interest
<1> QED
  BY <1>1, <1>2, <1>3, <1>4, QuietStep

LEMMA ExpireOK ==
  ASSUME IInv, NEW gain \in 0 .. MaxDelay, Expire(gain), UNCHANGED <<batch, knock>>
  PROVE  IInv'
<1>1. /\ UNCHANGED <<wake, knock, conn, wire, exec, resolved, timer>>
      /\ pc' \in {"find", "fire"}
      /\ cursor' = NoTimer \/ cursor' \in First(Armed)
  BY DEF Expire
<1>2. left' \in [Timer -> 0 .. MaxDelay]
  <2>1. left' = [t \in Timer |-> IF left[t] > gain THEN left[t] - gain ELSE 0]
    BY DEF Expire
  <2>2. \A t \in Timer : left[t] \in 0 .. MaxDelay
    BY DEF IInv, TypeOK
  <2> QED
    BY <2>1, <2>2, WorkerAssumption
<1>3. LoopTyped
  BY <1>1 DEF IInv, TypeOK, LoopTyped
<1>4. cursor' = NoTimer \/ (cursor' \in Timer /\ timer[cursor'] = "armed")
  BY <1>1, FirstInTree DEF Armed
<1>5. batch' \subseteq batch
  OBVIOUS
<1> QED
  BY <1>1, <1>2, <1>3, <1>4, <1>5, BatchShrinks, QuietStep

LEMMA LoopExpireOK == IInv /\ (\E gain \in 0 .. MaxDelay : LoopExpire(gain)) => IInv'
<1> SUFFICES ASSUME IInv, NEW gain \in 0 .. MaxDelay, LoopExpire(gain) PROVE IInv'
  OBVIOUS
<1>1. Expire(gain) /\ UNCHANGED <<batch, knock>>
  BY DEF LoopExpire, PollTimeout, PollInterrupted, EventsDone
<1> QED
  BY <1>1, ExpireOK

LEMMA OnAcceptOK == IInv /\ OnAccept => IInv'
<1> SUFFICES ASSUME IInv, OnAccept PROVE IInv'
  OBVIOUS
<1>1. UNCHANGED <<pc, wake, batch, cursor, wire, exec, resolved, timer, left>> /\ knock' = FALSE
  BY DEF OnAccept, scriptVars
<1>2. LoopTyped /\ left' \in [Timer -> 0 .. MaxDelay]
  BY <1>1 DEF IInv, TypeOK, LoopTyped
<1>3. CASE UNCHANGED conn
  <2>1. cursor' = NoTimer \/ (cursor' \in Timer /\ timer[cursor'] = "armed")
    BY <1>1 DEF IInv, TypeOK, CursorInTree
  <2>2. batch' \subseteq batch
    BY <1>1
  <2> QED
    BY <1>1, <1>2, <1>3, <2>1, <2>2, BatchShrinks, QuietStep
<1>4. ASSUME NEW c \in Backlog,
             conn' = [conn EXCEPT ![c] = EpollAdd([conn[c] EXCEPT !.state = "reading"], "in")]
      PROVE  IInv'
  <2> DEFINE a == [conn[c] EXCEPT !.state = "reading"]
             x == EpollAdd(a, "in")
  <2>1. /\ c \in Conn /\ conn[c].state = "backlog"
        /\ conn[c] \in ConnRec /\ ConnOK(conn[c])
    BY DEF Backlog, IInv, TypeOK, ConnsOK
  <2>2. "reading" \in States
    BY DEF States
  <2>3. /\ a \in ConnRec /\ a.state = "reading" /\ a.reg = "none"
        /\ a.rlen = 0 /\ a.parsed = 0 /\ a.wbuf = <<>> /\ a.woff = 0
        /\ a.parsed * ReqLen + a.rlen + a.inq <= MaxReq * ReqLen
    BY <2>1, <2>2 DEF ConnRec, ConnOK, Waits
  <2> HIDE DEF a
  <2>4. /\ x \in ConnRec /\ x.reg = "in" /\ x.state = "reading" /\ x.parsed = a.parsed
        /\ x.rlen = a.rlen /\ x.inq = a.inq /\ x.wbuf = a.wbuf /\ x.woff = a.woff
    BY <2>3, EpollOK
  <2>5. ConnOK(x)
    BY <2>3, <2>4, WorkerAssumption DEF ConnOK, Waits
  <2>6. \A ev \in batch' : ev[1] # c
    BY <1>1, <2>1 DEF IInv, BatchFresh, ConnOK, Waits
  <2>7. conn' = [conn EXCEPT ![c] = x]
    BY <1>4 DEF a
  <2> HIDE DEF x
  <2> QED
    BY <1>1, <1>2, <2>1, <2>4, <2>5, <2>6, <2>7, ConnStep
<1> QED
  BY <1>3, <1>4 DEF OnAccept

LEMMA OnReadOK == IInv /\ (\E c \in Conn : OnRead(c)) => IInv'
<1> SUFFICES ASSUME IInv, NEW c \in Conn, OnRead(c) PROVE IInv'
  OBVIOUS
<1>1. /\ UNCHANGED <<pc, wake, knock, cursor, wire>>
      /\ batch' = batch \ {<<c, "in">>}
      /\ <<c, "in">> \in batch
  BY DEF OnRead, Handled
<1>2. LoopTyped
  BY <1>1 DEF IInv, TypeOK, LoopTyped
<1>3. /\ conn[c] \in ConnRec /\ ConnOK(conn[c])
      /\ conn[c].inq \in Nat /\ conn[c].parsed \in Nat /\ conn[c].rlen \in Nat
  BY DEF IInv, TypeOK, ConnsOK, ConnRec
<1>4. /\ conn[c].reg = "in" /\ conn[c].state = "reading"
      /\ conn[c].wbuf = <<>> /\ conn[c].woff = 0
      /\ conn[c].parsed * ReqLen + conn[c].rlen + conn[c].inq <= MaxReq * ReqLen
  <2>1. conn[c].reg = "in"
    BY <1>1 DEF IInv, BatchFresh
  <2> QED
    BY <1>3, <2>1 DEF ConnOK, Waits
<1>5. batch' \subseteq batch /\ \A ev \in batch' : ev[1] # c
  BY <1>1, OneEvent
<1>6. ASSUME NEW n \in 1 .. conn[c].inq,
             Process(c, ReadSome(conn[c], n))
      PROVE  IInv'
  <2> DEFINE k == ReadSome(conn[c], n)
  <2>1. conn[c].inq - n \in Nat /\ conn[c].rlen + n \in Nat
    BY <1>3
  <2>2. k \in ConnRec
    BY <1>3, <2>1 DEF ReadSome, ConnRec
  <2>3. /\ k.state = "reading" /\ k.reg = "in" /\ k.wbuf = <<>> /\ k.woff = 0
        /\ k.parsed = conn[c].parsed
        /\ k.inq = conn[c].inq - n /\ k.rlen = conn[c].rlen + n
    BY <1>3, <1>4 DEF ReadSome, ConnRec
  <2>4. k.parsed * ReqLen + k.rlen + k.inq <= MaxReq * ReqLen
    <3>1. conn[c].parsed * ReqLen \in Nat /\ MaxReq * ReqLen \in Nat
      BY <1>3, WorkerAssumption
    <3>2. n \in Nat
      BY <1>3
    <3> QED
      BY <1>3, <1>4, <2>3, <3>1, <3>2
  <2>5. CanProcess(k)
    BY <2>2, <2>3, <2>4 DEF CanProcess
  <2>6. Process(c, k)
    BY <1>6
  <2> HIDE DEF k
  <2> QED
    BY <1>1, <1>2, <1>4, <1>5, <2>5, <2>6, ProcessStep
<1>7. CASE conn' = [conn EXCEPT ![c] = Close(conn[c])] /\ UNCHANGED scriptVars
  <2> DEFINE x == Close(conn[c])
  <2>1. ConnOK(x) /\ x \in ConnRec /\ x.state # "pending"
    BY <1>3, <1>4, CloseOK
  <2>2. left' \in [Timer -> 0 .. MaxDelay] /\ UNCHANGED <<exec, resolved, timer>>
    BY <1>7 DEF scriptVars, IInv, TypeOK
  <2>3. conn' = [conn EXCEPT ![c] = x]
    BY <1>7
  <2> HIDE DEF x
  <2> QED
    BY <1>1, <1>2, <1>4, <1>5, <2>1, <2>2, <2>3, ConnStep
<1> QED
  BY <1>6, <1>7 DEF OnRead

\* What a write appends to the socket is output.
LEMMA WireType ==
  ASSUME NEW S, NEW sent \in Seq(S), NEW b \in Seq(S), NEW m \in Nat, NEW n \in Nat,
         m + n <= Len(b)
  PROVE  sent \o SubSeq(b, m + 1, m + n) \in Seq(S)
<1>1. \A i \in m + 1 .. m + n : b[i] \in S
  OBVIOUS
<1>2. SubSeq(b, m + 1, m + n) \in Seq(S)
  BY <1>1, SubSeqProperties
<1> QED
  BY <1>2, ConcatProperties

LEMMA OnWriteOK == IInv /\ (\E c \in Conn : OnWrite(c)) => IInv'
<1> SUFFICES ASSUME IInv, NEW c \in Conn, OnWrite(c) PROVE IInv'
  OBVIOUS
<1> DEFINE k == conn[c]
<1>1. /\ UNCHANGED <<pc, wake, knock, cursor>>
      /\ batch' = batch \ {<<c, "out">>}
      /\ <<c, "out">> \in batch
  BY DEF OnWrite, Handled
<1>2. /\ k \in ConnRec /\ ConnOK(k)
      /\ k.inq \in Nat /\ k.parsed \in Nat /\ k.rlen \in Nat /\ k.woff \in Nat
      /\ k.wbuf \in Seq(Nat \X Nat) /\ Len(k.wbuf) \in Nat
  BY DEF IInv, TypeOK, ConnsOK, ConnRec
<1>3. /\ k.reg = "out" /\ k.state = "writing"
      /\ k.woff < Len(k.wbuf)
      /\ k.parsed * ReqLen + k.rlen + k.inq <= MaxReq * ReqLen
  <2>1. k.reg = "out"
    BY <1>1 DEF IInv, BatchFresh
  <2> QED
    BY <1>2, <2>1 DEF ConnOK, Waits
<1>4. batch' \subseteq batch /\ \A ev \in batch' : ev[1] # c
  BY <1>1, OneEvent
<1> HIDE DEF k
<1>5. ASSUME wire' \in [Conn -> Seq(Nat \X Nat)],
             conn' = [conn EXCEPT ![c] = Close(k)], UNCHANGED scriptVars
      PROVE  IInv'
  <2> DEFINE x == Close(k)
  <2>1. ConnOK(x) /\ x \in ConnRec /\ x.state # "pending"
    BY <1>2, <1>3, CloseOK
  <2>2. left' \in [Timer -> 0 .. MaxDelay] /\ UNCHANGED <<exec, resolved, timer>>
    BY <1>5 DEF scriptVars, IInv, TypeOK
  <2>3. conn' = [conn EXCEPT ![c] = x]
    BY <1>5
  <2>4. LoopTyped
    BY <1>1, <1>5 DEF IInv, TypeOK, LoopTyped
  <2> HIDE DEF x
  <2> QED
    BY <1>1, <1>3, <1>4, <2>1, <2>2, <2>3, <2>4, ConnStep DEF k
<1>6. CASE conn' = [conn EXCEPT ![c] = Close(k)] /\ UNCHANGED <<wire, scriptVars>>
  BY <1>5, <1>6 DEF IInv, TypeOK
<1>7. ASSUME NEW n \in Written(k),
             wire' = [wire EXCEPT ![c] = @ \o SubSeq(k.wbuf, k.woff + 1, k.woff + n)],
             \/ /\ n = 0 \/ k.woff + n < Len(k.wbuf)
                /\ conn' = [conn EXCEPT ![c] = [k EXCEPT !.woff = @ + n]]
                /\ UNCHANGED scriptVars
             \/ /\ conn' = [conn EXCEPT ![c] = Close(k)]
                /\ UNCHANGED scriptVars
             \/ GoOn(c, [k EXCEPT !.woff = @ + n])
      PROVE  IInv'
  <2>1. n \in Nat /\ k.woff + n <= Len(k.wbuf)
    <3> DEFINE m == k.woff
               all == Len(k.wbuf)
    <3>1. m \in Nat /\ all \in Nat /\ m <= all
      BY <1>2, <1>3
    <3>2. n \in IF m = all THEN {0} ELSE 1 .. all - m
      BY <1>7 DEF Written
    <3> HIDE DEF m, all
    <3>3. n \in Nat /\ m + n <= all
      BY <3>1, <3>2
    <3>4. QED
      BY <3>3 DEF m, all
  <2>2. wire' \in [Conn -> Seq(Nat \X Nat)]
    <3>1. wire \in [Conn -> Seq(Nat \X Nat)]
      BY DEF IInv, TypeOK
    <3>2. wire[c] \o SubSeq(k.wbuf, k.woff + 1, k.woff + n) \in Seq(Nat \X Nat)
      <4> DEFINE S == Nat \X Nat
                 sent == wire[c]
                 b == k.wbuf
                 m == k.woff
      <4>1. sent \in Seq(S) /\ b \in Seq(S) /\ m \in Nat /\ m + n <= Len(b)
        BY <1>2, <2>1, <3>1
      <4> HIDE DEF S, sent, b, m
      <4>2. sent \o SubSeq(b, m + 1, m + n) \in Seq(S)
        BY <2>1, <4>1, WireType
      <4> QED
        BY <4>2 DEF S, sent, b, m
    <3> DEFINE s == wire[c] \o SubSeq(k.wbuf, k.woff + 1, k.woff + n)
    <3>3. wire' = [wire EXCEPT ![c] = s] /\ s \in Seq(Nat \X Nat)
      BY <1>7, <3>2
    <3> HIDE DEF s
    <3> QED
      BY <3>1, <3>3
  <2>3. LoopTyped
    BY <1>1, <2>2 DEF IInv, TypeOK, LoopTyped
  <2>4. CASE /\ n = 0 \/ k.woff + n < Len(k.wbuf)
             /\ conn' = [conn EXCEPT ![c] = [k EXCEPT !.woff = @ + n]]
             /\ UNCHANGED scriptVars
    <3> DEFINE x == [k EXCEPT !.woff = @ + n]
    <3>0. k.woff + n \in Nat /\ k.woff + n < Len(k.wbuf)
      BY <1>2, <1>3, <2>1, <2>4
    <3>1. x \in ConnRec
      BY <1>2, <3>0 DEF ConnRec
    <3>2. /\ x.state = k.state /\ x.reg = k.reg /\ x.parsed = k.parsed /\ x.rlen = k.rlen
          /\ x.inq = k.inq /\ x.wbuf = k.wbuf /\ x.woff = k.woff + n
      BY <1>2 DEF ConnRec
    <3>3. ConnOK(x)
      BY <1>2, <1>3, <3>0, <3>2 DEF ConnOK
    <3>4. left' \in [Timer -> 0 .. MaxDelay] /\ UNCHANGED <<exec, resolved, timer>>
      BY <2>4 DEF scriptVars, IInv, TypeOK
    <3>5. conn' = [conn EXCEPT ![c] = x]
      BY <2>4
    <3> HIDE DEF x
    <3> QED
      BY <1>1, <1>3, <1>4, <2>3, <3>1, <3>2, <3>3, <3>4, <3>5, ConnStep DEF k
  <2>5. CASE conn' = [conn EXCEPT ![c] = Close(k)] /\ UNCHANGED scriptVars
    BY <1>5, <2>2, <2>5
  <2>6. CASE GoOn(c, [k EXCEPT !.woff = @ + n])
    <3> DEFINE x == [k EXCEPT !.woff = @ + n]
               y == Reuse(x)
    <3>0. k.woff + n \in Nat
      BY <1>2, <2>1
    <3>1. /\ x \in ConnRec /\ x.reg = k.reg /\ x.parsed = k.parsed
          /\ x.rlen = k.rlen /\ x.inq = k.inq
      BY <1>2, <3>0 DEF ConnRec
    <3>2. Process(c, y)
      BY <2>6 DEF GoOn
    <3> HIDE DEF x
    <3>3. CanProcess(y)
      BY <1>3, <3>1, ReuseOK
    <3> HIDE DEF y
    <3>4. conn[c].state # "pending"
      BY <1>3 DEF k
    <3> QED
      BY <1>1, <1>4, <2>3, <3>2, <3>3, <3>4, ProcessStep
  <2> QED
    BY <1>7, <2>4, <2>5, <2>6
<1> QED
  BY <1>6, <1>7 DEF OnWrite, k

\* A timer fires.  Its execution is on the heap and its connection suspended;
\* the request is finished only when no other timeout of it is left, so nothing
\* the loop still points to is freed.
LEMMA FireOK == IInv /\ (\E t \in Timer : Fire(t)) => IInv'
<1> SUFFICES ASSUME IInv, NEW t \in Timer, Fire(t) PROVE IInv'
  OBVIOUS
<1> DEFINE e == ExecOf(t)
           c == e[1]
           life == [timer EXCEPT ![t] = "freed"]
<1>1. /\ UNCHANGED <<pc, wake, batch, knock, wire>>
      /\ cursor = t
      /\ cursor' \in First(Armed \ {t})
  BY DEF Fire
<1>2. e \in Exec /\ c \in Conn /\ e[2] \in 1 .. MaxReq /\ e = <<c, e[2]>>
  BY ExecOfType, ExecParts
<1>3. timer[t] = "armed" /\ exec[e] = "heap" /\ conn[c].state = "pending"
  BY <1>1, SentinelIsNoTimer DEF IInv, CursorInTree, TimerOwnerAlive, Armed
<1>4. /\ conn[c] \in ConnRec /\ ConnOK(conn[c])
      /\ conn[c].reg = "none" /\ conn[c].parsed = e[2]
  <2>1. conn[c] \in ConnRec /\ ConnOK(conn[c])
    BY <1>2 DEF IInv, TypeOK, ConnsOK
  <2>2. conn[c].reg = "none"
    BY <1>3, <2>1 DEF ConnOK, Waits
  <2> HIDE DEF e, c
  <2>3. exec[<<c, e[2]>>] = "heap"
    BY <1>2, <1>3
  <2>4. conn[c].parsed = e[2]
    BY <1>2, <2>3 DEF IInv, SuspendedIffExecuting
  <2> QED
    BY <2>1, <2>2, <2>4
<1>5. life \in [Timer -> {"none", "armed", "freed"}]
  BY DEF IInv, TypeOK
<1>6. \A u \in Timer : life[u] = IF u = t THEN "freed" ELSE timer[u]
  BY DEF IInv, TypeOK
<1>7. \/ cursor' = NoTimer
      \/ cursor' \in Timer /\ timer[cursor'] = "armed" /\ cursor' # t
  BY <1>1, FirstInTree DEF Armed
<1>8. LoopTyped
  BY <1>1 DEF IInv, TypeOK, LoopTyped
<1> HIDE DEF e, c, life
<1>9. PICK done \in BOOLEAN, new \in SUBSET FreshOf(e) :
        LET rest == (ArmedOf(e) \ {t}) \union new
        IN \/ /\ ~MayFinish(done, rest)
              /\ SetTimeouts(new, life)
              /\ resolved' = [resolved EXCEPT ![e] = done]
              /\ UNCHANGED <<conn, exec>>
           \/ /\ MayFinish(done, rest)
              /\ PendingFinish(e, life)
  BY DEF Fire, e, life
<1> DEFINE rest == (ArmedOf(e) \ {t}) \union new
<1>10. CASE /\ ~MayFinish(done, rest)
            /\ SetTimeouts(new, life)
            /\ resolved' = [resolved EXCEPT ![e] = done]
            /\ UNCHANGED <<conn, exec>>
  <2>1. /\ timer' \in [Timer -> {"none", "armed", "freed"}]
        /\ left' \in [Timer -> 0 .. MaxDelay]
        /\ \A u \in Timer : timer'[u] = IF u \in new THEN "armed" ELSE life[u]
    BY <1>5, <1>10, SetTimeoutsOK DEF IInv, TypeOK
  <2>2. \A u \in new : u \in Timer /\ ExecOf(u) = e
    BY FreshType
  <2>3. \A u \in Timer : timer[u] = "armed" /\ u # t => timer'[u] = "armed"
    BY <1>6, <2>1
  <2>4. TypeOK'
    <3>1. resolved' \in [Exec -> BOOLEAN] /\ conn' \in [Conn -> ConnRec]
      BY <1>2, <1>10 DEF IInv, TypeOK
    <3>2. exec' \in [Exec -> {"none", "heap", "freed"}]
      BY <1>10 DEF IInv, TypeOK
    <3>3. cursor' \in Timer \union {NoTimer} /\ batch' \in SUBSET (Conn \X Interest)
      BY <1>1, <1>7 DEF IInv, TypeOK
    <3> QED
      BY <1>8, <2>1, <3>1, <3>2, <3>3 DEF TypeOK, LoopTyped
  <2>5. ConnsOK' /\ SuspendedIffExecuting'
    BY <1>10 DEF IInv, ConnsOK, SuspendedIffExecuting
  <2>6. SettledHasTimeout'
    <3>1. SUFFICES ASSUME NEW f \in Exec, exec'[f] = "heap", resolved'[f]
                   PROVE  \E u \in Timer : timer'[u] = "armed" /\ ExecOf(u) = f
      BY DEF SettledHasTimeout, ArmedOf, Armed
    <3>2. CASE f = e
      <4>1. done
        BY <1>2, <1>10, <3>1, <3>2 DEF IInv, TypeOK
      <4>2. PICK u \in rest : TRUE
        BY <1>10, <4>1 DEF MayFinish
      <4> QED
        BY <2>1, <2>2, <2>3, <3>2, <4>2 DEF ArmedOf, Armed
    <3>3. CASE f # e
      <4>1. exec[f] = "heap" /\ resolved[f]
        BY <1>10, <3>1, <3>3 DEF IInv, TypeOK
      <4>2. PICK u \in Timer : timer[u] = "armed" /\ ExecOf(u) = f
        BY <4>1 DEF IInv, SettledHasTimeout, ArmedOf, Armed
      <4>3. u # t
        BY <3>3, <4>2 DEF e
      <4> QED
        BY <2>3, <4>2, <4>3
    <3> QED
      BY <3>2, <3>3
  <2>7. TimerOwnerAlive'
    <3>1. SUFFICES ASSUME NEW u \in Timer, timer'[u] = "armed"
                   PROVE  exec[ExecOf(u)] = "heap" /\ conn[ExecOf(u)[1]].state = "pending"
      BY <1>10 DEF TimerOwnerAlive, Armed
    <3>2. CASE u \in new
      BY <1>3, <2>2, <3>2 DEF c
    <3>3. CASE u \notin new
      <4>1. timer[u] = "armed"
        BY <1>6, <2>1, <3>1, <3>3
      <4> QED
        BY <4>1 DEF IInv, TimerOwnerAlive, Armed
    <3> QED
      BY <3>2, <3>3
  <2>8. CursorInTree'
    BY <1>7, <2>3 DEF CursorInTree
  <2>9. BatchFresh'
    BY <1>1, <1>10 DEF IInv, BatchFresh
  <2> QED
    BY <2>4, <2>5, <2>6, <2>7, <2>8, <2>9 DEF IInv
<1>11. CASE MayFinish(done, rest) /\ PendingFinish(e, life)
  <2> DEFINE x == Resume(conn[c], e[2])
  <2>1. ArmedOf(e) \subseteq {t}
    BY <1>11 DEF MayFinish
  <2>2. \A u \in Timer : timer[u] = "armed" /\ u # t => ExecOf(u) # e
    BY <2>1 DEF ArmedOf, Armed
  <2>3. /\ timer' = [u \in Timer |-> IF ExecOf(u) = e /\ life[u] = "armed" THEN "freed"
                                    ELSE life[u]]
        /\ left' = [u \in Timer |-> IF timer'[u] = "armed" THEN left[u] ELSE 0]
        /\ conn' = [conn EXCEPT ![c] = x]
        /\ exec' = [exec EXCEPT ![e] = "freed"]
        /\ resolved' = [resolved EXCEPT ![e] = FALSE]
    BY <1>11 DEF PendingFinish, c
  <2>4. /\ x \in ConnRec /\ x.state = "writing" /\ x.parsed = conn[c].parsed /\ ConnOK(x)
    BY <1>2, <1>3, <1>4, ResumeOK
  <2> HIDE DEF x
  <2>5. \A u \in Timer : timer'[u] = IF u = t THEN "freed" ELSE timer[u]
    BY <1>6, <2>2, <2>3
  <2>6. timer' \in [Timer -> {"none", "armed", "freed"}]
    BY <1>5, <2>3
  <2>7. left' \in [Timer -> 0 .. MaxDelay]
    BY <2>3, WorkerAssumption DEF IInv, TypeOK
  <2>8. \A d \in Conn : conn'[d] = IF d = c THEN x ELSE conn[d]
    BY <2>3 DEF IInv, TypeOK
  <2>9. \A f \in Exec : /\ exec'[f] = IF f = e THEN "freed" ELSE exec[f]
                        /\ resolved'[f] = IF f = e THEN FALSE ELSE resolved[f]
    BY <2>3 DEF IInv, TypeOK
  <2>10. TypeOK'
    <3>1. conn' \in [Conn -> ConnRec] /\ exec' \in [Exec -> {"none", "heap", "freed"}]
          /\ resolved' \in [Exec -> BOOLEAN]
      BY <1>2, <2>3, <2>4 DEF IInv, TypeOK
    <3> QED
      BY <1>1, <1>7, <1>8, <2>6, <2>7, <3>1 DEF IInv, TypeOK, LoopTyped
  <2>11. ConnsOK'
    BY <2>4, <2>8 DEF IInv, ConnsOK
  <2>12. SuspendedIffExecuting'
    <3>1. SUFFICES ASSUME NEW d \in Conn, NEW r \in 1 .. MaxReq
                   PROVE  exec'[<<d, r>>] = "heap"
                            <=> (conn'[d].state = "pending" /\ conn'[d].parsed = r)
      BY DEF SuspendedIffExecuting
    <3>2. <<d, r>> \in Exec
      BY DEF Exec
    <3>3. exec[<<d, r>>] = "heap" <=> (conn[d].state = "pending" /\ conn[d].parsed = r)
      BY DEF IInv, SuspendedIffExecuting
    <3>4. d = c => (<<d, r>> = e <=> conn[d].parsed = r)
      BY <1>2, <1>4
    <3>5. d # c => <<d, r>> # e
      BY <1>2
    <3> QED
      BY <2>4, <2>8, <2>9, <3>2, <3>3, <3>4, <3>5
  <2>13. SettledHasTimeout'
    <3>1. SUFFICES ASSUME NEW f \in Exec, exec'[f] = "heap", resolved'[f]
                   PROVE  \E u \in Timer : timer'[u] = "armed" /\ ExecOf(u) = f
      BY DEF SettledHasTimeout, ArmedOf, Armed
    <3>2. f # e /\ exec[f] = "heap" /\ resolved[f]
      BY <2>9, <3>1
    <3>3. PICK u \in Timer : timer[u] = "armed" /\ ExecOf(u) = f
      BY <3>2 DEF IInv, SettledHasTimeout, ArmedOf, Armed
    <3>4. u # t
      BY <3>2, <3>3 DEF e
    <3> QED
      BY <2>5, <3>3, <3>4
  <2>14. TimerOwnerAlive'
    <3>1. SUFFICES ASSUME NEW u \in Timer, timer'[u] = "armed"
                   PROVE  exec'[ExecOf(u)] = "heap" /\ conn'[ExecOf(u)[1]].state = "pending"
      BY DEF TimerOwnerAlive, Armed
    <3> DEFINE f == ExecOf(u)
    <3>2. timer[u] = "armed" /\ u # t
      BY <2>5, <3>1
    <3>3. /\ f \in Exec /\ f[1] \in Conn /\ f[2] \in 1 .. MaxReq /\ f = <<f[1], f[2]>>
          /\ exec[f] = "heap" /\ conn[f[1]].state = "pending"
      BY <3>2, ExecOfType, ExecParts DEF IInv, TimerOwnerAlive, Armed
    <3>4. f # e
      BY <2>2, <3>2
    <3> HIDE DEF f
    <3>5. conn[f[1]].parsed = f[2]
      BY <3>3 DEF IInv, SuspendedIffExecuting
    <3>6. f[1] # c
      BY <1>2, <1>4, <3>3, <3>4, <3>5
    <3>7. exec'[f] = "heap" /\ conn'[f[1]].state = "pending"
      BY <2>8, <2>9, <3>3, <3>4, <3>6
    <3> QED
      BY <3>7 DEF f
  <2>15. CursorInTree'
    BY <1>7, <2>5 DEF CursorInTree
  <2>16. BatchFresh'
    <3>1. SUFFICES ASSUME NEW ev \in batch
                   PROVE  conn'[ev[1]].reg = ev[2] /\ ev[2] # "none"
      BY <1>1 DEF BatchFresh
    <3>2. ev[1] \in Conn /\ conn[ev[1]].reg = ev[2] /\ ev[2] # "none"
      BY DEF IInv, TypeOK, BatchFresh
    <3> QED
      BY <1>4, <2>8, <3>2
  <2> QED
    BY <2>10, <2>11, <2>12, <2>13, <2>14, <2>15, <2>16 DEF IInv
<1> QED
  BY <1>9, <1>10, <1>11

LEMMA ExpireReturnOK == IInv /\ ExpireReturn => IInv'
<1> SUFFICES ASSUME IInv, ExpireReturn PROVE IInv'
  OBVIOUS
<1>1. /\ UNCHANGED <<wake, batch, knock, conn, wire, exec, resolved, timer, left>>
      /\ pc' = "find" /\ cursor' = NoTimer
  BY DEF ExpireReturn, scriptVars
<1>2. LoopTyped /\ left' \in [Timer -> 0 .. MaxDelay]
  BY <1>1 DEF IInv, TypeOK, LoopTyped
<1>3. batch' \subseteq batch
  BY <1>1
<1> QED
  BY <1>1, <1>2, <1>3, BatchShrinks, QuietStep

LEMMA StutterOK == IInv /\ UNCHANGED vars => IInv'
  BY DEF IInv, vars, TypeOK, ConnsOK, SuspendedIffExecuting, SettledHasTimeout,
         TimerOwnerAlive, CursorInTree, BatchFresh, ArmedOf, Armed

LEMMA NextOK == IInv /\ [Next]_vars => IInv'
  BY ClientsOK, FindOK, PollEventsOK, LoopExpireOK, OnAcceptOK, OnReadOK, OnWriteOK,
     FireOK, ExpireReturnOK, StutterOK DEF Next, Loop

-----------------------------------------------------------------------------
(* Theorems.                                                               *)

\* The inductive invariant holds in every state the worker reaches.
THEOREM Invariance == Spec => []IInv
<1>1. Init => IInv
  BY InitOK
<1>2. IInv /\ [Next]_vars => IInv'
  BY NextOK
<1> QED
  BY <1>1, <1>2, PTL DEF Spec

\* Type correctness, whatever clients and scripts do.
THEOREM TypeCorrect == Spec => []TypeOK
<1>1. IInv => TypeOK
  BY DEF IInv
<1> QED
  BY <1>1, Invariance, PTL

\* js_timer_expire never follows its saved successor into a freed timeout.
THEOREM CursorSafe == Spec => []CursorInTree
<1>1. IInv => CursorInTree
  BY DEF IInv
<1> QED
  BY <1>1, Invariance, PTL

\* js_timeout_handler never finds a freed execution or connection behind a timer.
THEOREM TimersHaveOwners == Spec => []TimerOwnerAlive
<1>1. IInv => TimerOwnerAlive
  BY DEF IInv
<1> QED
  BY <1>1, Invariance, PTL

\* A connection is suspended exactly while the execution of its newest request lives.
THEOREM OneExecution == Spec => []SuspendedIffExecuting
<1>1. IInv => SuspendedIffExecuting
  BY DEF IInv
<1> QED
  BY <1>1, Invariance, PTL

\* A settled but deferred request has a timeout that will finish it.
THEOREM SettledIsFinishable == Spec => []SettledHasTimeout
<1>1. IInv => SettledHasTimeout
  BY DEF IInv
<1> QED
  BY <1>1, Invariance, PTL

\* No event of a batch points to a connection that was freed or re-purposed.
THEOREM EventsAreFresh == Spec => []BatchFresh
<1>1. IInv => BatchFresh
  BY DEF IInv
<1> QED
  BY <1>1, Invariance, PTL

\* epoll watches each connection for exactly what its state waits for.
THEOREM InterestIsRight == Spec => []InterestMatchesState
<1>1. IInv => InterestMatchesState
  BY DEF IInv, ConnsOK, ConnOK, InterestMatchesState
<1> QED
  BY <1>1, Invariance, PTL

\* A connection waiting for input holds no complete request.
THEOREM NothingStranded == Spec => []NoStrandedRequest
<1>1. IInv => NoStrandedRequest
  BY DEF IInv, ConnsOK, ConnOK, NoStrandedRequest
<1> QED
  BY <1>1, Invariance, PTL

\* A connection waiting to write has output left.
THEOREM WritersHaveOutput == Spec => []WritingHasOutput
<1>1. IInv => WritingHasOutput
  BY DEF IInv, ConnsOK, ConnOK, WritingHasOutput
<1> QED
  BY <1>1, Invariance, PTL

-----------------------------------------------------------------------------
(* What a worker promises its clients: its connections keep Pipeline, that *)
(* is, the output of each is whole responses in order, but for the newest. *)

Unit == Nat \X Nat

\* Units sent of the response to the newest request, on a connection whose record is k
\* and whose output is w.
SentOf(k, w) == IF k.parsed = 0 THEN RespLen
                ELSE IF w = <<>> \/ w[Len(w)][1] # k.parsed THEN 0
                ELSE w[Len(w)][2]

\* The newest request asked to close.
Closing(k) == k.parsed > 0 /\ ~k.keep

\* Every response is out, and the connection may take another request.
Complete(k, w) ==
    /\ SentOf(k, w) = RespLen
    /\ ~Closing(k)

\* What is out of the newest response, in each state of the connection.
WireOK(k, w) ==
    /\ k.parsed = 0 => w = <<>>
    /\ w # <<>> => w[Len(w)][1] <= k.parsed
    /\ k.state = "reading" => Complete(k, w)
    /\ k.state = "pending" => k.parsed > 0 /\ SentOf(k, w) = 0
    /\ k.state = "writing" =>
          k.parsed > 0 /\ k.wbuf = Response(k.parsed) /\ SentOf(k, w) = k.woff

WiresOK == \A c \in Conn : WireOK(conn[c], wire[c])

\* The inductive invariant: that of WorkerProofs, and what is on the wire.
PInv == IInv /\ WiresOK

-----------------------------------------------------------------------------
(* Output.                                                                 *)

\* What a write appends to the socket: the next n units of the response.
LEMMA UnitsAre ==
  ASSUME NEW p \in Nat, NEW o \in Nat, NEW n \in Nat, o + n <= RespLen
  PROVE  LET u == SubSeq(Response(p), o + 1, o + n)
         IN /\ u \in Seq(Unit) /\ Len(u) = n
            /\ u = [j \in 1 .. n |-> <<p, o + j>>]
<1> DEFINE s == Response(p)
           u == SubSeq(s, o + 1, o + n)
           v == [j \in 1 .. n |-> <<p, o + j>>]
<1>1. s \in Seq(Unit) /\ Len(s) = RespLen /\ RespLen \in Nat
  BY ResponseType, WorkerAssumption DEF Unit
<1>2. \A i \in 1 .. RespLen : s[i] = <<p, i>>
  BY DEF Response
<1> HIDE DEF s
<1>3. /\ u \in Seq(Unit)
      /\ Len(u) = IF o + 1 <= o + n THEN (o + n) - (o + 1) + 1 ELSE 0
      /\ \A i \in 1 .. (o + n) - (o + 1) + 1 : u[i] = s[(o + 1) + i - 1]
  <2>1. o + 1 \in Int /\ o + n \in Int /\ \A i \in o + 1 .. o + n : s[i] \in Unit
    BY <1>1
  <2>2. QED
    BY <2>1, SubSeqProperties
<1> HIDE DEF u
<1>4. Len(u) = n /\ \A i \in 1 .. n : u[i] = <<p, o + i>>
  <2>1. Len(u) = n
    BY <1>3
  <2>2. ASSUME NEW i \in 1 .. n PROVE u[i] = <<p, o + i>>
    <3>1. i \in 1 .. (o + n) - (o + 1) + 1 /\ (o + 1) + i - 1 = o + i /\ o + i \in 1 .. RespLen
      BY <1>1
    <3>2. QED
      BY <1>2, <1>3, <3>1
  <2>3. QED
    BY <2>1, <2>2
<1>5. v \in Seq(Unit) /\ Len(v) = n /\ \A i \in 1 .. n : v[i] = <<p, o + i>>
  BY DEF Unit
<1> HIDE DEF v
<1>6. u = v
  BY <1>3, <1>4, <1>5, SeqEqual
<1>7. QED
  BY <1>3, <1>4, <1>6 DEF u, s, v

\* What is on the wire after it.
LEMMA WireGrows ==
  ASSUME NEW w \in Seq(Unit), NEW p \in Nat, NEW o \in Nat, NEW n \in Nat \ {0}, o + n <= RespLen
  PROVE  LET y == w \o SubSeq(Response(p), o + 1, o + n)
         IN /\ y \in Seq(Unit)
            /\ y = w \o [j \in 1 .. n |-> <<p, o + j>>]
            /\ y # <<>>
            /\ y[Len(y)] = <<p, o + n>>
<1> DEFINE u == SubSeq(Response(p), o + 1, o + n)
           y == w \o u
<1>0. n \in Nat
  OBVIOUS
<1>1. /\ u \in Seq(Unit) /\ Len(u) = n
      /\ u = [j \in 1 .. n |-> <<p, o + j>>]
  BY <1>0, UnitsAre, ZenonT(40)
<1> HIDE DEF u
<1>2. u[n] = <<p, o + n>>
  BY <1>1
<1>3. /\ y \in Seq(Unit) /\ Len(y) = Len(w) + n
      /\ \A i \in 1 .. Len(w) + n : y[i] = IF i <= Len(w) THEN w[i] ELSE u[i - Len(w)]
  BY <1>1, ConcatProperties, ZenonT(40)
<1> HIDE DEF y
<1>4. y # <<>> /\ y[Len(y)] = <<p, o + n>>
  <2>1. Len(w) \in Nat /\ Len(w) + n \in 1 .. Len(w) + n /\ ~ (Len(w) + n <= Len(w))
        /\ (Len(w) + n) - Len(w) = n
    OBVIOUS
  <2>2. y[Len(w) + n] = u[n]
    BY <1>3, <2>1
  <2>3. QED
    BY <1>2, <1>3, <2>1, <2>2
<1>5. QED
  BY <1>1, <1>3, <1>4 DEF y, u

-----------------------------------------------------------------------------
(* Steps of one connection and steps of Pipeline.                          *)

\* Record k with output w becomes record x with output y: Pipeline sees nothing of it,
Quiet(k, w, x, y) ==
    /\ x.state = "freed" <=> k.state = "freed"
    /\ x.parsed = k.parsed
    /\ Closing(x) <=> Closing(k)
    /\ y = w

\* or it sees n units sent and what comes of them.
Serves(k, w, x, y, n) ==
    LET now == SentOf(k, w) + n
    IN /\ k.state # "freed"
       /\ now <= RespLen
       /\ y = w \o [j \in 1 .. n |-> <<k.parsed, SentOf(k, w) + j>>]
       /\ \/ /\ now = RespLen
             /\ ~ Closing(k)
             /\ x.parsed = k.parsed + 1
             /\ SentOf(x, y) = 0
             /\ x.state # "freed"
          \/ /\ x.parsed = k.parsed
             /\ Closing(x) <=> Closing(k)
             /\ SentOf(x, y) = now
             /\ x.state = "freed" \/ ~ (Closing(k) /\ now = RespLen)

\* A step of one connection that changes nothing Pipeline sees is a stutter.
LEMMA QuietIs ==
  ASSUME IInv, NEW c \in Conn, NEW x, Quiet(conn[c], wire[c], x, wire[c]),
         conn' = [conn EXCEPT ![c] = x], wire' = wire
  PROVE  UNCHANGED Service!vars
<1>1. conn'[c] = x /\ \A d \in Conn \ {c} : conn'[d] = conn[d]
  BY DEF IInv, TypeOK
<1>2. \A d \in Conn : /\ (conn'[d].state # "freed") <=> (conn[d].state # "freed")
                      /\ conn'[d].parsed = conn[d].parsed
                      /\ (conn'[d].parsed > 0 /\ ~conn'[d].keep) <=> (conn[d].parsed > 0 /\ ~conn[d].keep)
                      /\ Sent(d)' = Sent(d)
  <2> TAKE d \in Conn
  <2>1. CASE d = c
    BY <1>1, <2>1 DEF Quiet, Closing, Sent
  <2>2. CASE d # c
    BY <1>1, <2>2 DEF Sent
  <2>3. QED
    BY <2>1, <2>2
<1>3. [d \in Conn |-> conn[d].state # "freed"]' = [d \in Conn |-> conn[d].state # "freed"]
  BY <1>2, Zenon
<1>4. [d \in Conn |-> conn[d].parsed]' = [d \in Conn |-> conn[d].parsed]
  BY <1>2, Zenon
<1>5. [d \in Conn |-> conn[d].parsed > 0 /\ ~conn[d].keep]' = [d \in Conn |-> conn[d].parsed > 0 /\ ~conn[d].keep]
  BY <1>2, Zenon
<1>6. [d \in Conn |-> Sent(d)]' = [d \in Conn |-> Sent(d)]
  BY <1>2, Zenon
<1>7. QED
  BY <1>3, <1>4, <1>5, <1>6 DEF Service!vars

LEMMA SentType ==
  ASSUME NEW k \in ConnRec, NEW w \in Seq(Unit)
  PROVE  SentOf(k, w) \in Nat
<1>1. CASE w # <<>>
  <2>1. Len(w) \in 1 .. Len(w)
    BY <1>1
  <2>2. w[Len(w)] \in Unit
    BY <2>1
  <2>3. w[Len(w)][2] \in Nat
    BY <2>2 DEF Unit
  <2>4. QED
    BY <2>3, WorkerAssumption DEF SentOf
<1>2. CASE w = <<>>
  BY <1>2, WorkerAssumption DEF SentOf
<1>3. QED
  BY <1>1, <1>2

\* A function that differs from another in one place.
LEMMA ExceptIs ==
  ASSUME NEW S, NEW T, NEW c \in S, NEW f \in [S -> T], NEW g \in [S -> T], NEW v,
         g[c] = v, \A d \in S \ {c} : g[d] = f[d]
  PROVE  g = [f EXCEPT ![c] = v] /\ (f[c] = v => g = f)
  OBVIOUS

\* A step of one connection that serves is a step of Pipeline.
LEMMA ServeIs ==
  ASSUME IInv, NEW c \in Conn, NEW x, NEW y, NEW n \in 0 .. RespLen,
         Serves(conn[c], wire[c], x, y, n),
         conn' = [conn EXCEPT ![c] = x], wire' = [wire EXCEPT ![c] = y]
  PROVE  Service!Next
<1> DEFINE open   == [d \in Conn |-> conn[d].state # "freed"]
           taken  == [d \in Conn |-> conn[d].parsed]
           last   == [d \in Conn |-> conn[d].parsed > 0 /\ ~conn[d].keep]
           sent   == [d \in Conn |-> Sent(d)]
<1>1. /\ conn'[c] = x /\ \A d \in Conn \ {c} : conn'[d] = conn[d]
      /\ wire'[c] = y /\ \A d \in Conn \ {c} : wire'[d] = wire[d]
  BY DEF IInv, TypeOK
<1>2. /\ Sent(c) = SentOf(conn[c], wire[c])
      /\ Sent(c)' = SentOf(x, y)
      /\ \A d \in Conn \ {c} : Sent(d)' = Sent(d)
  BY <1>1 DEF Sent, SentOf
<1>3. /\ open' = [open EXCEPT ![c] = x.state # "freed"]
      /\ taken' = [taken EXCEPT ![c] = x.parsed]
      /\ last' = [last EXCEPT ![c] = Closing(x)]
      /\ sent' = [sent EXCEPT ![c] = SentOf(x, y)]
      /\ open[c] = (x.state # "freed") => open' = open
      /\ taken[c] = x.parsed => taken' = taken
      /\ last[c] = Closing(x) => last' = last
  <2>1. /\ open'[c] = (x.state # "freed") /\ \A d \in Conn \ {c} : open'[d] = open[d]
    BY <1>1, Zenon
  <2>2. /\ taken'[c] = x.parsed /\ \A d \in Conn \ {c} : taken'[d] = taken[d]
    BY <1>1
  <2>3. /\ last'[c] = Closing(x) /\ \A d \in Conn \ {c} : last'[d] = last[d]
    BY <1>1, Zenon DEF Closing
  <2>4. /\ sent'[c] = SentOf(x, y) /\ \A d \in Conn \ {c} : sent'[d] = sent[d]
    BY <1>2
  <2>5. open \in [Conn -> BOOLEAN] /\ open' \in [Conn -> BOOLEAN]
    OBVIOUS
  <2>6. last \in [Conn -> BOOLEAN] /\ last' \in [Conn -> BOOLEAN]
    OBVIOUS
  <2>7. PICK T : taken \in [Conn -> T] /\ taken' \in [Conn -> T]
    <3>1. WITNESS {conn[d].parsed : d \in Conn} \union {conn'[d].parsed : d \in Conn}
    <3>2. QED
      OBVIOUS
  <2>8. PICK U : sent \in [Conn -> U] /\ sent' \in [Conn -> U]
    <3>1. WITNESS {Sent(d) : d \in Conn} \union {Sent(d)' : d \in Conn}
    <3>2. QED
      OBVIOUS
  <2> HIDE DEF open, taken, last, sent
  <2>9. /\ open' = [open EXCEPT ![c] = x.state # "freed"]
        /\ open[c] = (x.state # "freed") => open' = open
    BY <2>1, <2>5, ExceptIs
  <2>10. /\ taken' = [taken EXCEPT ![c] = x.parsed]
         /\ taken[c] = x.parsed => taken' = taken
    BY <2>2, <2>7, ExceptIs
  <2>11. /\ last' = [last EXCEPT ![c] = Closing(x)]
         /\ last[c] = Closing(x) => last' = last
    BY <2>3, <2>6, ExceptIs
  <2>12. sent' = [sent EXCEPT ![c] = SentOf(x, y)]
    BY <2>4, <2>8, ExceptIs
  <2>13. QED
    BY <2>9, <2>10, <2>11, <2>12
<1>4. /\ open[c] = (conn[c].state # "freed")
      /\ taken[c] = conn[c].parsed
      /\ last[c] = Closing(conn[c])
      /\ sent[c] = SentOf(conn[c], wire[c])
  BY <1>2, Zenon DEF Closing
<1> DEFINE now == sent[c] + n
<1> HIDE DEF open, taken, last, sent
<1>5. wire' = [wire EXCEPT ![c] = @ \o [j \in 1 .. n |-> <<taken[c], sent[c] + j>>]]
  BY <1>4 DEF Serves
<1>6. open[c] /\ now <= RespLen
  BY <1>4 DEF Serves
<1>7. \/ /\ now = RespLen
         /\ ~ last[c]
         /\ taken' = [taken EXCEPT ![c] = @ + 1]
         /\ sent' = [sent EXCEPT ![c] = 0]
         /\ \E close \in BOOLEAN : last' = [last EXCEPT ![c] = close]
         /\ UNCHANGED open
      \/ /\ ~ (last[c] /\ now = RespLen)
         /\ sent' = [sent EXCEPT ![c] = now]
         /\ UNCHANGED <<open, taken, last>>
      \/ /\ sent' = [sent EXCEPT ![c] = now]
         /\ open' = [open EXCEPT ![c] = FALSE]
         /\ UNCHANGED <<taken, last>>
  <2>1. CASE /\ now = RespLen /\ ~ Closing(conn[c])
             /\ x.parsed = conn[c].parsed + 1
             /\ SentOf(x, y) = 0 /\ x.state # "freed"
    <3>1. now = RespLen /\ ~ last[c]
      BY <1>4, <2>1
    <3>2. /\ taken' = [taken EXCEPT ![c] = @ + 1]
          /\ sent' = [sent EXCEPT ![c] = 0]
      BY <1>3, <1>4, <2>1
    <3>3. \E close \in BOOLEAN : last' = [last EXCEPT ![c] = close]
      <4>1. Closing(x) \in BOOLEAN
        BY DEF Closing
      <4>2. QED
        BY <1>3, <4>1
    <3>4. UNCHANGED open
      BY <1>3, <1>4, <1>6, <2>1
    <3>5. QED
      BY <3>1, <3>2, <3>3, <3>4
  <2>2. CASE /\ x.parsed = conn[c].parsed
             /\ Closing(x) <=> Closing(conn[c])
             /\ SentOf(x, y) = now
             /\ x.state = "freed" \/ ~ (Closing(conn[c]) /\ now = RespLen)
    <3>1. sent' = [sent EXCEPT ![c] = now] /\ taken' = taken
      BY <1>3, <1>4, <2>2
    <3>2. last' = last
      <4>1. last[c] = Closing(x)
        BY <1>4, <2>2, Zenon DEF Closing
      <4>2. QED
        BY <1>3, <4>1
    <3>3. CASE x.state = "freed"
      <4>1. open' = [open EXCEPT ![c] = FALSE]
        BY <1>3, <3>3
      <4>2. QED
        BY <3>1, <3>2, <4>1
    <3>4. CASE x.state # "freed"
      <4>1. open' = open
        BY <1>3, <1>4, <1>6, <3>4
      <4>2. ~ (last[c] /\ now = RespLen)
        BY <1>4, <2>2, <3>4, Zenon
      <4>3. QED
        BY <3>1, <3>2, <4>1, <4>2
    <3>5. QED
      BY <3>3, <3>4
  <2>3. QED
    BY <1>4, <2>1, <2>2 DEF Serves
<1>8. QED
  BY <1>5, <1>6, <1>7, Zenon DEF open, taken, last, sent, now, Service!Next, Service!Serve

-----------------------------------------------------------------------------
(* The operations on a connection's record, and what is on the wire.       *)

\* Nothing appended.
LEMMA AppendNothing ==
  ASSUME NEW w \in Seq(Unit), NEW p, NEW o
  PROVE  w = w \o [j \in 1 .. 0 |-> <<p, o + j>>]
<1> DEFINE e == [j \in 1 .. 0 |-> <<p, o + j>>]
<1>1. e = <<>>
  OBVIOUS
<1> HIDE DEF e
<1>2. w \o e = w
  BY <1>1
<1>3. QED
  BY <1>2 DEF e

\* What the operations leave alone.
LEMMA FieldsKept ==
  ASSUME NEW k \in ConnRec, NEW n, NEW ev
  PROVE  /\ ReadSome(k, n).parsed = k.parsed /\ ReadSome(k, n).keep = k.keep
         /\ Close(k).parsed = k.parsed /\ Close(k).keep = k.keep
         /\ Reuse(k).parsed = k.parsed /\ Reuse(k).keep = k.keep
         /\ Suspend(k).parsed = k.parsed /\ Suspend(k).keep = k.keep
  BY DEF ReadSome, Close, EpollDel, Reuse, EpollMod, Suspend, ConnRec

\* A record that had no output has exactly the response to send.
LEMMA AnswerSends ==
  ASSUME NEW k \in ConnRec, NEW r \in Nat, NEW ev \in {"in", "out"},
         k.wbuf = <<>>, k.woff = 0
  PROVE  \A x \in {EpollAdd(Answer(k, r), ev), EpollMod(Answer(k, r), ev)} :
            /\ x.state = "writing" /\ x.wbuf = Response(r) /\ x.woff = 0
            /\ x.parsed = k.parsed /\ x.keep = k.keep
<1> DEFINE s == Response(r)
<1>1. s \in Seq(Nat \X Nat)
  BY ResponseType
<1> HIDE DEF s
<1>2. <<>> \o s = s
  BY <1>1
<1> DEFINE a == Answer(k, r)
<1>3. /\ a.state = "writing" /\ a.wbuf = s /\ a.woff = 0
      /\ a.parsed = k.parsed /\ a.keep = k.keep
      /\ a \in ConnRec
  BY <1>1, <1>2 DEF s, Answer, ConnRec, States
<1> HIDE DEF a
<1>4. \A x \in {EpollAdd(a, ev), EpollMod(a, ev)} :
         /\ x.state = a.state /\ x.wbuf = a.wbuf /\ x.woff = a.woff
         /\ x.parsed = a.parsed /\ x.keep = a.keep
  BY <1>3 DEF EpollAdd, EpollMod, ConnRec
<1>5. \A x \in {EpollAdd(a, ev), EpollMod(a, ev)} :
         /\ x.state = "writing" /\ x.wbuf = s /\ x.woff = 0
         /\ x.parsed = k.parsed /\ x.keep = k.keep
  BY <1>3, <1>4
<1>6. QED
  BY <1>5, Zenon DEF a, s

\* js_http_process on a record whose responses are all out: no request is
\* taken, or the next one is and nothing of its response is out.
LEMMA ProcessServes ==
  ASSUME NEW c \in Conn, NEW k, CanProcess(k), Process(c, k),
         NEW w \in Seq(Unit), k.parsed = 0 => w = <<>>,
         w # <<>> => w[Len(w)][1] <= k.parsed, Complete(k, w)
  PROVE  \E x : /\ conn' = [conn EXCEPT ![c] = x]
                /\ WireOK(x, w)
                /\ \/ x.parsed = k.parsed /\ SentOf(x, w) = RespLen /\ ~ Closing(x)
                   \/ x.parsed = k.parsed + 1 /\ SentOf(x, w) = 0 /\ x.state # "freed"
<1>1. k \in ConnRec /\ k.parsed \in Nat /\ k.state = "reading" /\ k.wbuf = <<>> /\ k.woff = 0
  BY DEF CanProcess, ConnRec
<1>2. CASE conn' = [conn EXCEPT ![c] = k]
  <2>1. WireOK(k, w)
    BY <1>1 DEF WireOK
  <2>2. QED
    BY <1>2, <2>1 DEF Complete
<1>3. CASE conn' = [conn EXCEPT ![c] = Close(k)]
  <2> DEFINE x == Close(k)
  <2>1. x.state = "freed" /\ x.parsed = k.parsed /\ x.keep = k.keep
    BY <1>1, FieldsKept, CloseOK DEF CanProcess
  <2> HIDE DEF x
  <2>2. WireOK(x, w)
    BY <2>1 DEF WireOK
  <2>3. SentOf(x, w) = RespLen /\ ~ Closing(x)
    BY <2>1 DEF Complete, SentOf, Closing
  <2>4. conn' = [conn EXCEPT ![c] = x]
    BY <1>3 DEF x
  <2>5. QED
    BY <2>1, <2>2, <2>3, <2>4
<1>4. CASE 1 \in Parsed(k) /\
           \E keepAlive, done \in BOOLEAN, new \in SUBSET FreshOf(<<c, k.parsed + 1>>) :
             LET p == [k EXCEPT !.rlen = @ - ReqLen, !.parsed = k.parsed + 1, !.keep = keepAlive]
             IN conn' = [conn EXCEPT ![c] = IF MustDefer(done, new) THEN Suspend(p)
                                            ELSE EpollMod(Answer(p, k.parsed + 1), "out")]
  <2>0. k.rlen \in Nat /\ k.rlen >= ReqLen
    BY <1>1, <1>4, WorkerAssumption DEF Parsed, ConnRec
  <2>1. PICK keepAlive \in BOOLEAN, done \in BOOLEAN, new \in SUBSET FreshOf(<<c, k.parsed + 1>>) :
          LET p == [k EXCEPT !.rlen = @ - ReqLen, !.parsed = k.parsed + 1, !.keep = keepAlive]
          IN conn' = [conn EXCEPT ![c] = IF MustDefer(done, new) THEN Suspend(p)
                                         ELSE EpollMod(Answer(p, k.parsed + 1), "out")]
    BY <1>4
  <2> DEFINE p == [k EXCEPT !.rlen = @ - ReqLen, !.parsed = k.parsed + 1, !.keep = keepAlive]
             x == IF MustDefer(done, new) THEN Suspend(p)
                  ELSE EpollMod(Answer(p, k.parsed + 1), "out")
  <2>2. CanProcess(p) /\ p.parsed = k.parsed + 1
    BY <2>0, TakeOK
  <2> HIDE DEF p
  <2>3. /\ x.parsed = k.parsed + 1
        /\ \/ x.state = "pending"
           \/ x.state = "writing" /\ x.wbuf = Response(x.parsed) /\ x.woff = 0
    <3>1. p \in ConnRec /\ p.wbuf = <<>> /\ p.woff = 0 /\ k.parsed + 1 \in Nat
      BY <1>1, <2>2 DEF CanProcess
    <3>2. CASE MustDefer(done, new)
      <4>1. x = Suspend(p)
        BY <3>2
      <4>2. Suspend(p).state = "pending" /\ Suspend(p).parsed = p.parsed
        BY <2>2, SuspendOK DEF CanProcess
      <4>3. QED
        BY <2>2, <4>1, <4>2
    <3>3. CASE ~ MustDefer(done, new)
      <4>1. x = EpollMod(Answer(p, k.parsed + 1), "out")
        BY <3>3
      <4>2. /\ x.state = "writing" /\ x.wbuf = Response(k.parsed + 1) /\ x.woff = 0
            /\ x.parsed = p.parsed
        BY <3>1, <4>1, AnswerSends
      <4>3. QED
        BY <2>2, <4>2
    <3>4. QED
      BY <3>2, <3>3
  <2>4. conn' = [conn EXCEPT ![c] = x]
    BY <2>1 DEF p
  <2> HIDE DEF x
  <2>5. SentOf(x, w) = 0
    <3>1. CASE w = <<>>
      BY <1>1, <2>3, <3>1 DEF SentOf
    <3>2. CASE w # <<>>
      <4>1. w[Len(w)][1] <= k.parsed /\ w[Len(w)] \in Unit
        BY <3>2
      <4>2. w[Len(w)][1] # x.parsed
        BY <1>1, <2>3, <4>1 DEF Unit
      <4>3. QED
        BY <1>1, <2>3, <4>2 DEF SentOf
    <3>3. QED
      BY <3>1, <3>2
  <2>6. WireOK(x, w)
    <3>1. w # <<>> => w[Len(w)][1] <= x.parsed
      <4>1. w # <<>> => w[Len(w)] \in Unit
        OBVIOUS
      <4>2. QED
        BY <1>1, <2>3, <4>1 DEF Unit
    <3>2. x.parsed > 0
      BY <1>1, <2>3
    <3>3. QED
      BY <2>3, <2>5, <3>1, <3>2 DEF WireOK
  <2>7. x.state # "freed"
    BY <2>3
  <2>8. QED
    BY <2>3, <2>4, <2>5, <2>6, <2>7
<1>5. QED
  BY <1>2, <1>3, <1>4 DEF Process

-----------------------------------------------------------------------------
(* The actions: each keeps the invariant and is a step of Pipeline.        *)

Simulates == WiresOK' /\ [Service!Next]_(Service!vars)

LEMMA NothingMoves == WiresOK /\ UNCHANGED <<conn, wire>> => Simulates
<1> SUFFICES ASSUME WiresOK, conn' = conn, wire' = wire PROVE Simulates
  OBVIOUS
<1>1. WiresOK'
  BY DEF WiresOK
<1>2. UNCHANGED Service!vars
  BY Zenon DEF Service!vars, Sent
<1>3. QED
  BY <1>1, <1>2 DEF Simulates

LEMMA OneConnection ==
  ASSUME IInv, WiresOK, NEW c \in Conn, NEW x, NEW y, WireOK(x, y),
         conn' = [conn EXCEPT ![c] = x], wire' = [wire EXCEPT ![c] = y]
  PROVE  WiresOK'
<1>1. /\ conn'[c] = x /\ \A d \in Conn \ {c} : conn'[d] = conn[d]
      /\ wire'[c] = y /\ \A d \in Conn \ {c} : wire'[d] = wire[d]
  BY DEF IInv, TypeOK
<1>2. QED
  BY <1>1 DEF WiresOK

LEMMA QuietSimulates ==
  ASSUME IInv, WiresOK, NEW c \in Conn, NEW x, Quiet(conn[c], wire[c], x, wire[c]),
         WireOK(x, wire[c]), conn' = [conn EXCEPT ![c] = x], wire' = wire
  PROVE  Simulates
<1>1. wire' = [wire EXCEPT ![c] = wire[c]]
  BY DEF IInv, TypeOK
<1>2. WiresOK'
  BY <1>1, OneConnection
<1>3. QED
  BY <1>2, QuietIs DEF Simulates

LEMMA ServeSimulates ==
  ASSUME IInv, WiresOK, NEW c \in Conn, NEW x, NEW y, NEW n \in 0 .. RespLen,
         Serves(conn[c], wire[c], x, y, n), WireOK(x, y),
         conn' = [conn EXCEPT ![c] = x], wire' = [wire EXCEPT ![c] = y]
  PROVE  Simulates
  BY OneConnection, ServeIs DEF Simulates

\* What is known of one connection.
LEMMA OneConn ==
  ASSUME IInv, WiresOK, NEW c \in Conn
  PROVE  /\ conn[c] \in ConnRec /\ ConnOK(conn[c]) /\ WireOK(conn[c], wire[c])
         /\ wire[c] \in Seq(Unit)
         /\ conn[c].parsed \in Nat /\ conn[c].woff \in Nat
  BY DEF IInv, TypeOK, ConnsOK, WiresOK, Unit, ConnRec

LEMMA ClientsSimulate == IInv /\ WiresOK /\ Clients => Simulates
<1> SUFFICES ASSUME IInv, WiresOK, NEW c \in Conn,
                    Connect(c) \/ AcceptElsewhere(c) \/ Send(c) \/ HangUp(c)
             PROVE  Simulates
  BY DEF Clients
<1> DEFINE k == conn[c]
<1>1. k \in ConnRec /\ WireOK(k, wire[c])
  BY OneConn
<1>2. wire' = wire
  BY DEF Connect, AcceptElsewhere, Send, HangUp
<1>3. PICK x : /\ conn' = [conn EXCEPT ![c] = x]
               /\ \/ x.state \in {"backlog", "elsewhere"} /\ k.state \in {"none", "backlog"}
                  \/ x.state = k.state
               /\ x.parsed = k.parsed /\ x.keep = k.keep
               /\ x.wbuf = k.wbuf /\ x.woff = k.woff
  <2>1. CASE Connect(c)
    <3>1. conn' = [conn EXCEPT ![c] = [k EXCEPT !.state = "backlog"]]
      BY <2>1 DEF Connect
    <3>2. QED
      BY <1>1, <2>1, <3>1 DEF Connect, ConnRec
  <2>2. CASE AcceptElsewhere(c)
    <3>1. conn' = [conn EXCEPT ![c] = [k EXCEPT !.state = "elsewhere"]]
      BY <2>2 DEF AcceptElsewhere
    <3>2. QED
      BY <1>1, <2>2, <3>1 DEF AcceptElsewhere, ConnRec
  <2>3. CASE Send(c)
    <3> DEFINE x == [k EXCEPT !.inq = @ + 1]
    <3>1. conn' = [conn EXCEPT ![c] = x]
      BY <2>3 DEF Send
    <3>2. /\ x.state = k.state /\ x.parsed = k.parsed /\ x.keep = k.keep
          /\ x.wbuf = k.wbuf /\ x.woff = k.woff
      BY <1>1 DEF ConnRec
    <3> HIDE DEF x
    <3>3. QED
      BY <3>1, <3>2
  <2>4. CASE HangUp(c)
    <3> DEFINE x == [k EXCEPT !.hungup = TRUE]
    <3>1. conn' = [conn EXCEPT ![c] = x]
      BY <2>4 DEF HangUp
    <3>2. /\ x.state = k.state /\ x.parsed = k.parsed /\ x.keep = k.keep
          /\ x.wbuf = k.wbuf /\ x.woff = k.woff
      BY <1>1 DEF ConnRec
    <3> HIDE DEF x
    <3>3. QED
      BY <3>1, <3>2
  <2>5. QED
    BY <2>1, <2>2, <2>3, <2>4
<1>4. Quiet(k, wire[c], x, wire[c]) /\ WireOK(x, wire[c])
  BY <1>1, <1>3 DEF Quiet, WireOK, Closing, Complete, SentOf
<1>5. QED
  BY <1>2, <1>3, <1>4, QuietSimulates

LEMMA OnAcceptSimulates == IInv /\ WiresOK /\ OnAccept => Simulates
<1> SUFFICES ASSUME IInv, WiresOK, OnAccept PROVE Simulates
  OBVIOUS
<1>1. wire' = wire
  BY DEF OnAccept
<1>2. CASE UNCHANGED conn
  BY <1>1, <1>2, NothingMoves
<1>3. ASSUME NEW c \in Backlog,
             conn' = [conn EXCEPT ![c] = EpollAdd([conn[c] EXCEPT !.state = "reading"], "in")]
      PROVE  Simulates
  <2> DEFINE k == conn[c]
             x == EpollAdd([k EXCEPT !.state = "reading"], "in")
  <2>1. c \in Conn /\ k.state = "backlog"
    BY DEF Backlog
  <2>2. k \in ConnRec /\ ConnOK(k) /\ WireOK(k, wire[c])
    BY <2>1, OneConn
  <2>3. x.state = "reading" /\ x.parsed = k.parsed /\ x.keep = k.keep
    BY <2>2 DEF EpollAdd, ConnRec
  <2>4. k.parsed = 0
    BY <2>1, <2>2 DEF ConnOK
  <2> HIDE DEF x
  <2>5. Quiet(k, wire[c], x, wire[c]) /\ WireOK(x, wire[c])
    BY <2>1, <2>2, <2>3, <2>4 DEF Quiet, WireOK, Closing, Complete, SentOf
  <2>6. conn' = [conn EXCEPT ![c] = x]
    BY <1>3 DEF x
  <2>7. QED
    BY <1>1, <2>1, <2>5, <2>6, QuietSimulates
<1>4. QED
  BY <1>2, <1>3 DEF OnAccept

\* js_http_on_read sends nothing: whatever it does serves 0 units.
LEMMA OnReadSimulates == IInv /\ WiresOK /\ (\E c \in Conn : OnRead(c)) => Simulates
<1> SUFFICES ASSUME IInv, WiresOK, NEW c \in Conn, OnRead(c) PROVE Simulates
  OBVIOUS
<1> DEFINE k == conn[c]
           w == wire[c]
<1>1. /\ k \in ConnRec /\ ConnOK(k) /\ WireOK(k, w) /\ w \in Seq(Unit)
      /\ k.parsed \in Nat /\ SentOf(k, w) \in Nat
  BY OneConn, SentType
<1>2. /\ k.reg = "in" /\ k.state = "reading"
      /\ k.wbuf = <<>> /\ k.woff = 0
      /\ k.parsed * ReqLen + k.rlen + k.inq <= MaxReq * ReqLen
  <2>1. k.reg = "in"
    BY DEF OnRead, IInv, BatchFresh
  <2>2. QED
    BY <1>1, <2>1 DEF ConnOK, Waits
<1>3. SentOf(k, w) = RespLen /\ ~ Closing(k)
  BY <1>1, <1>2 DEF WireOK, Complete
<1>4. wire' = [wire EXCEPT ![c] = w] /\ w = w \o [j \in 1 .. 0 |-> <<k.parsed, SentOf(k, w) + j>>]
  <2>1. wire' = wire
    BY DEF OnRead
  <2>2. wire' = [wire EXCEPT ![c] = w]
    BY <2>1 DEF IInv, TypeOK
  <2>3. QED
    BY <1>1, <2>2, AppendNothing
<1>5. PICK x : /\ conn' = [conn EXCEPT ![c] = x]
               /\ WireOK(x, w)
               /\ \/ x.parsed = k.parsed /\ SentOf(x, w) = RespLen /\ ~ Closing(x)
                  \/ x.parsed = k.parsed + 1 /\ SentOf(x, w) = 0 /\ x.state # "freed"
  <2>1. CASE conn' = [conn EXCEPT ![c] = Close(k)]
    <3> DEFINE x == Close(k)
    <3>1. x.state = "freed" /\ x.parsed = k.parsed /\ x.keep = k.keep
      BY <1>1, <1>2, CloseOK, FieldsKept
    <3>2. conn' = [conn EXCEPT ![c] = x]
      BY <2>1
    <3> HIDE DEF x
    <3>3. WireOK(x, w) /\ SentOf(x, w) = RespLen /\ ~ Closing(x)
      BY <1>1, <1>3, <3>1 DEF WireOK, SentOf, Closing
    <3>4. QED
      BY <3>1, <3>2, <3>3
  <2>2. ASSUME NEW n \in 1 .. k.inq, Process(c, ReadSome(k, n))
        PROVE  \E x : /\ conn' = [conn EXCEPT ![c] = x]
                      /\ WireOK(x, w)
                      /\ \/ x.parsed = k.parsed /\ SentOf(x, w) = RespLen /\ ~ Closing(x)
                         \/ x.parsed = k.parsed + 1 /\ SentOf(x, w) = 0 /\ x.state # "freed"
    <3> DEFINE r == ReadSome(k, n)
    <3>1. CanProcess(r)
      <4>1. /\ k.inq \in Nat /\ k.rlen \in Nat /\ k.inq - n \in Nat /\ k.rlen + n \in Nat
        <5> DEFINE i == k.inq
                   l == k.rlen
        <5>1. i \in Nat /\ l \in Nat /\ n \in 1 .. i
          BY <1>1 DEF ConnRec
        <5> HIDE DEF i, l
        <5>2. i - n \in Nat /\ l + n \in Nat
          BY <5>1
        <5>3. QED
          BY <5>1, <5>2 DEF i, l
      <4>2. r \in ConnRec
        BY <1>1, <4>1 DEF ReadSome, ConnRec
      <4>3. /\ r.state = "reading" /\ r.reg = "in" /\ r.wbuf = <<>> /\ r.woff = 0
            /\ r.parsed = k.parsed /\ r.inq = k.inq - n /\ r.rlen = k.rlen + n
        BY <1>1, <1>2 DEF ReadSome, ConnRec
      <4>4. k.parsed * ReqLen \in Nat /\ MaxReq * ReqLen \in Nat /\ n \in Nat
        BY <1>1, <4>1, WorkerAssumption
      <4> HIDE DEF r
      <4>5. r.parsed * ReqLen + r.rlen + r.inq <= MaxReq * ReqLen
        <5> DEFINE a == k.parsed * ReqLen
                   b == MaxReq * ReqLen
                   i == k.inq
                   l == k.rlen
        <5>1. a \in Nat /\ b \in Nat /\ i \in Nat /\ l \in Nat /\ a + l + i <= b
          BY <1>2, <4>1, <4>4
        <5>2. r.parsed * ReqLen = a /\ r.rlen = l + n /\ r.inq = i - n
          BY <4>3
        <5>3. a + (l + n) + (i - n) <= b
          <6> HIDE DEF a, b, i, l, k
          <6>1. QED
            BY <4>4, <5>1
        <5> HIDE DEF a, b, i, l
        <5>4. QED
          BY <5>2, <5>3 DEF b
      <4>6. QED
        BY <4>2, <4>3, <4>5 DEF CanProcess
    <3>2. r.parsed = k.parsed /\ r.keep = k.keep
      BY <1>1, FieldsKept
    <3>3. Process(c, r)
      BY <2>2
    <3> HIDE DEF r
    <3>4. Complete(r, w)
      BY <1>3, <3>2 DEF Complete, SentOf, Closing
    <3>5. r.parsed = 0 => w = <<>>
      BY <1>1, <3>2 DEF WireOK
    <3>6. w # <<>> => w[Len(w)][1] <= r.parsed
      BY <1>1, <3>2 DEF WireOK
    <3>7. QED
      BY <1>1, <3>1, <3>2, <3>3, <3>4, <3>5, <3>6, ProcessServes
  <2>3. QED
    BY <2>1, <2>2 DEF OnRead
<1> HIDE DEF k, w
<1>6. 0 \in 0 .. RespLen /\ SentOf(k, w) + 0 = RespLen
  BY <1>1, <1>3, WorkerAssumption
<1>7. Serves(k, w, x, w, 0)
  BY <1>2, <1>3, <1>4, <1>5, <1>6, WorkerAssumption DEF Serves
<1>8. QED
  BY <1>4, <1>5, <1>6, <1>7, ServeSimulates DEF k, w

\* js_http_on_write sends part of the response, or the rest of it and goes on.
LEMMA OnWriteSimulates == IInv /\ WiresOK /\ (\E c \in Conn : OnWrite(c)) => Simulates
<1> SUFFICES ASSUME IInv, WiresOK, NEW c \in Conn, OnWrite(c) PROVE Simulates
  OBVIOUS
<1> DEFINE k == conn[c]
           w == wire[c]
<1>1. /\ k \in ConnRec /\ ConnOK(k) /\ WireOK(k, w) /\ w \in Seq(Unit)
      /\ k.parsed \in Nat /\ k.woff \in Nat /\ SentOf(k, w) \in Nat
  BY OneConn, SentType
<1>2. /\ k.reg = "out" /\ k.state = "writing"
      /\ k.parsed * ReqLen + k.rlen + k.inq <= MaxReq * ReqLen
      /\ k.woff < Len(k.wbuf)
  <2>1. k.reg = "out"
    BY DEF OnWrite, IInv, BatchFresh
  <2>2. QED
    BY <1>1, <2>1 DEF ConnOK, Waits
<1>3. /\ k.parsed > 0 /\ k.wbuf = Response(k.parsed) /\ SentOf(k, w) = k.woff
      /\ Len(k.wbuf) = RespLen
  BY <1>1, <1>2, ResponseType DEF WireOK
<1>4. /\ OnWrite(c)
      /\ wire \in [Conn -> Seq(Nat \X Nat)]
  BY DEF IInv, TypeOK
<1>5. CASE conn' = [conn EXCEPT ![c] = Close(k)] /\ UNCHANGED wire
  <2> DEFINE x == Close(k)
  <2>1. x.state = "freed" /\ x.parsed = k.parsed /\ x.keep = k.keep
    BY <1>1, <1>2, CloseOK, FieldsKept
  <2>2. conn' = [conn EXCEPT ![c] = x] /\ wire' = [wire EXCEPT ![c] = w]
    BY <1>4, <1>5
  <2>3. w = w \o [j \in 1 .. 0 |-> <<k.parsed, SentOf(k, w) + j>>]
    BY <1>1, AppendNothing
  <2> HIDE DEF x, k, w
  <2>4. WireOK(x, w) /\ SentOf(x, w) = SentOf(k, w) /\ (Closing(x) <=> Closing(k))
    BY <1>1, <2>1 DEF WireOK, SentOf, Closing
  <2>5. 0 \in 0 .. RespLen /\ SentOf(k, w) + 0 = SentOf(k, w) /\ SentOf(k, w) <= RespLen
    BY <1>1, <1>2, <1>3, WorkerAssumption
  <2>6. Serves(k, w, x, w, 0)
    BY <1>2, <2>1, <2>3, <2>4, <2>5 DEF Serves
  <2>7. QED
    BY <2>2, <2>4, <2>5, <2>6, ServeSimulates DEF k, w
<1>6. ASSUME NEW n \in Written(k),
             wire' = [wire EXCEPT ![c] = @ \o SubSeq(k.wbuf, k.woff + 1, k.woff + n)],
             \/ /\ n = 0 \/ k.woff + n < Len(k.wbuf)
                /\ conn' = [conn EXCEPT ![c] = [k EXCEPT !.woff = @ + n]]
             \/ /\ n > 0 /\ k.woff + n = Len(k.wbuf)
                /\ ~ k.keep
                /\ conn' = [conn EXCEPT ![c] = Close(k)]
             \/ /\ n > 0 /\ k.woff + n = Len(k.wbuf)
                /\ k.keep
                /\ GoOn(c, [k EXCEPT !.woff = @ + n])
      PROVE  Simulates
  <2> DEFINE y == w \o SubSeq(Response(k.parsed), k.woff + 1, k.woff + n)
  <2>1. /\ n \in Nat \ {0} /\ n \in 0 .. RespLen /\ k.woff + n <= RespLen /\ k.woff + n \in Nat
    <3> DEFINE m == k.woff
               all == Len(k.wbuf)
    <3>1. m \in Nat /\ all = RespLen /\ RespLen \in Nat /\ m < all
      BY <1>1, <1>2, <1>3, WorkerAssumption
    <3>2. n \in IF m = all THEN {0} ELSE 1 .. all - m
      BY <1>6 DEF Written
    <3> HIDE DEF m, all
    <3>3. n \in Nat \ {0} /\ n \in 0 .. RespLen /\ m + n <= RespLen /\ m + n \in Nat
      BY <3>1, <3>2
    <3>4. QED
      BY <3>3 DEF m
  <2>2. wire' = [wire EXCEPT ![c] = y]
    BY <1>3, <1>6
  <2>3. /\ y \in Seq(Unit) /\ y # <<>> /\ y[Len(y)] = <<k.parsed, k.woff + n>>
        /\ y = w \o [j \in 1 .. n |-> <<k.parsed, k.woff + j>>]
    <3> DEFINE p == k.parsed
               o == k.woff
    <3>0. w \in Seq(Unit) /\ p \in Nat /\ o \in Nat
      BY <1>1
    <3>1. /\ w \in Seq(Unit) /\ p \in Nat /\ o \in Nat /\ n \in Nat \ {0}
          /\ o + n <= RespLen
      BY <2>1, <3>0
    <3> HIDE DEF p, o, k, w
    <3>2. LET z == w \o SubSeq(Response(p), o + 1, o + n)
          IN /\ z \in Seq(Unit)
             /\ z = w \o [j \in 1 .. n |-> <<p, o + j>>]
             /\ z # <<>>
             /\ z[Len(z)] = <<p, o + n>>
      BY <3>1, WireGrows, ZenonT(40)
    <3>3. QED
      BY <3>2, Zenon DEF p, o
  <2> HIDE DEF y
  <2>4. \A x : x.parsed = k.parsed => SentOf(x, y) = k.woff + n
    <3>1. y # <<>> /\ y[Len(y)][1] = k.parsed /\ y[Len(y)][2] = k.woff + n
      BY <2>3
    <3>2. k.parsed # 0
      BY <1>1, <1>3
    <3> HIDE DEF k
    <3>3. QED
      BY <3>1, <3>2 DEF SentOf
  <2>5. y[Len(y)][1] = k.parsed
    BY <2>3
  <2>6. ASSUME k.woff + n < Len(k.wbuf),
               conn' = [conn EXCEPT ![c] = [k EXCEPT !.woff = @ + n]]
        PROVE  Simulates
    <3> DEFINE x == [k EXCEPT !.woff = @ + n]
    <3>1. /\ x.state = k.state /\ x.parsed = k.parsed /\ x.keep = k.keep
          /\ x.wbuf = k.wbuf /\ x.woff = k.woff + n
      BY <1>1 DEF ConnRec
    <3>2. conn' = [conn EXCEPT ![c] = x]
      BY <2>6
    <3> HIDE DEF x, k, w
    <3>3. SentOf(x, y) = k.woff + n /\ (Closing(x) <=> Closing(k))
      BY <2>4, <3>1 DEF Closing
    <3>4. WireOK(x, y)
      BY <1>1, <1>2, <1>3, <2>3, <2>5, <3>1, <3>3 DEF WireOK
    <3>5. Serves(k, w, x, y, n)
      BY <1>2, <1>3, <2>1, <2>3, <2>6, <3>1, <3>3 DEF Serves
    <3>6. QED
      BY <2>1, <2>2, <3>2, <3>4, <3>5, ServeSimulates DEF k, w
  <2>7. ASSUME k.woff + n = Len(k.wbuf), conn' = [conn EXCEPT ![c] = Close(k)]
        PROVE  Simulates
    <3> DEFINE x == Close(k)
    <3>1. x.state = "freed" /\ x.parsed = k.parsed /\ x.keep = k.keep
      BY <1>1, <1>2, CloseOK, FieldsKept
    <3>2. conn' = [conn EXCEPT ![c] = x]
      BY <2>7
    <3> HIDE DEF x, k, w
    <3>3. SentOf(x, y) = k.woff + n /\ (Closing(x) <=> Closing(k))
      BY <2>4, <3>1 DEF Closing
    <3>4. WireOK(x, y)
      BY <1>1, <1>3, <2>3, <2>5, <3>1 DEF WireOK
    <3>5. Serves(k, w, x, y, n)
      BY <1>2, <1>3, <2>1, <2>3, <3>1, <3>3 DEF Serves
    <3>6. QED
      BY <2>1, <2>2, <3>2, <3>4, <3>5, ServeSimulates DEF k, w
  <2>8. ASSUME k.woff + n = Len(k.wbuf), k.keep, GoOn(c, [k EXCEPT !.woff = @ + n])
        PROVE  Simulates
    <3> DEFINE s == [k EXCEPT !.woff = @ + n]
               r == Reuse(s)
    <3>1. /\ s \in ConnRec /\ s.reg = k.reg /\ s.parsed = k.parsed /\ s.keep = k.keep
          /\ s.rlen = k.rlen /\ s.inq = k.inq
      BY <1>1, <2>1 DEF ConnRec
    <3>2. Process(c, r)
      BY <2>8 DEF GoOn
    <3> HIDE DEF s
    <3>3. CanProcess(r) /\ r.parsed = k.parsed /\ r.keep = k.keep
      BY <1>2, <3>1, ReuseOK, FieldsKept
    <3> HIDE DEF r, k, w
    <3>4. Complete(r, y)
      BY <1>3, <2>4, <2>8, <3>3 DEF Complete, Closing
    <3>5. (r.parsed = 0 => y = <<>>) /\ (y # <<>> => y[Len(y)][1] <= r.parsed)
      BY <1>1, <1>3, <2>5, <3>3
    <3>6. y \in Seq(Unit)
      BY <2>3
    <3>7. PICK x : /\ conn' = [conn EXCEPT ![c] = x]
                   /\ WireOK(x, y)
                   /\ \/ x.parsed = r.parsed /\ SentOf(x, y) = RespLen /\ ~ Closing(x)
                      \/ x.parsed = r.parsed + 1 /\ SentOf(x, y) = 0 /\ x.state # "freed"
      BY <3>2, <3>3, <3>4, <3>5, <3>6, ProcessServes
    <3>8. ~ Closing(k)
      BY <2>8 DEF Closing
    <3>9. Serves(k, w, x, y, n)
      BY <1>2, <1>3, <2>1, <2>3, <2>8, <3>3, <3>7, <3>8 DEF Serves
    <3>10. QED
      BY <2>1, <2>2, <3>7, <3>9, ServeSimulates DEF k, w
  <2>9. QED
    BY <1>6, <2>1, <2>6, <2>7, <2>8
<1>7. QED
  BY <1>5, <1>6 DEF OnWrite

\* A timer's handler may resume a connection: it has its response to send, and
\* nothing of it is out.
LEMMA FireSimulates == IInv /\ WiresOK /\ (\E t \in Timer : Fire(t)) => Simulates
<1> SUFFICES ASSUME IInv, WiresOK, NEW t \in Timer, Fire(t) PROVE Simulates
  OBVIOUS
<1> DEFINE e == ExecOf(t)
           c == e[1]
           k == conn[c]
<1>1. wire' = wire /\ cursor = t
  BY DEF Fire
<1>2. e \in Exec /\ c \in Conn /\ e[2] \in 1 .. MaxReq /\ e = <<c, e[2]>>
  BY ExecOfType, ExecParts
<1>3. exec[e] = "heap" /\ k.state = "pending"
  BY <1>1, SentinelIsNoTimer DEF IInv, CursorInTree, TimerOwnerAlive, Armed
<1>4. k.parsed = e[2]
  <2> HIDE DEF e, c
  <2>1. exec[<<c, e[2]>>] = "heap"
    BY <1>2, <1>3
  <2>2. QED
    BY <1>2, <2>1 DEF IInv, SuspendedIffExecuting
<1>5. k \in ConnRec /\ ConnOK(k) /\ WireOK(k, wire[c])
  BY <1>2, OneConn
<1>6. k.wbuf = <<>> /\ k.woff = 0 /\ k.parsed > 0 /\ SentOf(k, wire[c]) = 0
  BY <1>3, <1>5 DEF ConnOK, WireOK
<1>7. UNCHANGED conn \/ conn' = [conn EXCEPT ![c] = Resume(k, e[2])]
  BY DEF Fire, PendingFinish
<1>8. CASE UNCHANGED conn
  BY <1>1, <1>8, NothingMoves
<1>9. CASE conn' = [conn EXCEPT ![c] = Resume(k, e[2])]
  <2> DEFINE x == Resume(k, e[2])
             w == wire[c]
  <2>1. /\ x.state = "writing" /\ x.wbuf = Response(e[2]) /\ x.woff = 0
        /\ x.parsed = k.parsed /\ x.keep = k.keep
    <3> HIDE DEF e, k
    <3>1. e[2] \in Nat
      BY <1>2
    <3>2. QED
      BY <1>5, <1>6, <3>1, AnswerSends DEF Resume
  <2>2. conn' = [conn EXCEPT ![c] = x]
    BY <1>9
  <2> HIDE DEF x, k, w
  <2>3. SentOf(x, w) = 0 /\ (Closing(x) <=> Closing(k))
    BY <1>6, <2>1 DEF SentOf, Closing, w
  <2>4. WireOK(x, w)
    BY <1>4, <1>5, <1>6, <2>1, <2>3 DEF WireOK, w
  <2>5. Quiet(k, w, x, w)
    BY <1>3, <2>1, <2>3 DEF Quiet
  <2>6. QED
    BY <1>1, <1>2, <2>2, <2>4, <2>5, QuietSimulates DEF k, w
<1>10. QED
  BY <1>7, <1>8, <1>9

-----------------------------------------------------------------------------
(* Theorems.                                                               *)

LEMMA InitServes == Init => WiresOK /\ Service!Init
<1> SUFFICES ASSUME Init PROVE WiresOK /\ Service!Init
  OBVIOUS
<1>1. \A c \in Conn : /\ conn[c].state = "none" /\ conn[c].parsed = 0
                      /\ wire[c] = <<>>
  BY DEF Init, NewConn
<1>2. WiresOK
  BY <1>1 DEF WiresOK, WireOK
<1>3. \A c \in Conn : Sent(c) = RespLen
  BY <1>1 DEF Sent
<1>4. [c \in Conn |-> conn[c].state # "freed"] = [c \in Conn |-> TRUE]
  BY <1>1
<1>5. [c \in Conn |-> conn[c].parsed] = [c \in Conn |-> 0]
  BY <1>1, Zenon
<1>6. [c \in Conn |-> conn[c].parsed > 0 /\ ~conn[c].keep] = [c \in Conn |-> FALSE]
  <2>1. ASSUME NEW c \in Conn PROVE ~ (conn[c].parsed > 0)
    <3>1. conn[c].parsed = 0
      BY <1>1
    <3>2. QED
      BY <3>1
  <2>2. QED
    BY <2>1, Zenon
<1>7. [c \in Conn |-> Sent(c)] = [c \in Conn |-> RespLen]
  BY <1>3, Zenon
<1>8. wire = [c \in Conn |-> <<>>]
  BY DEF Init
<1>9. QED
  BY <1>2, <1>4, <1>5, <1>6, <1>7, <1>8, Zenon DEF Service!Init

LEMMA StepServes == IInv /\ WiresOK /\ [Next]_vars => Simulates
<1>1. ASSUME WiresOK, Find \/ PollEvents \/ ExpireReturn \/ UNCHANGED vars
              \/ \E gain \in 0 .. MaxDelay : LoopExpire(gain)
      PROVE  Simulates
  <2>1. UNCHANGED <<conn, wire>>
    BY <1>1 DEF Find, PollEvents, ExpireReturn, vars, LoopExpire, PollTimeout,
                PollInterrupted, EventsDone, Expire
  <2>2. QED
    BY <1>1, <2>1, NothingMoves
<1>2. QED
  BY <1>1, ClientsSimulate, OnAcceptSimulates, OnReadSimulates, OnWriteSimulates,
     FireSimulates DEF Next, Loop

\* What is out of each connection's newest response is what its record says.
THEOREM WireInvariance == Spec => []PInv
<1>1. Init => WiresOK
  BY InitServes
<1>2. IInv /\ WiresOK /\ [Next]_vars => WiresOK'
  BY StepServes DEF Simulates
<1>3. IInv /\ WiresOK => PInv
  BY DEF PInv
<1>4. QED
  BY <1>1, <1>2, <1>3, Invariance, PTL DEF Spec

\* The worker implements Pipeline: whatever clients send, however they pipeline,
\* hang up and drain their sockets, and whatever scripts do, each connection
\* answers its requests whole, once and in order, and sends nothing after the
\* response to the one that asked to close.
THEOREM WorkerServesInOrder == Spec => ServesInOrder
<1>1. Init => Service!Init
  BY InitServes
<1>2. PInv /\ [Next]_vars => [Service!Next]_(Service!vars)
  BY StepServes DEF Simulates, PInv
<1>3. QED
  BY <1>1, <1>2, WireInvariance, PTL DEF Spec, ServesInOrder, Service!Spec
=============================================================================
