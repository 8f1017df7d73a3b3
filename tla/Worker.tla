------------------------------- MODULE Worker -------------------------------
(***************************************************************************)
(* One worker thread of jsmock: the event loop (js_engine.c, js_epoll.c),  *)
(* the connections it serves (js_conn.c, js_http.c), the JavaScript        *)
(* executions that outlive their request handler (js_qjs.c) and the        *)
(* setTimeout timers those executions own (js_web.c, the expire loop of    *)
(* js_timer.c).  A handler runs to its end without interleaving, because   *)
(* one thread runs them all; clients, the kernel and the other threads     *)
(* move between any two steps.  An operator marked "slip" is a definition  *)
(* as a mistake in the code would make it; no action uses it.              *)
(*                                                                         *)
(* Data is abstracted to what the connection protocol depends on: a        *)
(* request is ReqLen units of input, the response to the r-th request of a *)
(* connection is the units <<r, 1>> .. <<r, RespLen>>, a script is the     *)
(* choice of how many timeouts it sets and whether its promise settles.    *)
(***************************************************************************)
EXTENDS Integers, Sequences

CONSTANTS
    Conn,         \* connections clients may open (a struct js_conn_t and its fd)
    MaxReq,       \* bound: requests a client sends on one connection
    ReqLen,       \* units of input in a request
    RespLen,      \* units of output in a response
    MaxTimeouts,  \* bound: setTimeout calls of one request's script
    MaxDelay,     \* bound: delays, and what the clock gains in one iteration
    MayHang       \* may a script leave its promise pending with no timeout set?

ASSUME WorkerAssumption ==
    /\ MaxReq \in Nat
    /\ ReqLen \in Nat \ {0}
    /\ RespLen \in Nat \ {0}
    /\ MaxTimeouts \in Nat
    /\ MaxDelay \in Nat
    /\ MayHang \in BOOLEAN

Exec  == Conn \X (1 .. MaxReq)          \* the execution of a connection's r-th request
Timer == Exec \X (1 .. MaxTimeouts)     \* a js_timeout_t, named by the call that made it
NoTimer == <<>>                         \* the tree's sentinel: no next timer
Forever == MaxDelay + 1                 \* no timer to wait for: epoll_wait(-1)

VARIABLES
    pc,        \* where the loop of js_engine_run is
    wake,      \* the timeout js_timer_find returned (and timers->minimum)
    batch,     \* connection events of the last epoll_wait, not yet dispatched
    knock,     \* the listener's event of the last epoll_wait, not yet dispatched
    cursor,    \* `node` of the loop in js_timer_expire
    conn,      \* each connection: the struct and its socket
    wire,      \* history: the response units written to each socket
    exec,      \* heap copy of each js_exec_t
    resolved,  \* exec->resolved
    timer,     \* life of each js_timeout_t
    left       \* an armed timer's deadline, relative to timers->now

loopVars   == <<pc, wake, batch, knock, cursor>>
scriptVars == <<exec, resolved, timer, left>>
vars       == <<pc, wake, batch, knock, cursor, conn, wire, exec, resolved, timer, left>>

States   == {"none", "backlog", "elsewhere", "reading", "writing", "pending", "freed"}
Interest == {"none", "in", "out"}

ConnRec == [state  : States,            \* conn->state, and life before and after it
            reg    : Interest,          \* what epoll watches the fd for
            inq    : Nat,               \* units in the socket, not read yet
            hungup : BOOLEAN,           \* the client closed or reset its end
            rlen   : Nat,               \* conn->rbuf
            wbuf   : Seq(Nat \X Nat),   \* conn->wbuf
            woff   : Nat,               \* conn->woff
            keep   : BOOLEAN,           \* conn->keep_alive
            parsed : 0 .. MaxReq]       \* history: requests parsed so far

NewConn == [state |-> "none", reg |-> "none", inq |-> 0, hungup |-> FALSE, rlen |-> 0,
            wbuf |-> <<>>, woff |-> 0, keep |-> FALSE, parsed |-> 0]

Init ==
    /\ pc = "find"
    /\ wake = Forever
    /\ batch = {}
    /\ knock = FALSE
    /\ cursor = NoTimer
    /\ conn = [c \in Conn |-> NewConn]
    /\ wire = [c \in Conn |-> <<>>]
    /\ exec = [e \in Exec |-> "none"]
    /\ resolved = [e \in Exec |-> FALSE]
    /\ timer = [t \in Timer |-> "none"]
    /\ left = [t \in Timer |-> 0]

-----------------------------------------------------------------------------
(* Clients, the kernel and the other worker threads.                       *)

Live(c) == conn[c].state \in {"backlog", "reading", "writing", "pending"}

Connect(c) ==
    /\ conn[c].state = "none"
    /\ conn' = [conn EXCEPT ![c].state = "backlog"]
    /\ UNCHANGED <<loopVars, wire, scriptVars>>

\* Every thread's epoll watches the one listening socket: another thread may
\* accept the connection first.
AcceptElsewhere(c) ==
    /\ conn[c].state = "backlog"
    /\ conn' = [conn EXCEPT ![c].state = "elsewhere"]
    /\ UNCHANGED <<loopVars, wire, scriptVars>>

\* Clients may pipeline: nothing makes one wait for a response.
Send(c) ==
    /\ Live(c)
    /\ ~conn[c].hungup
    /\ conn[c].parsed * ReqLen + conn[c].rlen + conn[c].inq < MaxReq * ReqLen
    /\ conn' = [conn EXCEPT ![c].inq = @ + 1]
    /\ UNCHANGED <<loopVars, wire, scriptVars>>

HangUp(c) ==
    /\ Live(c)
    /\ ~conn[c].hungup
    /\ conn' = [conn EXCEPT ![c].hungup = TRUE]
    /\ UNCHANGED <<loopVars, wire, scriptVars>>

Clients == \E c \in Conn : Connect(c) \/ AcceptElsewhere(c) \/ Send(c) \/ HangUp(c)

-----------------------------------------------------------------------------
(* js_epoll.c: an ADD fails on an fd already in the set and a MOD on one    *)
(* that is not; every caller ignores the failure.                          *)

EpollAdd(k, ev) == [k EXCEPT !.reg = IF @ = "none" THEN ev ELSE @]
EpollMod(k, ev) == [k EXCEPT !.reg = IF @ = "none" THEN @ ELSE ev]
EpollDel(k)     == [k EXCEPT !.reg = "none"]

\* Level-triggered readiness of a connection; a client that stops draining its
\* socket is left out, short writes are not (OnWrite).
Ready(c) == \/ conn[c].reg = "in" /\ (conn[c].inq > 0 \/ conn[c].hungup)
            \/ conn[c].reg = "out"

Backlog == {c \in Conn : conn[c].state = "backlog"}

-----------------------------------------------------------------------------
(* js_conn.c, js_qjs.c and js_web.c: what the handlers are made of.         *)

Response(r) == [j \in 1 .. RespLen |-> <<r, j>>]

\* js_conn_close and js_conn_free; the kernel drops what was not read.
Close(k) == [EpollDel(k) EXCEPT !.state = "freed", !.inq = 0, !.rlen = 0,
                                !.wbuf = <<>>, !.woff = 0]

\* Serialize the response behind what wbuf holds, and write when epoll says so.
Answer(k, r) == [k EXCEPT !.wbuf = @ \o Response(r), !.state = "writing"]

\* A handler's promise is pending: stop watching the connection.
SuspendHalf(k)    == EpollDel(k)                          \* slip: state not set
SuspendWatched(k) == [k EXCEPT !.state = "pending"]       \* slip: still watched
Suspend(k)        == EpollDel([k EXCEPT !.state = "pending"])

\* js_pending_finish watches it again.
ResumeByMod(k, r) == EpollMod(Answer(k, r), "out")        \* slip: MOD, not ADD
Resume(k, r)      == EpollAdd(Answer(k, r), "out")

ExecOf(t)   == t[1]
Armed       == {t \in Timer : timer[t] = "armed"}
ArmedOf(e)  == {t \in Armed : ExecOf(t) = e}     \* exec->timeouts
FreshOf(e)  == {t \in Timer : ExecOf(t) = e /\ timer[t] = "none"}

\* Did a script that may still be waiting leave something to wait for?
MayStop(done, timeouts) == MayHang \/ done \/ timeouts # {}

\* js_qjs_handle_request: respond at once only if the promise has settled and
\* no timeout of the request is outstanding.
DeferUnsettled(done, timeouts) == ~done                   \* slip: timeouts forgotten
DeferAlways(done, timeouts)    == TRUE                    \* slip: settled while draining
MustDefer(done, timeouts)      == ~done \/ timeouts # {}

\* js_timeout_handler: the last timeout of a settled request finishes it.
FinishSettled(done, timeouts) == done                     \* slip: timeouts forgotten
MayFinish(done, timeouts)     == done /\ timeouts = {}

\* The delays js_set_timeout passes on: negative ones count as 0.
RawDelays == -1 .. MaxDelay                               \* slip: sign not checked
Delays    == 0 .. MaxDelay

\* js_set_timeout, once for each timer of `new`.
SetTimeouts(new, life) ==
    /\ timer' = [t \in Timer |-> IF t \in new THEN "armed" ELSE life[t]]
    /\ \E delay \in [new -> Delays] :
         left' = [t \in Timer |-> IF t \in new THEN delay[t]
                                  ELSE IF life[t] = "armed" THEN left[t] ELSE 0]

\* js_qjs_handle_request: the script of request e runs until it waits for
\* something.  Route matching, exceptions and rejected promises are among the
\* ways to settle.
HandleRequest(e, done, new) ==
    /\ MayStop(done, new)
    /\ SetTimeouts(new, timer)
    /\ \/ /\ ~MustDefer(done, new)
          /\ UNCHANGED <<exec, resolved>>
       \/ /\ MustDefer(done, new)
          /\ exec' = [exec EXCEPT ![e] = "heap"]
          /\ resolved' = [resolved EXCEPT ![e] = done]

\* js_conn_read: n units move from the socket to rbuf.
ReadSome(k, n) == [k EXCEPT !.inq = @ - n, !.rlen = @ + n]

\* What js_http_parse_request may return: 0 wants more input, -1 finds the
\* request malformed, 1 takes it off the buffer.
Parsed(k) == IF k.rlen < ReqLen THEN {0} ELSE {-1, 1}

\* js_http_process on a connection whose struct is k.
Process(c, k) ==
    \/ /\ 0 \in Parsed(k)
       /\ conn' = [conn EXCEPT ![c] = k]
       /\ UNCHANGED scriptVars
    \/ /\ -1 \in Parsed(k)
       /\ conn' = [conn EXCEPT ![c] = Close(k)]
       /\ UNCHANGED scriptVars
    \/ /\ 1 \in Parsed(k)
       /\ LET r == k.parsed + 1
          IN \E keepAlive, done \in BOOLEAN, new \in SUBSET FreshOf(<<c, r>>) :
               LET p == [k EXCEPT !.rlen = @ - ReqLen, !.parsed = r, !.keep = keepAlive]
               IN /\ HandleRequest(<<c, r>>, done, new)
                  /\ conn' = [conn EXCEPT ![c] = IF MustDefer(done, new) THEN Suspend(p)
                                                ELSE EpollMod(Answer(p, r), "out")]

-----------------------------------------------------------------------------
(* js_timer.c: deadlines relative to timers->now, overdue ones at 0.       *)

\* The timer js_rbtree_min or js_rbtree_node_successor may find among ts.
First(ts) == IF ts = {} THEN {NoTimer}
             ELSE {t \in ts : \A u \in ts : left[t] <= left[u]}

\* js_timer_find
Find ==
    /\ pc = "find"
    /\ pc' = "poll"
    /\ IF Armed = {} THEN wake' = Forever ELSE \E t \in First(Armed) : wake' = left[t]
    /\ UNCHANGED <<batch, knock, cursor, conn, wire, scriptVars>>

\* js_timer_expire when the clock gained `gain` since its last call, up to its
\* loop.  It returns at once when timers->minimum, computed before the handlers
\* ran, is still ahead; with an empty tree that is 24 hours ahead.
Expire(gain) ==
    /\ left' = [t \in Timer |-> IF left[t] > gain THEN left[t] - gain ELSE 0]
    /\ \/ /\ wake > gain
          /\ pc' = "find"
          /\ cursor' = NoTimer
       \/ /\ wake <= gain \/ wake = Forever
          /\ pc' = "fire"
          /\ cursor' \in First(Armed)
    /\ UNCHANGED <<wake, conn, wire, exec, resolved, timer>>

-----------------------------------------------------------------------------
(* One iteration of js_engine_run.                                         *)

\* epoll_wait returns events.
PollEvents ==
    /\ pc = "poll"
    /\ {c \in Conn : Ready(c)} # {} \/ Backlog # {}
    /\ batch' = {<<c, conn[c].reg>> : c \in {d \in Conn : Ready(d)}}
    /\ knock' = (Backlog # {})
    /\ pc' = "dispatch"
    /\ UNCHANGED <<wake, cursor, conn, wire, scriptVars>>

NothingReady == Backlog = {} /\ \A c \in Conn : ~Ready(c)

\* epoll_wait times out.
PollTimeout(gain) ==
    /\ pc = "poll"
    /\ NothingReady
    /\ wake <= gain
    /\ Expire(gain)
    /\ UNCHANGED <<batch, knock>>

\* epoll_wait is interrupted by a signal: js_epoll_poll returns 0.
PollInterrupted(gain) ==
    /\ pc = "poll"
    /\ NothingReady
    /\ Expire(gain)
    /\ UNCHANGED <<batch, knock>>

\* Each event of a batch is dispatched once, to its read or to its write handler.
HandledAgain(ev) == batch' = batch                        \* slip: until it would block
Handled(ev)      == batch' = batch \ {ev}

\* js_listen_accept: one connection, or none if another thread was faster.
OnAccept ==
    /\ pc = "dispatch"
    /\ knock
    /\ knock' = FALSE
    /\ \/ /\ Backlog = {}
          /\ UNCHANGED conn
       \/ \E c \in Backlog :
            conn' = [conn EXCEPT ![c] = EpollAdd([conn[c] EXCEPT !.state = "reading"], "in")]
    /\ UNCHANGED <<pc, wake, batch, cursor, wire, scriptVars>>

\* js_http_on_read: some of what the socket holds, or the end of the connection.
OnRead(c) ==
    /\ pc = "dispatch"
    /\ <<c, "in">> \in batch
    /\ Handled(<<c, "in">>)
    /\ \/ \E n \in 1 .. conn[c].inq :
            Process(c, ReadSome(conn[c], n))
       \/ /\ conn[c].hungup
          /\ conn' = [conn EXCEPT ![c] = Close(conn[c])]
          /\ UNCHANGED scriptVars
    /\ UNCHANGED <<pc, wake, knock, cursor, wire>>

\* js_conn_write: units one call may write; nothing if there is nothing to write.
Written(k) == IF k.woff = Len(k.wbuf) THEN {0} ELSE 1 .. Len(k.wbuf) - k.woff

\* The struct once its response is written and the connection is kept.
ReuseOffset(k) == EpollMod([k EXCEPT !.wbuf = <<>>, !.state = "reading"], "in")  \* slip: woff kept
ReuseOutput(k) == EpollMod([k EXCEPT !.woff = 0, !.state = "reading"], "in")     \* slip: wbuf kept
Reuse(k) == EpollMod([k EXCEPT !.wbuf = <<>>, !.woff = 0, !.state = "reading"], "in")

\* Go on with a kept connection: a pipelined request may be in rbuf already.
GoOnIdle(c, k) == conn' = [conn EXCEPT ![c] = Reuse(k)] /\ UNCHANGED scriptVars  \* slip: left there
GoOn(c, k)     == Process(c, Reuse(k))

\* js_http_on_write: part of the response, or all of it and then the next
\* pipelined request or the end of the connection.
OnWrite(c) ==
    LET k == conn[c]
        Sent(n) == [k EXCEPT !.woff = @ + n]
    IN /\ pc = "dispatch"
       /\ <<c, "out">> \in batch
       /\ Handled(<<c, "out">>)
       /\ \/ /\ k.hungup                                   \* write fails
             /\ conn' = [conn EXCEPT ![c] = Close(k)]
             /\ UNCHANGED <<wire, scriptVars>>
          \/ \E n \in Written(k) :
               /\ wire' = [wire EXCEPT ![c] = @ \o SubSeq(k.wbuf, k.woff + 1, k.woff + n)]
               /\ \/ /\ n = 0 \/ k.woff + n < Len(k.wbuf)
                     /\ conn' = [conn EXCEPT ![c] = Sent(n)]
                     /\ UNCHANGED scriptVars
                  \/ /\ n > 0 /\ k.woff + n = Len(k.wbuf)
                     /\ ~k.keep
                     /\ conn' = [conn EXCEPT ![c] = Close(k)]
                     /\ UNCHANGED scriptVars
                  \/ /\ n > 0 /\ k.woff + n = Len(k.wbuf)
                     /\ k.keep
                     /\ GoOn(c, Sent(n))
       /\ UNCHANGED <<pc, wake, knock, cursor>>

\* All events are dispatched: js_timer_expire.
EventsDone(gain) ==
    /\ pc = "dispatch"
    /\ batch = {}
    /\ ~knock
    /\ Expire(gain)
    /\ UNCHANGED <<batch, knock>>

\* js_pending_finish: cancel what timeouts are left, answer, free the execution.
PendingFinish(e, life) ==
    /\ timer' = [t \in Timer |-> IF ExecOf(t) = e /\ life[t] = "armed" THEN "freed" ELSE life[t]]
    /\ left' = [t \in Timer |-> IF timer'[t] = "armed" THEN left[t] ELSE 0]
    /\ conn' = [conn EXCEPT ![e[1]] = Resume(conn[e[1]], e[2])]
    /\ exec' = [exec EXCEPT ![e] = "freed"]
    /\ resolved' = [resolved EXCEPT ![e] = FALSE]

\* The loop of js_timer_expire on a due timer: the successor is read before the
\* handler runs, then js_timeout_handler unlinks the timeout, runs the script's
\* callback (which may settle the promise and set timeouts), may finish the
\* request, and frees the timeout.
Fire(t) ==
    LET e == ExecOf(t)
        life == [timer EXCEPT ![t] = "freed"]
    IN /\ pc = "fire"
       /\ cursor = t
       /\ left[t] = 0
       /\ cursor' \in First(Armed \ {t})
       /\ \E done \in BOOLEAN, new \in SUBSET FreshOf(e) :
            LET rest == (ArmedOf(e) \ {t}) \union new
            IN /\ resolved[e] => done
               /\ MayStop(done, rest)
               /\ \/ /\ ~MayFinish(done, rest)
                     /\ SetTimeouts(new, life)
                     /\ resolved' = [resolved EXCEPT ![e] = done]
                     /\ UNCHANGED <<conn, exec>>
                  \/ /\ MayFinish(done, rest)
                     /\ PendingFinish(e, life)
       /\ UNCHANGED <<pc, wake, batch, knock, wire>>

\* The loop ends at the sentinel or at a timer that is not due.
ExpireReturn ==
    /\ pc = "fire"
    /\ cursor # NoTimer => left[cursor] > 0
    /\ pc' = "find"
    /\ cursor' = NoTimer
    /\ UNCHANGED <<wake, batch, knock, conn, wire, scriptVars>>

LoopExpire(gain) == PollTimeout(gain) \/ PollInterrupted(gain) \/ EventsDone(gain)

Loop ==
    \/ Find
    \/ PollEvents
    \/ \E gain \in 0 .. MaxDelay : LoopExpire(gain)
    \/ OnAccept
    \/ \E c \in Conn : OnRead(c) \/ OnWrite(c)
    \/ \E t \in Timer : Fire(t)
    \/ ExpireReturn

Next == Clients \/ Loop

Spec == Init /\ [][Next]_vars

\* The scheduler runs the thread, and the monotonic clock moves on: the loop
\* cannot go round for ever within one millisecond.
Fairness ==
    /\ WF_vars(Loop)
    /\ SF_vars(\E gain \in 1 .. MaxDelay : LoopExpire(gain))

FairSpec == Spec /\ Fairness

-----------------------------------------------------------------------------
(* Properties.                                                             *)

\* Every variable has its type; the cursor is the sentinel or a timer, and a
\* batch holds connection events.
TypeOK ==
    /\ pc \in {"find", "poll", "dispatch", "fire"}
    /\ wake \in 0 .. Forever
    /\ batch \in SUBSET (Conn \X Interest)
    /\ knock \in BOOLEAN
    /\ cursor \in Timer \union {NoTimer}
    /\ conn \in [Conn -> ConnRec]
    /\ wire \in [Conn -> Seq(Nat \X Nat)]
    /\ exec \in [Exec -> {"none", "heap", "freed"}]
    /\ resolved \in [Exec -> BOOLEAN]
    /\ timer \in [Timer -> {"none", "armed", "freed"}]
    /\ left \in [Timer -> 0 .. MaxDelay]

\* js_timer_expire keeps the successor of the timer it fires across the handler
\* (js_timer.c:117).  The handler frees memory: the kept pointer is always the
\* sentinel or a timer still in the tree, never one that was freed meanwhile.
CursorInTree == cursor # NoTimer => timer[cursor] = "armed"

\* A timer in the tree belongs to an execution still on the heap, whose
\* connection is still allocated and suspended: js_timeout_handler dereferences
\* to->qctx, the exec behind it and exec->conn without a check (js_web.c:7-33).
TimerOwnerAlive ==
    \A t \in Armed : LET e == ExecOf(t)
                    IN exec[e] = "heap" /\ conn[e[1]].state = "pending"

\* A suspended connection has exactly one execution on the heap, that of its
\* newest request, and no other connection has any: a response can neither be
\* lost nor be produced twice, and no execution outlives its connection.
SuspendedIffExecuting ==
    \A c \in Conn, r \in 1 .. MaxReq :
        exec[<<c, r>>] = "heap" <=> (conn[c].state = "pending" /\ conn[c].parsed = r)

\* A settled request that was deferred still has a timeout to come; its last one
\* finishes it.  Otherwise nothing would ever send its response (js_qjs.c:401,
\* js_web.c:32).
SettledHasTimeout ==
    \A e \in Exec : exec[e] = "heap" /\ resolved[e] => ArmedOf(e) # {}

\* What epoll has to watch a connection in this state for.
Waits(state) == IF state = "reading" THEN "in" ELSE IF state = "writing" THEN "out" ELSE "none"

\* epoll watches each connection for exactly what its state waits for, and a
\* suspended or freed one not at all: no lost wakeup, no event for a freed struct.
InterestMatchesState == \A c \in Conn : conn[c].reg = Waits(conn[c].state)

\* An event not yet dispatched still points to the connection it was reported
\* for, allocated and watched for the same thing: no handler run in between
\* freed or re-purposed it (js_epoll.c:40-49).
BatchFresh == \A ev \in batch : conn[ev[1]].reg = ev[2] /\ ev[2] # "none"

\* A connection waiting for input has no complete request in its buffer: a
\* pipelined request that arrived with an earlier one is not left there until
\* more input comes (js_http.c:81-83).
NoStrandedRequest == \A c \in Conn : conn[c].state = "reading" => conn[c].rlen < ReqLen

\* A connection waiting to write has something to write: js_conn_write returning
\* 0 for an empty buffer would spin for ever on a writable socket.
WritingHasOutput ==
    \A c \in Conn : conn[c].state = "writing" => conn[c].woff < Len(conn[c].wbuf)

\* What a connection promises its client (module Pipeline): in-order, whole,
\* exactly-once responses, one request at a time, nothing after `close`.
Sent(c) == IF conn[c].parsed = 0 THEN RespLen
           ELSE IF wire[c] = <<>> \/ wire[c][Len(wire[c])][1] # conn[c].parsed THEN 0
           ELSE wire[c][Len(wire[c])][2]

Service == INSTANCE Pipeline WITH
    open  <- [c \in Conn |-> conn[c].state # "freed"],
    taken <- [c \in Conn |-> conn[c].parsed],
    last  <- [c \in Conn |-> conn[c].parsed > 0 /\ ~conn[c].keep],
    sent  <- [c \in Conn |-> Sent(c)],
    out   <- wire

ServesInOrder == Service!Spec

Gone(c) == conn[c].state \in {"freed", "elsewhere"}
Received(c) == conn[c].parsed * ReqLen + conn[c].rlen + conn[c].inq
Answered(c, r) == \E j \in DOMAIN wire[c] : wire[c][j] = <<r, RespLen>>

\* Every request a client sent in full is answered in full, whatever it was
\* pipelined with and however many timeouts stand in between, unless the
\* connection is closed first (by the client, or after a malformed request or
\* one that asked to close).  Scripts settle (MayHang = FALSE).
EveryRequestAnswered ==
    \A c \in Conn, r \in 1 .. MaxReq :
        Received(c) >= r * ReqLen ~> (Answered(c, r) \/ Gone(c))

\* When a client hangs up the server releases the struct and the fd, also when
\* it had suspended the connection.  Scripts settle (MayHang = FALSE).
HungUpReclaimed ==
    \A c \in Conn : conn[c].hungup ~> Gone(c)
=============================================================================
