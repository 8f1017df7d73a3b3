# jsmock in TLA+

jsmock is an HTTP mock server: worker threads, each with its own epoll loop,
run one QuickJS script per request. This directory holds a TLA+ model of what
the C code does, TLC runs that check it on small instances, and proofs that
TLAPS checks for every instance. Paths below are those of the repository
(`src/src/js_http.c` is the file `js_http.c`).

## 1. The system

| part | code | state it keeps | operations |
| --- | --- | --- | --- |
| start-up | `js_main.c`, `js_runtime.c`, `js_thread.c` | `js_runtime_t`: bytecode, script path, host, listening socket, store, threads | compile, read the configuration, listen, spawn, join, free |
| event loop | `js_engine.c`, `js_epoll.c` | the epoll set, the batch of the last `epoll_wait` | add, mod, del, poll and dispatch |
| connections | `js_conn.c` | `js_conn_t`: state, buffers, write offset, keep-alive | accept, read, write, close, free |
| HTTP | `js_http.c`, `js_buf.c` | the two buffers of a connection | parse, serialize, `on_read`, `on_write` |
| script executions | `js_qjs.c` | `js_exec_t`: context, response, `resolved`, list of timeouts, connection | run a handler, defer it, settle it, finish it |
| configuration | `js_qjs.c:64-211` | `host`, `port` | evaluate the script with stubs, read `listen` |
| setTimeout | `js_web.c:5-67` | `js_timeout_t`: a timer and a link in its execution's list | set, fire |
| timers | `js_timer.c` | `now`, `minimum`, the tree of deadlines | add, delete, find, expire |
| red-black tree | `js_rbtree.c` | nodes, one sentinel | insert, delete, min, successor |
| shared store | `js_store.c` | a chained hash table and a mutex | get, set, del, incr, clear |
| router | `js_route.c` | the routes of an execution | add, match |
| Web API | `js_web.c:69-` | JavaScript objects | Request, Response, URL, Headers, encoders, store bindings |

How they interact. The threads share the listening socket, the bytecode (never
written after start-up) and the store; everything else belongs to one thread.
Inside a thread the loop calls the handlers one after the other: `js_timer_find`,
`epoll_wait`, the handlers of its events, `js_timer_expire`, and again. A handler
runs to its end. What interleaves is therefore (a) clients, the kernel and other
threads between two steps of a thread, (b) callbacks: a request's handler can
leave a promise and timeouts behind, so that its connection is taken out of
epoll and the response is produced later by a timer's callback, (c) the steps
of store operations of different threads, kept apart by the mutex.

What is hard about it:

* the lifetimes of four kinds of objects that point at each other: the events
  of a batch at connections, timers at executions, executions at connections,
  the expiry loop at the next timer; each is freed in some handler;
* pipelining and partial reads and writes: a complete request may lie in the
  buffer without causing any readiness;
* deferral: a handler settles before, with or after its last timeout, its
  client leaves meanwhile, its callbacks set more timeouts;
* times: 32-bit deadlines that wrap around, a `now` and a `minimum` that are
  older than the handlers that use them;
* the store: freeing before storing, returns from the middle, chains;
* the tree: one sentinel for all leaves and above the root, whose parent the
  rotations write while a deletion is being fixed up below it;
* framing: requests that arrive in pieces or together, bodies that look like
  requests, heads that are none;
* the script is evaluated anew for each request, and once, with stubs, for the
  configuration.

`PROJECT.json` lists these hazards line by line with the properties that cover
them.

What makes each part correct: the loop sleeps no longer than to the first
deadline and gives every event to a live connection; a connection is watched
for what its state waits for; responses are whole, in order and not duplicated,
each the one its request asks for;
every request is answered when its script settles, and a connection whose
client left is released; a timer fires in order and not before it is due, while
its owner lives; the tree is ordered and balanced after any operations; store
operations are atomic and leave the table whole.

## 2. Modules

| module | models |
| --- | --- |
| `Worker` | one thread: loop, epoll, connections, HTTP handlers, executions, timeouts |
| `Pipeline` | abstract: what a connection promises its client |
| `WorkerProofs` | the inductive invariant of `Worker` and the theorems; `Worker` implements `Pipeline` |
| `Timer` | the timers of a thread with 32-bit arithmetic, clock readings and the ordered tree |
| `TimerQueue` | abstract: timers on a clock that never wraps |
| `TimerProofs` | the arithmetic of `js_msec_t`, the inductive invariant of `Timer` and the theorems |
| `RBTree` | the red-black tree, link by link and colour by colour |
| `OrderedQueue` | abstract: a queue in the order of its keys |
| `RBTreeProofs` | the writes of `RBTree`, its links, colours and heights: the inductive invariant and the theorems |
| `RBOrderProofs` | the order of the nodes in `RBTree`: it implements `OrderedQueue` |
| `Http` | one connection from bytes to bytes: buffers, parser, serializer, what a handler sees |
| `Route` | the router's operators, used by `Http` |
| `Exchange` | abstract: the n-th response is the reply to the n-th request |
| `HttpProofs` | parser, buffers, routes and responses; the invariants of `Http`, that it implements `Exchange`, and the theorems |
| `Store` | the hash table, step by step, and its mutex |
| `KVStore` | abstract: a map with atomic operations |
| `StoreProofs` | the inductive invariant of `Store` and the theorems |
| `SharedList` | the POST handler of `docs/api.md:111-118` on a `KVStore` |
| `Config` | from `export default { listen }` to the address of the socket |
| `Startup` | main and the life of the worker threads, with their failures |
| `StartupProofs` | the inductive invariant of `Startup` and the theorems |
| `SeqLemmas` | what the proofs need of sequences, and induction over numbers and recursive functions |
| `MCWorker`, `MCTimer`, `MCRBTree`, `MCHttp`, `MCStore`, `MCSharedList`, `MCConfig`, `MCStartup` | values of the constants for TLC |

### Worker

`pc` is the place of the loop: `find` (`js_timer_find`), `poll` (`epoll_wait`),
`dispatch` (the loop of `js_epoll_poll`), `fire` (the loop of
`js_timer_expire`). `batch` and `knock` are the events not yet dispatched,
`wake` the timeout handed to `epoll_wait`, `cursor` the pointer `node` of the
expiry loop. `conn` holds the struct and the socket of each connection: `state`,
`rlen`, `wbuf`, `woff`, `keep` are fields of `js_conn_t`, `reg` what epoll
watches the fd for, `inq` and `hungup` what the client did; the states `none`,
`backlog`, `elsewhere` and `freed` are the life of a connection before and after
its struct. `exec`, `resolved` and `timer` are the lives of the heap objects of
`js_qjs.c` and `js_web.c`; `left` is the time to a timer's deadline as seen from
`timers->now`, with overdue timers at 0.

One action is one handler: `OnAccept`, `OnRead`, `OnWrite`, `Fire`
(`js_timeout_handler`, with `js_pending_finish` inside), and one for each step of
the loop. `Process` is `js_http_process`, called by `OnRead` and by `OnWrite`
as in the code. A failed `EPOLL_CTL_ADD` or `MOD` changes nothing, as nobody
looks at the result.

Abstractions: a request is `ReqLen` units of input and a response `RespLen`
units of output, each unit named by its request; a read or write moves any
number of them. A script is a choice: how many timeouts it sets, whether its
promise has settled when it stops, and (`MayHang`) whether it may leave nothing
to wait for. A malformed request is one that the parser refuses. Left out:
memory that runs out (allocation results are mostly unchecked), more than the 1024
events one `epoll_wait` reports, clients that stop draining their socket,
failures of `accept4` other than "another thread was faster", and the signal
`SIGPIPE` (a failed write returns an error here).

### Timer

Times are numbers below `Period = 2 * Half`, compared by `Int32` of their
difference, as `js_msec_t` and `js_msec_int_t` are. The tree is the sequence of
its nodes; `Slots` is where the descent of `js_rbtree_insert` may end: between
two neighbours of which the comparison says so. Where the comparison is a total
order this is one slot. Where it is not (`timer_longest`), which neighbours the
descent meets depends on the shape of the tree; the run has two timers, where
the one comparison decides. The clock is kept unwrapped as history in `clock`,
`known` (at the last reading) and `due`. `js_timer_add` on a timer in the tree,
and `js_timer_delete` on one, are not reached: `js_set_timeout` allocates a
struct per call, and `js_pending_finish` runs when the list is empty
(`Worker!MayFinish`). The bias is 0 for every timer the code creates.

### RBTree

`tree` holds the links and colours of all nodes and of the sentinel. `Insert` and
`Delete` are the operations up to their fix-up, and each round of a fix-up loop is
an action (`InsertRecolour`, `InsertRotate`, `InsertDone`, `DeleteUp`,
`DeleteRotate`, `DeleteDone`), with `at` for the loop's `node`, so that the
invariants hold of every intermediate tree. The code writes each branch twice; a
`Side` and its `Other` stand for left and right. `js_rbtree_node_successor` climbs
parent links in `Successor`, where the properties read the order down the child
links. Two dead values are forgotten so that equal trees are equal states: the
parent an operation leaves in the sentinel, and the colour of a deleted node. A
node's key is fixed: a timer that is used again with another deadline is another
node. Any node may be deleted, which is what the interface offers; the timers
delete the first one only.

`OrderedQueue` is what `Timer` takes the tree for.

### Http, Route, Exchange

`Worker` has the protocol around a connection with requests and responses in
units; `Http` has one connection and what is in the units. Text is a sequence of
tokens: a request line, a header line, the end of a line, a byte of a body. A token
counts as one byte, and TCP cuts the sequence anywhere. `Parse` is
`js_http_parse_request` with its three results: it looks for the blank line, for two
spaces (which, in a request line that has fewer, it finds in the headers), for the
line behind them, takes the last `Content-Length`, and asks for the whole body
before it consumes anything. What clients send are requests (`RequestAssumption`): no
header line is a line end, and where the parser gets as far as the body, the body is as
long as the parser will take it to be. `HandleRequest` is the routing and what becomes of a
handler's result; the handlers of the script echo what they see (`params`, `text()` and,
of `method` and `headers.get("accept")`, what is in the call's `shows`), or throw. Of the
text `headers.get` returns, the set of the values in it is kept. Deferral is a choice here: the response is the same
one, later. `out` is what the client received, and `Replies` reads it the way a client
does, by `Content-Length`: it knows nothing of where the server began a response. It looks for one
response more than were asked for, which would be the answer to nothing.

`Route` has patterns and paths as the texts between slashes. `Http!Reply` states which
handler should answer, and what it sees, from the pattern, the path, the method and the
headers as they were written, with the standard `Request` that `docs/api.md:41` promises:
it uses neither `Route` nor the conversions of the code. Requests for which the two agree
are `PlainRequests`:

* no text of the path begins with a colon, which `js_route_parse` takes off a path as off a
  pattern;
* at most one header is `Connection`, of which `js_http_process` reads the first and
  `AsksClose` any;
* a request whose handler shows the method has one of the five methods that have a name:
  any other is shown as GET;
* a request whose handler shows a header has that header once: of several,
  `js_headers_get` returns the first.

Query strings (cut off the path by the parser and then used by nobody), status
texts and the case of header names are left out.

### Config

The script's `listen` is a number, a string cut at its colons, or
`Number(mock.env(name)) || n`; `Value` is what QuickJS makes of it with a given
`mock.env`. `ReadConfig` evaluates it with the stubs, `Request` is a handler that calls
the real one. `Bound` has the conversions of `js_runtime_listen`: `htons` and
`inet_pton`, whose failure nobody looks at.

### Store

An operation is split at the places where another thread, were it let in, would
see or do damage: after the lock and the search, between freeing a value and
storing the new one, between unlinking and freeing an entry, between freeing a
chain and emptying its bucket. Entries are addresses, so that a freed one may be
handed out again. Values are texts (which `atoi` reads as 0) or ints of a small
width; `js_store_incr` overflows into the negative, as the build does.

### Startup

`main` is the step of `main()` by the numbers of its comments, `i` the loop
variable of `js_thread_spawn_all` and `js_thread_wait_all`, `rt` and `thread` say
what became of everything that `js_runtime_t` owns, each pointer of the struct, the socket
and the store, and of the struct of each thread: not there, live, freed, or lost, which is
allocated with nothing left that points to it. `Frees` is what `js_runtime_free` gives back
before it clears the struct. `worker` is
the place of a thread in `js_thread_entry`. `MayFail` names the calls whose
failure the code looks at. `js_runtime_free` is one step: main frees one thing
after the other, and each of them would show alone what all of them show. What
is inside `js_engine_run` is `Worker`; here it is a step that ends when
`epoll_wait` fails for good. When `main` returns, threads that still run are
killed with the process.

## 3. Runs

| run | instance | shows |
| --- | --- | --- |
| `worker_async` | 2 connections, 1 request each, 2 timeouts each, delays 0 to 2, scripts may hang; 266 370 states | lifetimes: `CursorInTree`, `TimerOwnerAlive`, `SuspendedIffExecuting`, `SettledHasTimeout`, `BatchFresh` |
| `worker_live` | 1 connection, 3 requests of 2 units, responses of 2, 2 timeouts each; fair; 52 573 states | `InterestMatchesState`, `NoStrandedRequest`, `WritingHasOutput`; `ServesInOrder`: `Worker` implements `Pipeline`; `EveryRequestAnswered`, `HungUpReclaimed` |
| `timer` | 3 timers, 16-value clock, delays 0 and 3, 20 ms; 972 000 states | `TreeInOrder`, `NoOversleep`, and `ImplementsQueue`: `Timer` implements `TimerQueue` |
| `rbtree` | 10 nodes, two pairs of them with equal keys; 173 974 states | `LinksAgree`, `RedBlack`, `SuccessorInOrder`, `FixupClimbs`, and `ImplementsQueue`: `RBTree` implements `OrderedQueue` |
| `http` | 1 connection, 2 requests of 11 kinds, 5 routes; 35 025 states | `InputAligned`, `BuffersFit`, and `Exchanges`: `Http` implements `Exchange` |
| `store` | 2 threads, 2 keys in one chain, a second bucket, 2 addresses, numbers to 2; fair; 231 360 states | `MutualExclusion`, `TableWhole`, `NothingFreedReturned`, `MutexReleased`, and `Linearizable`: `Store` implements `KVStore` |
| `startup` | 4 threads, every step may fail; 896 states | `WorkersBacked`, `CleanExit` |
| `timer_longest` | 2 timers, delays 0 and `Half - 1` | violation of `NoOversleep` |
| `timer_idle` | 1 timer | violation of `DelayHonoured` |
| `shared_list` | 2 threads | violation of `EveryCreatedUserStored` |
| `config_env` | the forms of `listen` in `docs/api.md`, 2 environments | violation of `ListensWhereScriptSays` |
| `startup_fail` | 4 threads, creating one may fail | violation of `NothingFreedInUse` |

Why the bounds are enough. Lifetimes need two connections (a batch with two
events, a tree with timers of two executions), two timeouts per execution (one
that settles, one that finishes; one that a callback sets), and delays that tie,
differ and stay ahead of the clock: 0, 1, 2. Requests of one connection are
served one after the other, so one connection with three of them has every
pattern of "answered, being answered, buffered"; two units per request and
response have a partial read, a partial write, and a read that ends in the
middle of the next request. A tree of three timers has a first, a middle and a
last slot; the clock starts close to the end of its range (`Boot = 13` of 16) and
runs past it, and the other start lets delays stay below half the range. The
horizon of 24 hours is 2 so that it passes within the run. Two threads exercise a
lock that protects single operations; two keys in one chain the links, the empty
bucket the end of `js_store_clear`; two addresses, as many as keys, so that a new
entry can only be one that was freed.
Ten nodes give trees of four levels, in which recolouring an insertion
and the shortage of a deletion both move up two rounds and where a node deleted
from the middle has a successor deeper than its child; equal keys are there because
equal deadlines are. In `http` the kinds of requests are: with and without a body, a
body that is itself a request, a body that is a line end, two `Content-Length`s,
`Connection` headers of both kinds, a method without a name, a header given twice, a header
line without a colon, a route that throws, no route, three request lines that lack their
spaces, and a head without headers; `Unfit` has the last four, of which nothing is asked but
that the requests around them are not harmed (HTTP/1.1 demands a `Host`, and the code refuses
a head without any header). Two of them on one connection have every pair, in one piece or many, before or after the
first was answered. Buffers start at 4 bytes (1024 in the code), so that they double
once and several times at once. Symmetry is used
in `worker_async` only, where connections are interchangeable and nothing
temporal is checked.

Bounds by name: `MaxReq`, `MaxTimeouts` and `MaxDelay` (`Worker`), `MaxRequests`
and `FirstCap` (`Http`), `Node` (`RBTree`), `MaxGain` and
`MaxClock` (`Timer`), `Entry` and `MaxInt` (`Store`).

Fairness. `Worker!Fairness` is weak fairness of the loop, which a thread has
from the scheduler, and strong fairness of an expiry with a clock that has
gained at least 1 ms: `CLOCK_MONOTONIC` goes on, and the loop cannot go round
for ever within one millisecond. Clients are not fair: they may never send and
never leave. The liveness runs assume that scripts settle (`MayHang = FALSE`):
nothing in the code bounds the wait for one that does not. `Store!FairSpec` is
weak fairness of a thread that holds the mutex; none is assumed for getting it,
as pthread mutexes are not fair.

Each passing property has a mutant in `PROJECT.json`: an operator (marked "slip"
in the modules) that changes one definition the way a mistake in the code would,
and that the property catches.

### What the five violations say

* `timer_longest`: the comment at `js_timer.c:11` takes the deadlines to lie in a
  small range; `js_set_timeout` lets scripts span 2^31 - 1 ms. A timer of that
  length, set while an overdue one is still in the tree, sorts in front of it,
  and the thread sleeps for the long one. The overdue one is there because
  `js_timer_expire` returns early on a `minimum` computed before it was set.
* `timer_idle`: a timeout counts from the clock of the previous iteration, so the
  time the server waited for the request is taken off the delay
  (`js_timer.c:31`); after an idle second `setTimeout(f, 100)` fires at once.
* `shared_list`: the handler the documentation gives for adding to a shared list
  loses an element when two threads run it at the same time: the store is atomic
  per call, not per handler.
* `config_env`: the documented `Number(mock.env("PORT")) || 3000` always gives 3000. The
  evaluation that reads the configuration has a stub for `mock.env`, so the variable is
  seen by handlers, which is what the tests try, and not by `listen`.
* `startup_fail`: when a thread cannot be created, main goes to the clean-up
  without the wait that its comments put before it, and the threads created before
  run on freed memory until main returns. `WorkersBacked` is the same property for
  the runs in which all threads were created: there it holds, and is proved.

### Where the properties leave the documentation

Three more disagreements have no run of their own: a property of a passing run states what
the documentation or the code's comments lead one to expect, and names the case it leaves out.

* The method of a request (`Exchanges`, left out by `PlainRequests`). `docs/api.md:26` has
  `mock.all` for any method, and `docs/api.md:41-45` a standard `Request` with `req.method`.
  The handler of an OPTIONS request is found, and in it `req.method` is "GET":
  `js_http_method_from_str` forgets the text of a method it does not know, and
  `js_http_method_str` calls it GET (`js_web.c:472-481`; `tests/test_routing.sh:58-68` tries
  GET, POST and DELETE). Of the requests of the run, the OPTIONS one comes to a `mock.all`
  that does not show the method; with `{"method"}` as its `shows`, TLC finds `InstanceIsPlain`
  false and, without that assumption, `Exchanges` violated.
* A repeated header (`Exchanges`, left out by `PlainRequests`). `headers.get` of a standard
  `Request` gives all values of a header, `js_headers_get` the first (`js_web.c:136-141`).
  The same request has `Accept` twice; with `{"accept"}` the result is the same.
* The copy of the script's path (`CleanExit`, left out by name). `js_main.c:35` keeps it in
  the runtime, and `js_runtime_free`, which is the "7. cleanup" of `js_main.c:61`, clears the
  struct without having freed it (`js_runtime.c:42-60`): `rt["script_path"]` ends as "lost".
  The process ends next, so nothing comes of it.

## 4. Proofs

`WorkerProofs` proves, for any set of connections, any number of requests and
timeouts, any sizes and delays (only `WorkerAssumption`: naturals, and requests
and responses that are not empty):

* `Invariance`: `Spec => []IInv`;
* from it `TypeCorrect`, `CursorSafe`, `TimersHaveOwners`, `OneExecution`,
  `SettledIsFinishable`, `EventsAreFresh`, `InterestIsRight`, `NothingStranded`,
  `WritersHaveOutput`: each safety invariant of the runs.

`IInv` is the conjunction of the properties themselves with `ConnsOK`, what holds
of one connection's record alone. None of them is inductive without the others:
that the cursor stays in the tree when a request is finished needs that the
finished execution has no other timer (`MayFinish`); that a firing timer finds
its connection suspended is `TimerOwnerAlive`, whose preservation when another
request finishes needs that a connection has one execution only
(`SuspendedIffExecuting`); that a batch stays fresh needs that a suspended or
freed connection is not watched (`ConnOK`), and that no handler touches a
connection other than the one its event names. The buffer bound in `ConnOK` keeps the
request counter in its range. The argument goes in three layers: lemmas on the
operations of a record (`CloseOK`, `AnswerOK`, ...), two lemmas on steps, one for a
step that rewrites one connection and one for a step that suspends it (`ConnStep`,
`SuspendStep`; `QuietStep` for the rest), and one lemma per action that shows it
to be such a step. `FireOK`, the only action that frees timers, is done directly.

The second part of `WorkerProofs` proves `WorkerServesInOrder`: `Spec => ServesInOrder`, each step of
`Worker` a step of `Pipeline` or a stutter. `Pipeline` counts the units out of the
newest response, `Worker` has a buffer, an offset and the wire; `WiresOK` says, for
each connection, that what is out of the newest response is `woff`, that a buffer
is one whole response, and that nothing of the newest response is out while its
script runs. It is not implied by `IInv`, and `PInv == IInv /\ WiresOK` is inductive
(`WireInvariance`). `ServeSimulates` has the abstract steps once, for "the record goes
from k to x and the wire from w to y"; each handler is then shown to be such a change,
or to leave alone what `Pipeline` sees (`QuietSimulates`).

`StartupProofs` proves `StartupTyped`, `WorkersStayBacked` and `ExitIsClean`, for
any number of threads and any set of steps that may fail (`StartupAssumption`); `ExitIsClean`
is about everything the runtime owns except the copy of the script's path.
`IInv` adds to the properties what main has obtained at each step and which
threads it has created or joined: that nothing is freed under a worker needs that
the wait loop ends with `i = Count`, all threads below `i` having ended.

`TimerProofs` has two layers. `TimerTyped` needs nothing but `TimerAssumption`:
`Basic` is inductive (the tree holds each timer once, the walk of `js_timer_expire`
stands on a node of it or at its end). The other four, `TimerInvariance`,
`TreeStaysInOrder`, `NeverOversleeps` and `TimersAreAQueue` (`Timer` implements
`TimerQueue`), have the hypothesis `ShortDelays`: each delay, and twice what the clock
gains from one reading to the next, stay together below half the range. That is
what the comment at `js_timer.c:11-16` takes for granted. It is not a property of
the code: `timer_longest` shows what happens to the order without it. It excludes delays
within two sleeps of 2^31 ms, and a loop that lets a quarter of the range, twelve
days, pass between two readings of the clock. `Dated`, the second half of
the invariant, says that a wrapped time stands for a real deadline, that the tree is in
the order of those, and how far behind the clock an armed deadline can be: none by more
than the last two gains, because a round of the loop expires what was due at
the `minimum` it started from. This is why two gains are in `ShortDelays`, and from it
`CompareIs` gives that the signed 32-bit difference is the real one. `WrapIs`, `WrapAdd`
and `CompareIs` are the arithmetic; `AddIs`, `FireIs` say where the neighbours of a
timer are afterwards.

`StoreProofs` proves, for any threads, keys, hash function, buckets and addresses
(`StoreAssumption`, and `CallAssumption`: "no call" is not a call), `StoreTyped`,
`MutexExcludes`, `TableStaysWhole`, `NoFreedReply` and
`StoreLinearizable` (`Store` implements `KVStore`). `IInv` says that a thread
between its lock and its unlock is the one `lock` names (`Turns`), that the table is
`Whole(dict)` while nobody is, and, at each place of an operation, which entry or bucket
is under surgery and what the table is apart from it (`At`): `TableWhole` alone is not
inductive, being silent while the mutex is held. The linearization point is
`Unlock`; the abstract map `dict` is shown to be what the chains hold.

`RBTreeProofs` proves, for any nodes and any keys (`RBTreeAssumption`: the sentinel, the
callback and NULL are not nodes and not each other), `TreeInvariance`, `TreeTyped`,
`LinksAlwaysAgree` and `TreeStaysRedBlack`. `LinksAgree` is not inductive: the rotation
of a deletion's fix-up keeps the links only if the sibling is a node and not the sentinel, and
it is one because the heights match. So `IInv` has links, colours and heights at once. `Sound` is the links, with one thing more than `LinksAgree`: a node is not both children
of its parent. `Ranked` says that some rank falls along child links, so that
`js_rbtree_branch_min` and the search of an insertion end and a node differs from its
grandchildren; `Grounded`, that no set of nodes is closed under `parent`, so that a way up
ends at the root (on an infinite set of nodes neither implies the other). Heights are a function with
one equation for each edge (`Balanced`), in place of the recursive `Blackness`; that
`Blackness` has one value then follows by the least rank at which it does not
(`InvPaths`). `Whole`, `Inserting` and `Deleting` are what a tree is between two
operations and in each loop: in the last, one edge counts for one more (`Extra`).
The lemmas come in layers. For each group of link writes there is a relation between
the tree before and after (`Rotated`, `Spliced`, `Replaced`, `Added`, `Painted`), a lemma
that the writes establish it and lemmas on what it keeps. Then each round of a fix-up is
one lemma on trees (`Recolours`, `Raised`, `Lifts`, `Ups`, `Bends`, `Fills`), and each action
shows its tree to be such a round.

`RBOrderProofs` proves the order of that tree, for any nodes and keys: `OrderInvariance`,
`TreeIsAQueue` (`RBTree` implements `OrderedQueue`), `SuccessorsStayInOrder` and
`FixupsClimb`. The order is stated without walking the tree: `Laid` gives each node a
place in a sequence, and a span from `lo` to `hi` around it which the spans of its
children fill up. Some such sequence that is `Sorted` is the strengthening, `OInv`.
A rotation changes the spans of two nodes and no place (`RotatedOrder`), a colour changes
nothing, so each round of a fix-up keeps the order (`Keeps`, `InsertFixupKeeps`,
`DeleteFixupKeeps`). The search of an insertion keeps this: nodes in front of the span it
stands on have no larger key than the new one, nodes behind it have a larger one
(`PlaceFits`); at its end the span is one node, and the new one comes next to it. A deletion from the
middle takes the successor, which is next in the sequence, into the place of the
deleted node. What `InOrder` reads is that sequence (`OrderIs`, by the least span at which
it is not), the climb of `js_rbtree_node_successor` ends at the node one place on (`SuccessorIs`),
and `Depth` has a value because the spans grow on the way up (`DepthIs`).

`HttpProofs` proves, for any requests, script, first capacity and number of requests
(`HttpAssumption`, `RequestAssumption`), first `HttpInvariance`, `HttpTyped`, `InputStaysAligned`
and `BuffersAlwaysFit`. `RequestAssumption` is needed: a client that sends more or less than its
`Content-Length` says has the rest of its input read from where the length ends, as HTTP has
it, and `InputAligned` would not say that. `IInv` adds to the properties that buffers and
responses are sequences, whose lengths the capacities bound. The argument follows the bytes.
`WireIs` says at which positions a request has its lines and their ends; bytes that begin like it
have the blank line there or not yet (`HeadEndIs`), and the same lines in front of it (`LinesIs`).
So `Parse` waits, refuses, or takes the length of one whole request (`ParseIs`), and what
`js_buf_consume` leaves, with what the socket still holds, is the requests behind it (`BehindIs`,
`BehindAre`). `ProcessIs` says this of `js_http_process`, which `OnReadInv` and `OnWriteInv` use for
its two callers. `DoubledIs` shows that the doubling of `js_buf_append` ends, at enough.

From there to `ServesExchanges` (`Http` implements `Exchange`) it is the way of the answer, with
the hypothesis `PlainRequests` (section 2), which the instance of the run satisfies
(`InstanceIsPlain`, evaluated by TLC) and without which the code does something else than `Reply`
says (section 3, "Where the properties leave the documentation"). `ParseFits`: the fields of a
parsed request are those sent. `RoutesAre`, `FitsIsSuits`, `MatchIs`, `ParamsAre`, `AcceptIsShown`: what
the code finds with its segments and header list is what `Reply` says of the script and the
request; together they are `AnswerIs`. `SerializedIs` says at which position of a response each
line is, so that from any byte where one begins the client finds the end of the head, both
headers it needs, and the body (`DecodeIs`), or knows that it has to wait; `RepliesAre` puts such
responses one behind the other. The invariant, `Served`, is about bytes and not about
`Replies`: what the client has is some whole responses, then as much of the next as `woff` says, a
part that is not all of it, and what the server still holds is the rest (`Going`); it is inductive with `IInv`
(`ServedInvariance`). The responses are then what `Replies` finds in this state and in the next
(`SameShown`, `FoundOneMore`), so a step that completes a response is `Exchange!Answer`
(`Answers`), a close is `Exchange!End` (`Ends`), and the rest stutters.

`SeqLemmas` has what several of these proofs need: what a sequence is without one element or with
a new one, that `FlattenSeq` puts sequences one behind the other, and what takes the
place of the library's induction theorems, which have an operator as a parameter: induction over a
set of numbers (`UpTo`, `LeastNatural`), and that recursive functions over numbers and along a
walk exist (`StepsExist`, `WalkExists`).

Every safety property and every refinement the passing runs check is proved. Model-checked
only are `EveryRequestAnswered`, `HungUpReclaimed` and `MutexReleased`: liveness under
fairness, which is out of the prover's reach. The five violations are statements that do not hold.

## 5. Not modelled, and what comes next

Not modelled for good: compiling and module loading (`js_qjs_compile`,
`js_module_loader`: calls into QuickJS), TLS and `js_time.c` (nothing calls them),
console, `TextEncoder` and `TextDecoder` (no state), tests.

Not modelled: `URL`, `URLSearchParams` and the `Headers` a script makes. They are
values of one handler that no other part of the server reads. Reading them
showed differences from the documentation that need no model: a HEAD request that `mock.all`
answers gets a response with a body, `req.url` has neither
host nor query (`js_web.c:488`, where `docs/api.md:46` shows both), and a `Headers` object
given to `new Response` is dropped (`js_web.c:630`).

The plan, in order:

1. `Server`: several workers sharing the listening socket and the store.
2. `Web`: `Headers` as a list of pairs against a map, if more than a handler comes to
   depend on it.
