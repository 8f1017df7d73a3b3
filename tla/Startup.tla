------------------------------ MODULE Startup -------------------------------
(***************************************************************************)
(* The life of the process: main compiles the script, makes the runtime,   *)
(* the listening socket and the worker threads, waits for them and frees   *)
(* everything, while the workers start, run and end by themselves.         *)
(*                                                                         *)
(* What a worker does between its start and its end is module Worker.      *)
(***************************************************************************)
EXTENDS Integers

CONSTANTS
    Count,       \* threads to spawn; js_main.c has 4
    MayFail      \* which of Steps may fail

\* The calls into the system and into QuickJS whose failure the code looks at.
Steps == {"compile", "init", "listen", "array", "struct", "create", "engine", "poll"}

ASSUME StartupAssumption ==
    /\ Count \in Nat \ {0}
    /\ MayFail \subseteq Steps

Worker == 0 .. Count - 1
\* What js_runtime_t owns.
Resource == {"bytecode", "script_path", "host", "lfd", "store", "threads"}

VARIABLES
    main,         \* the step main is at
    i,            \* its loop variable, in the spawn and in the wait loop
    count,        \* rt->thread_count
    status,       \* the exit status main will return
    rt,           \* what became of everything js_runtime_t owns
    thread,       \* the js_thread_t of each worker
    worker        \* where the thread of each worker is

vars == <<main, i, count, status, rt, thread, worker>>

\* Lost is what nothing points to any more.
Memory == {"none", "live", "freed", "lost"}

TypeOK ==
    /\ main \in {"compile", "config", "init", "listen", "array", "spawn", "wait",
                 "free", "return", "crash", "exited", "crashed"}
    /\ i \in 0 .. Count
    /\ count \in {0, Count}
    /\ status \in {0, 1}
    /\ rt \in [Resource -> Memory]
    /\ thread \in [Worker -> Memory]
    /\ worker \in [Worker -> {"none", "entry", "loop", "ended", "killed"}]

Init ==
    /\ main = "compile"
    /\ i = 0
    /\ count = 0
    /\ status = 0
    /\ rt = [r \in Resource |-> "none"]
    /\ thread = [w \in Worker |-> "none"]
    /\ worker = [w \in Worker |-> "none"]

-----------------------------------------------------------------------------
\* main

Fails(step) == step \in MayFail

\* An error: report it and go on to the clean-up, or straight to `return 1`.
GiveUp(to) ==
    /\ status' = 1
    /\ main' = to
    /\ UNCHANGED <<i, rt, worker>>

Obtain(resources, to) ==
    /\ rt' = [r \in Resource |-> IF r \in resources THEN "live" ELSE rt[r]]
    /\ main' = to
    /\ UNCHANGED <<i, status, thread, worker>>

Compile ==
    /\ main = "compile"
    /\ \/ Obtain({"bytecode"}, "config")
       \/ Fails("compile") /\ GiveUp("return") /\ UNCHANGED thread
    /\ UNCHANGED count

\* The result of js_qjs_read_config is ignored; a script may name no host.
ReadConfig ==
    /\ main = "config"
    /\ \E found \in {{}, {"host"}} : Obtain(found, "init")
    /\ UNCHANGED count

\* js_runtime_init, and the fields main sets after it.
RuntimeInit ==
    /\ main = "init"
    /\ \/ Obtain({"store", "script_path"}, "listen")
       \/ Fails("init") /\ GiveUp("return") /\ UNCHANGED thread
    /\ UNCHANGED count

\* js_runtime_listen closes the socket it could not bind.
Listen ==
    /\ main = "listen"
    /\ \/ Obtain({"lfd"}, "array")
       \/ Fails("listen") /\ GiveUp("free") /\ UNCHANGED thread
    /\ UNCHANGED count

\* js_thread_spawn_all sets the count before it has the array.
CountedSlip == Count + 1     \* slip: one more than it spawns
Counted == Count

AllocArray ==
    /\ main = "array"
    /\ count' = Counted
    /\ \/ Obtain({"threads"}, "spawn")
       \/ Fails("array") /\ GiveUp("free") /\ UNCHANGED thread

Spawn ==
    /\ main = "spawn" /\ i < Count
    /\ \/ /\ thread' = [thread EXCEPT ![i] = "live"]
          /\ worker' = [worker EXCEPT ![i] = "entry"]
          /\ i' = i + 1
          /\ UNCHANGED <<main, status, rt>>
       \/ /\ Fails("struct")
          /\ GiveUp("free")
          /\ UNCHANGED thread
       \/ /\ Fails("create")
          /\ thread' = [thread EXCEPT ![i] = "live"]
          /\ GiveUp("free")
    /\ UNCHANGED count

Spawned ==
    /\ main = "spawn" /\ i = Count
    /\ main' = "wait"
    /\ i' = 0
    /\ UNCHANGED <<count, status, rt, thread, worker>>

ToJoinSlip == i < count - 1  \* slip: the wait loop stops one early
ToJoin == i < count

Join ==
    /\ main = "wait" /\ ToJoin
    /\ worker[i] = "ended"
    /\ i' = i + 1
    /\ UNCHANGED <<main, count, status, rt, thread, worker>>

Joined ==
    /\ main = "wait" /\ ~ToJoin
    /\ main' = "free"
    /\ UNCHANGED <<i, count, status, rt, thread, worker>>

\* js_runtime_free gives these back; the memset at its end forgets the others.
FreesSlip == {"threads", "lfd", "bytecode", "host"}      \* slip: the store is left out
Frees == {"threads", "lfd", "store", "bytecode", "host"}
Freed(r) ==
    IF rt[r] # "live" THEN rt[r] ELSE IF r \in Frees THEN "freed" ELSE "lost"

\* It reads rt->threads[0] without a look at rt->threads.
RuntimeFree ==
    /\ main = "free"
    /\ IF count > 0 /\ rt["threads"] = "none"
       THEN main' = "crash" /\ UNCHANGED <<rt, thread, count>>
       ELSE /\ main' = "return"
            /\ rt' = [r \in Resource |-> Freed(r)]
            /\ thread' = [w \in Worker |->
                             IF w < count /\ thread[w] = "live" THEN "freed"
                                                                ELSE thread[w]]
            /\ count' = 0
    /\ UNCHANGED <<i, status, worker>>

\* The process ends when main returns or crashes, and every thread with it.
Exit ==
    /\ main \in {"return", "crash"}
    /\ main' = IF main = "crash" THEN "crashed" ELSE "exited"
    /\ worker' = [w \in Worker |-> IF worker[w] \in {"entry", "loop"} THEN "killed"
                                                                      ELSE worker[w]]
    /\ UNCHANGED <<i, count, status, rt, thread>>

Main ==
    \/ Compile \/ ReadConfig \/ RuntimeInit \/ Listen \/ AllocArray \/ Spawn \/ Spawned
    \/ Join \/ Joined \/ RuntimeFree \/ Exit

-----------------------------------------------------------------------------
\* js_thread_entry

Move(w, from, to) ==
    /\ worker[w] = from
    /\ worker' = [worker EXCEPT ![w] = to]
    /\ UNCHANGED <<main, i, count, status, rt, thread>>

\* The result of js_listen_start is ignored: the loop is entered anyway.
EngineInit(w) ==
    \/ Move(w, "entry", "loop")
    \/ Fails("engine") /\ Move(w, "entry", "ended")

\* The loop ends when epoll_wait fails otherwise than by a signal.
EngineRun(w) == Fails("poll") /\ Move(w, "loop", "ended")

Thread(w) == EngineInit(w) \/ EngineRun(w)

Next == Main \/ \E w \in Worker : Thread(w)

Spec == Init /\ [][Next]_vars

-----------------------------------------------------------------------------
Uses(w) == worker[w] \in {"entry", "loop"}

\* What a worker reaches through its js_thread_t: the struct itself, which holds its
\* engine, and by the back pointer rt the bytecode, the store and the socket.
Backed(w) ==
    /\ thread[w] = "live"
    /\ \A r \in {"bytecode", "store", "lfd"} : rt[r] = "live"

\* js_main.c numbers its steps "6. wait" and "7. cleanup": nothing that a running
\* worker uses is freed.
NothingFreedInUse == \A w \in Worker : Uses(w) => Backed(w)

\* The same for every run of the process in which all threads were created,
\* however and in whatever order the workers end.
WorkersBacked == status = 0 => NothingFreedInUse

\* The process reports success only after every worker ended by itself, and then the
\* structs of the threads and all that js_runtime_t owns were given back, but for
\* script_path: js_runtime_free clears the struct and has not freed that one.
CleanExit ==
    main = "exited" /\ status = 0 =>
        /\ \A w \in Worker : worker[w] = "ended" /\ thread[w] = "freed"
        /\ \A r \in Resource \ {"script_path"} : rt[r] \notin {"live", "lost"}
=============================================================================
