--------------------------- MODULE StartupProofs ----------------------------
(***************************************************************************)
(* Proofs about Startup, for any number of threads and any set of steps    *)
(* that may fail.                                                          *)
(***************************************************************************)
EXTENDS Startup, TLAPS

Over == main \in {"return", "exited"}

\* What main has obtained by the time it is at a step is live up to the clean-up and
\* freed after it; the copy of the script's path is never freed, and a host is there only
\* if the script named one.
Standing == IF Over THEN "freed" ELSE "live"

ResourcesOK ==
    /\ main # "compile" => rt["bytecode"] = Standing
    /\ main \notin {"compile", "config"} => rt["host"] \in {"none", Standing}
    /\ main \in {"compile", "config"} => rt["host"] = "none"
    /\ main \notin {"compile", "config", "init"} => rt["store"] = Standing
    /\ main \notin {"compile", "config", "init", "listen"} => rt["lfd"] = Standing
    /\ main \notin {"compile", "config", "init", "listen", "array"} => rt["threads"] = Standing

\* The threads below the loop variable were created, or joined.
ThreadsOK ==
    \A w \in Worker :
        /\ worker[w] # "killed"
        /\ main \in {"compile", "config", "init", "listen", "array"} => worker[w] = "none"
        /\ main = "spawn" => IF w < i THEN thread[w] = "live" ELSE worker[w] = "none"
        /\ main \in {"wait", "free"} => thread[w] = "live"
        /\ main = "wait" /\ w < i => worker[w] = "ended"
        /\ main = "free" => worker[w] = "ended"
        /\ Over => thread[w] = "freed" /\ worker[w] = "ended"

MainOK ==
    /\ main \notin {"crash", "crashed"}
    /\ main \in {"compile", "config", "init", "listen", "array"} => i = 0
    /\ main \in {"spawn", "wait", "free"} => count = Count

\* The inductive invariant: TypeOK, and what holds while nothing failed.
IInv ==
    /\ TypeOK
    /\ status = 1 => main \in {"free", "return", "crash", "exited", "crashed"}
    /\ status = 0 => MainOK /\ ResourcesOK /\ ThreadsOK

-----------------------------------------------------------------------------
LEMMA InitOK == Init => IInv
  BY StartupAssumption DEF Init, IInv, TypeOK, Memory, MainOK, ResourcesOK, Standing,
     ThreadsOK, Over, Worker, Resource

LEMMA TypeStep == TypeOK /\ [Next]_vars => TypeOK'
  <1> SUFFICES ASSUME TypeOK, [Next]_vars PROVE TypeOK'
    OBVIOUS
  <1> USE StartupAssumption DEF TypeOK, Memory
  <1>1. CASE Compile
    BY <1>1 DEF Compile, GiveUp, Obtain
  <1>2. CASE ReadConfig
    BY <1>2 DEF ReadConfig, Obtain
  <1>3. CASE RuntimeInit
    BY <1>3 DEF RuntimeInit, GiveUp, Obtain
  <1>4. CASE Listen
    BY <1>4 DEF Listen, GiveUp, Obtain
  <1>5. CASE AllocArray
    BY <1>5 DEF AllocArray, GiveUp, Obtain, Counted
  <1>6. CASE Spawn
    BY <1>6 DEF Spawn, GiveUp, Worker
  <1>7. CASE Spawned
    BY <1>7 DEF Spawned
  <1>8. CASE Join
    BY <1>8 DEF Join, ToJoin, Worker
  <1>9. CASE Joined
    BY <1>9 DEF Joined, ToJoin
  <1>10. CASE RuntimeFree
    BY <1>10 DEF RuntimeFree, Freed, Frees
  <1>11. CASE Exit
    BY <1>11 DEF Exit
  <1>12. ASSUME NEW w \in Worker, Thread(w) PROVE TypeOK'
    BY <1>12 DEF Thread, EngineInit, EngineRun, Move
  <1>13. CASE UNCHANGED vars
    BY <1>13 DEF vars
  <1>14. QED
    BY <1>1, <1>2, <1>3, <1>4, <1>5, <1>6, <1>7, <1>8, <1>9, <1>10, <1>11, <1>12, <1>13
       DEF Next, Main

\* Each step of main takes the facts of one step to those of the next; a failed one
\* has only the status to keep.
LEMMA InvStep == IInv /\ [Next]_vars => IInv'
  <1> SUFFICES ASSUME IInv, [Next]_vars PROVE IInv'
    OBVIOUS
  <1>0. TypeOK'
    BY TypeStep DEF IInv
  <1> USE <1>0, StartupAssumption DEF IInv, TypeOK, MainOK, ResourcesOK, Standing, ThreadsOK, Over
  <1>1. CASE Compile
    BY <1>1 DEF Compile, GiveUp, Obtain, Resource
  <1>2. CASE ReadConfig
    BY <1>2 DEF ReadConfig, Obtain, Resource
  <1>3. CASE RuntimeInit
    BY <1>3 DEF RuntimeInit, GiveUp, Obtain, Resource
  <1>4. CASE Listen
    BY <1>4 DEF Listen, GiveUp, Obtain, Resource
  <1>5. CASE AllocArray
    <2>1. CASE Obtain({"threads"}, "spawn")
      <3>1. status' = 0 => MainOK' /\ ThreadsOK'
        BY <1>5, <2>1 DEF AllocArray, Obtain, Counted, Worker
      <3>2. status' = 0 => ResourcesOK'
        BY <1>5, <2>1 DEF AllocArray, Obtain, Resource
      <3>3. QED
        BY <3>1, <3>2, <1>5, <2>1 DEF AllocArray, Obtain
    <2>2. CASE GiveUp("free") /\ UNCHANGED thread
      BY <2>2 DEF GiveUp
    <2>3. QED
      BY <1>5, <2>1, <2>2 DEF AllocArray
  <1>6. CASE Spawn
    BY <1>6 DEF Spawn, GiveUp, Worker
  <1>7. CASE Spawned
    BY <1>7 DEF Spawned, Worker
  <1>8. CASE Join
    BY <1>8 DEF Join, ToJoin, Worker
  <1>9. CASE Joined
    BY <1>9 DEF Joined, ToJoin, Worker
  <1>10. CASE RuntimeFree
    BY <1>10 DEF RuntimeFree, Freed, Frees, Worker, Resource
  <1>11. CASE Exit
    BY <1>11 DEF Exit
  <1>12. ASSUME NEW w \in Worker, Thread(w) PROVE IInv'
    BY <1>12 DEF Thread, EngineInit, EngineRun, Move
  <1>13. CASE UNCHANGED vars
    BY <1>13 DEF vars
  <1>14. QED
    BY <1>1, <1>2, <1>3, <1>4, <1>5, <1>6, <1>7, <1>8, <1>9, <1>10, <1>11, <1>12, <1>13
       DEF Next, Main

\* While nothing failed main is where IInv says, and what it obtained is live, or
\* freed once it is over: the invariant holds whatever the workers do.
THEOREM StartupInvariance == Spec => []IInv
  BY InitOK, InvStep, PTL DEF Spec

\* Type correctness of main, the runtime and the workers.
THEOREM StartupTyped == Spec => []TypeOK
  BY StartupInvariance, PTL DEF IInv

\* A worker that runs reaches nothing freed, in every run of the process in which all
\* threads were created (js_thread.c:43-48 joins each of them before js_main.c:62).
THEOREM WorkersStayBacked == Spec => []WorkersBacked
  <1>1. IInv => WorkersBacked
    BY StartupAssumption DEF IInv, TypeOK, ThreadsOK, ResourcesOK, Standing, MainOK, Over,
       WorkersBacked, NothingFreedInUse, Backed, Uses, Worker, Resource
  <1>2. QED
    BY <1>1, StartupInvariance, PTL

\* The process returns 0 only when every worker ended by itself and everything
\* js_runtime_t owns, but for the copy of the script's path, was given back.
THEOREM ExitIsClean == Spec => []CleanExit
  <1>1. IInv => CleanExit
    BY DEF IInv, ThreadsOK, ResourcesOK, Standing, Over, CleanExit, Resource
  <1>2. QED
    BY <1>1, StartupInvariance, PTL
=============================================================================
