------------------------------- MODULE Config -------------------------------
(***************************************************************************)
(* From a script's `export default { listen }` to the address the server   *)
(* listens on (js_main.c:12-45, js_qjs_read_config, js_runtime_listen).    *)
(* The script is evaluated once for this, with stubs in place of jsmock's  *)
(* API, and again for every request, with the API.                         *)
(***************************************************************************)
EXTENDS Integers, Sequences, SequencesExt

CONSTANTS
    Script,       \* scripts
    Name,         \* names of environment variables
    Environment,  \* environments: the number in a variable, by the variable's name
    Ipv4,         \* the hosts inet_pton understands
    Undefined,    \* JavaScript's undefined
    NoHost        \* the host is NULL

VARIABLES
    script,       \* the script; it and the environment do not change
    environment,
    pc,           \* where main is
    host,         \* main's `host`, then rt->host
    port,         \* main's `port`, then rt->port
    bound,        \* where the listening socket is bound, Undefined before
    seen          \* what handlers got from mock.env

vars == <<script, environment, pc, host, port, bound, seen>>

-----------------------------------------------------------------------------
(* Scripts.  `listen` is one of                                            *)
(*   [kind |-> "absent"]                     no default export             *)
(*   [kind |-> "number", n |-> n]            listen: n                     *)
(*   [kind |-> "string", parts |-> s]        listen: "...", cut at colons; *)
(*                                           a part is a host or a number  *)
(*   [kind |-> "env", name |-> v, or |-> n]  Number(mock.env(v)) || n      *)

JsNumber(n) == [type |-> "number", n |-> n]
JsString(s) == [type |-> "string", parts |-> s]

\* js_mock_env, and the stub in its place.
GetEnv == [name \in Name |-> IF name \in DOMAIN environment THEN environment[name] ELSE Undefined]
StubNoop == [name \in Name |-> Undefined]

\* What QuickJS makes of the expression with `env` as mock.env.
Value(listen, env) ==
    CASE listen.kind = "number" -> JsNumber(listen.n)
      [] listen.kind = "string" -> JsString(listen.parts)
      [] listen.kind = "env" ->
           LET v == env[listen.name] IN JsNumber(IF v \in {Undefined, 0} THEN listen.or ELSE v)

-----------------------------------------------------------------------------
Init ==
    /\ script \in Script
    /\ environment \in Environment
    /\ pc = "config"
    /\ host = NoHost
    /\ port = 3000
    /\ bound = Undefined
    /\ seen = {}

\* What js_qjs_read_config leaves in *host and *port.
HostPort(value) ==
    IF value.type = "number" THEN [host |-> NoHost, port |-> value.n]
    ELSE LET n == Len(value.parts)
         IN [host |-> IF n > 1 THEN SubSeq(value.parts, 1, n - 1) ELSE NoHost,
             port |-> Last(value.parts)]

\* js_qjs_read_config; main does not look at its result.
ReadConfig ==
    /\ pc = "config"
    /\ \/ /\ script.listen.kind = "absent"
          /\ UNCHANGED <<host, port>>
       \/ /\ script.listen.kind # "absent"
          /\ LET at == HostPort(Value(script.listen, StubNoop))
             IN /\ host' = at.host
                /\ port' = at.port
    /\ pc' = "listen"
    /\ UNCHANGED <<script, environment, bound, seen>>

\* htons
Short(n) == n % 2 ^ 16

\* js_runtime_listen; a host that inet_pton does not understand is every address,
\* as is none.
Bound == <<IF host # NoHost /\ host \in Ipv4 THEN host ELSE NoHost, Short(port)>>

RuntimeListen ==
    /\ pc = "listen"
    /\ \/ /\ bound' = Bound
          /\ pc' = "serving"
       \/ /\ pc' = "exit"
          /\ UNCHANGED bound
    /\ UNCHANGED <<script, environment, host, port, seen>>

\* A handler that calls mock.env.
Request(name) ==
    /\ pc = "serving"
    /\ seen' = seen \union {<<name, GetEnv[name]>>}
    /\ UNCHANGED <<script, environment, pc, host, port, bound>>

Next == ReadConfig \/ RuntimeListen \/ \E name \in Name : Request(name)

Spec == Init /\ [][Next]_vars

-----------------------------------------------------------------------------
(* Property.                                                               *)

\* Where the script says: port 3000 if it does not, and in the environment the
\* server is started in.
Said(listen) ==
    IF listen.kind = "absent" THEN <<NoHost, 3000>>
    ELSE LET at == HostPort(Value(listen, GetEnv)) IN <<at.host, at.port>>

\* The server listens where the script says: "From environment: export default
\* { listen: Number(mock.env("PORT")) || 3000 }" (docs/api.md:14-15).  The code
\* evaluates the script with a mock.env that returns undefined (js_qjs.c:64-79).
ListensWhereScriptSays == pc = "serving" => bound = Said(script.listen)
=============================================================================
