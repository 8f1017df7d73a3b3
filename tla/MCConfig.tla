------------------------------ MODULE MCConfig ------------------------------
(* Instances of Config for TLC.                                            *)
EXTENDS Config, TLC

CONSTANT loopback

\* The forms of docs/api.md:9-15, and a script without a default export.
Listens == {
    [kind |-> "absent"],
    [kind |-> "number", n |-> 8080],
    [kind |-> "string", parts |-> <<loopback, 8080>>],
    [kind |-> "string", parts |-> <<8080>>],
    [kind |-> "env", name |-> "PORT", or |-> 3000] }
Scripts == {[listen |-> l] : l \in Listens}
Hosts == {<<loopback>>}
Environments == { "HOME" :> 1, "HOME" :> 1 @@ "PORT" :> 8080 }
=============================================================================
