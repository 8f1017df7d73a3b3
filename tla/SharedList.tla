----------------------------- MODULE SharedList -----------------------------
(***************************************************************************)
(* The handler that docs/api.md gives for mock.store: it reads the list of *)
(* users, takes the next id, adds the new user and stores the list.  Each  *)
(* request runs it on the worker thread that took the connection; the      *)
(* store is the one of module KVStore.                                     *)
(***************************************************************************)
EXTENDS Integers, FiniteSets

CONSTANTS
    Thread, Text, MaxInt, Absent,   \* as in KVStore; the texts are the lists
    Holds                           \* the ids of the users in each list

Users == "users"
NextId == "nextId"
Key == {Users, NextId}
Numbers == {}

VARIABLES
    dict, call, result,   \* the store, as in KVStore
    pc,                   \* where each thread is in the handler
    users,                \* its local `users`
    id                    \* its local `id`

vars == <<dict, call, result, pc, users, id>>
store == <<dict, call, result>>

KV == INSTANCE KVStore

Init ==
    /\ KV!Init
    /\ pc = [th \in Thread |-> "get"]
    /\ users = [th \in Thread |-> Absent]
    /\ id = [th \in Thread |-> 0]

Get(k)    == [kind |-> "get", key |-> k, val |-> Absent]
Incr(k)   == [kind |-> "incr", key |-> k, val |-> Absent]
Set(k, v) == [kind |-> "set", key |-> k, val |-> v]

Ids(list) == IF list = Absent THEN {} ELSE Holds[list]      \* get(...) || []
Listing(ids) == CHOOSE list \in Text : Holds[list] = ids

\* The handler calls the store, and goes on when the call returned.
Ask(th, at, op, next) ==
    /\ pc[th] = at
    /\ KV!Call(th, op)
    /\ pc' = [pc EXCEPT ![th] = next]
    /\ UNCHANGED <<users, id>>

Returned(th, at, next) ==
    /\ pc[th] = at
    /\ call[th] = Absent
    /\ pc' = [pc EXCEPT ![th] = next]
    /\ UNCHANGED store

GotUsers(th) ==
    /\ Returned(th, "got", "incr")
    /\ users' = [users EXCEPT ![th] = result[th]]
    /\ UNCHANGED id

GotId(th) ==
    /\ Returned(th, "counted", "set")
    /\ id' = [id EXCEPT ![th] = result[th]]
    /\ UNCHANGED users

Respond(th) == Returned(th, "stored", "created") /\ UNCHANGED <<users, id>>

Handler(th) ==
    \/ Ask(th, "get", Get(Users), "got")
    \/ GotUsers(th)
    \/ Ask(th, "incr", Incr(NextId), "counted")
    \/ GotId(th)
    \/ Ask(th, "set", Set(Users, Listing(Ids(users[th]) \union {id[th]})), "stored")
    \/ Respond(th)

Perform(th) == KV!Perform(th) /\ UNCHANGED <<pc, users, id>>

Next == \E th \in Thread : Handler(th) \/ Perform(th)

Spec == Init /\ [][Next]_vars

-----------------------------------------------------------------------------
\* Documentation: "Use `mock.store` to share state across requests", and the
\* handler answers 201 with the new user.  Once every request was answered, the
\* stored list has a user for each of them.
EveryCreatedUserStored ==
    (\A th \in Thread : pc[th] = "created") =>
        {id[th] : th \in Thread} \subseteq Ids(dict[Users])
=============================================================================
