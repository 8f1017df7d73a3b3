------------------------------- MODULE Store --------------------------------
(***************************************************************************)
(* The shared store (js_store.c): a chained hash table that all worker     *)
(* threads use, one mutex around every operation.  An operation is the     *)
(* steps between which another thread could see its memory if the mutex    *)
(* did not keep it out.  An entry is named by its address, a chain is the  *)
(* sequence of its entries; memory never runs out.                         *)
(***************************************************************************)
EXTENDS Integers, Sequences, SequencesExt

CONSTANTS
    Thread, Key, Text, Numbers, MaxInt, Absent,   \* as in KVStore
    Buckets,   \* store->bucket_count
    Hash,      \* js_store_hash(key) % bucket_count, from 1
    Entry,     \* addresses malloc may return
    Freed,     \* what free() leaves behind
    Nobody     \* the mutex is not locked

ASSUME StoreAssumption ==
    /\ MaxInt \in Nat \ {0}
    /\ Numbers \subseteq 0 .. MaxInt
    /\ Absent \notin Text \union Int
    /\ Text \intersect Int = {}
    /\ Buckets \in Nat \ {0}
    /\ Hash \in [Key -> 1 .. Buckets]
    /\ Nobody \notin Thread
    /\ Absent \notin Entry \union Key
    /\ Freed \notin Text \union Int \union {Absent}

VARIABLES
    lock,      \* store->lock
    chain,     \* store->buckets
    ekey,      \* e->key, Absent when the entry is not allocated
    evalue,    \* e->value; Freed after free(), Absent for NULL
    pc,        \* where each thread is in its operation
    call,      \* the operation it performs
    entry,     \* its local `e`, Absent for NULL
    number,    \* its local `val` or `i`
    reply,     \* what it is going to return
    result,    \* what its last operation returned, until its next one
    dict       \* history: the map at the last unlock

vars == <<lock, chain, ekey, evalue, pc, call, entry, number, reply, result, dict>>
heap == <<chain, ekey, evalue>>
locals == <<entry, number, reply>>

KV == INSTANCE KVStore

ASSUME CallAssumption == Absent \notin KV!Op

Init ==
    /\ lock = Nobody
    /\ chain = [b \in 1 .. Buckets |-> <<>>]
    /\ ekey = [e \in Entry |-> Absent]
    /\ evalue = [e \in Entry |-> Absent]
    /\ pc = [th \in Thread |-> "idle"]
    /\ call = [th \in Thread |-> Absent]
    /\ entry = [th \in Thread |-> Absent]
    /\ number = [th \in Thread |-> 0]
    /\ reply = [th \in Thread |-> Absent]
    /\ result = [th \in Thread |-> Absent]
    /\ dict = [k \in Key |-> Absent]

-----------------------------------------------------------------------------
\* js_store_find: the first entry of the key's chain that has the key.
Find(k) == LET i == SelectInSeq(chain[Hash[k]], LAMBDA e : ekey[e] = k)
           IN IF i = 0 THEN Absent ELSE chain[Hash[k]][i]

\* The map the chains hold.
Content == [k \in Key |-> LET e == Find(k) IN IF e = Absent THEN Absent ELSE evalue[e]]

\* Entries malloc may return.
Fresh == {e \in Entry : ekey[e] = Absent}

Op(th)  == call[th].kind
KeyOf(th) == call[th].key

Goto(th, label) == pc' = [pc EXCEPT ![th] = label]

\* A script calls mock.store.
Call(th, op) ==
    /\ pc[th] = "idle"
    /\ call' = [call EXCEPT ![th] = op]
    /\ result' = [result EXCEPT ![th] = Absent]
    /\ Goto(th, "lock")
    /\ UNCHANGED <<lock, heap, locals, dict>>

LockFree(th) == TRUE                                    \* slip: the mutex is not taken
MayLock(th)  == lock = Nobody

Lock(th) ==
    /\ pc[th] = "lock"
    /\ MayLock(th)
    /\ lock' = th
    /\ entry' = [entry EXCEPT ![th] = IF Op(th) \in {"get", "set", "incr", "del"}
                                      THEN Find(KeyOf(th)) ELSE Absent]
    /\ number' = [number EXCEPT ![th] = 1]
    /\ Goto(th, Op(th))
    /\ UNCHANGED <<heap, call, reply, result, dict>>

\* js_store_get: copy the value.
Get(th) ==
    /\ pc[th] = "get"
    /\ reply' = [reply EXCEPT ![th] = IF entry[th] = Absent THEN Absent ELSE evalue[entry[th]]]
    /\ Goto(th, "unlock")
    /\ UNCHANGED <<lock, heap, call, entry, number, result, dict>>

\* A new entry in front of its chain.
LinkTail(e, k) == chain' = [chain EXCEPT ![Hash[k]] = <<e>>]        \* slip: e->next not set
Link(e, k)     == chain' = [chain EXCEPT ![Hash[k]] = <<e>> \o @]

\* js_store_set: free the old value, or link a new entry that holds the new one.
Set(th) ==
    /\ pc[th] = "set"
    /\ reply' = [reply EXCEPT ![th] = 0]
    /\ \/ /\ entry[th] # Absent
          /\ evalue' = [evalue EXCEPT ![entry[th]] = Freed]
          /\ Goto(th, "store")
          /\ UNCHANGED <<chain, ekey>>
       \/ /\ entry[th] = Absent
          /\ \E e \in Fresh :
                /\ ekey' = [ekey EXCEPT ![e] = KeyOf(th)]
                /\ evalue' = [evalue EXCEPT ![e] = call[th].val]
                /\ Link(e, KeyOf(th))
          /\ Goto(th, "unlock")
    /\ UNCHANGED <<lock, call, entry, number, result, dict>>

\* js_store_incr: compute the new number and free the old value, or link a new
\* entry that holds none yet.
Incr(th) ==
    /\ pc[th] = "incr"
    /\ \/ /\ entry[th] # Absent
          /\ number' = [number EXCEPT ![th] = KV!Counted(evalue[entry[th]])]
          /\ evalue' = [evalue EXCEPT ![entry[th]] = Freed]
          /\ UNCHANGED <<chain, ekey, entry>>
       \/ /\ entry[th] = Absent
          /\ \E e \in Fresh :
                /\ ekey' = [ekey EXCEPT ![e] = KeyOf(th)]
                /\ evalue' = [evalue EXCEPT ![e] = Absent]
                /\ Link(e, KeyOf(th))
                /\ entry' = [entry EXCEPT ![th] = e]
          /\ number' = [number EXCEPT ![th] = KV!Counted(Absent)]
    /\ reply' = [reply EXCEPT ![th] = number'[th]]
    /\ Goto(th, "store")
    /\ UNCHANGED <<lock, call, result, dict>>

\* js_store_set and js_store_incr: the entry gets its new value.
StoreValue(th) ==
    /\ pc[th] = "store"
    /\ evalue' = [evalue EXCEPT ![entry[th]] = IF Op(th) = "set" THEN call[th].val ELSE number[th]]
    /\ Goto(th, "unlock")
    /\ UNCHANGED <<lock, chain, ekey, call, locals, result, dict>>

\* js_store_del: unlink the entry, then free it.
Del(th) ==
    /\ pc[th] = "del"
    /\ \/ /\ entry[th] = Absent
          /\ reply' = [reply EXCEPT ![th] = -1]
          /\ Goto(th, "unlock")
          /\ UNCHANGED chain
       \/ /\ entry[th] # Absent
          /\ reply' = [reply EXCEPT ![th] = 0]
          /\ chain' = [chain EXCEPT ![Hash[KeyOf(th)]] = RemoveFirst(@, entry[th])]
          /\ Goto(th, "free")
    /\ UNCHANGED <<lock, ekey, evalue, call, entry, number, result, dict>>

AfterDelReturn == "idle"                                \* slip: returns with the mutex locked
AfterDel       == "unlock"

FreeEntry(th) ==
    /\ pc[th] = "free"
    /\ ekey' = [ekey EXCEPT ![entry[th]] = Absent]
    /\ evalue' = [evalue EXCEPT ![entry[th]] = Absent]
    /\ Goto(th, AfterDel)
    /\ UNCHANGED <<lock, chain, call, locals, result, dict>>

\* js_store_clear: free the entries of the next bucket, then empty it.
ClearBucket(th) ==
    /\ pc[th] = "clear"
    /\ \/ /\ number[th] > Buckets
          /\ reply' = [reply EXCEPT ![th] = 0]
          /\ Goto(th, "unlock")
          /\ UNCHANGED <<ekey, evalue>>
       \/ /\ number[th] <= Buckets
          /\ LET gone == Range(chain[number[th]])
             IN /\ ekey' = [e \in Entry |-> IF e \in gone THEN Absent ELSE ekey[e]]
                /\ evalue' = [e \in Entry |-> IF e \in gone THEN Absent ELSE evalue[e]]
          /\ Goto(th, "empty")
          /\ UNCHANGED reply
    /\ UNCHANGED <<lock, chain, call, entry, number, result, dict>>

KeepBucket(b)  == UNCHANGED chain                       \* slip: buckets[i] not reset
EmptyBucket(b) == chain' = [chain EXCEPT ![b] = <<>>]

Empty(th) ==
    /\ pc[th] = "empty"
    /\ EmptyBucket(number[th])
    /\ number' = [number EXCEPT ![th] = @ + 1]
    /\ Goto(th, "clear")
    /\ UNCHANGED <<lock, ekey, evalue, call, entry, reply, result, dict>>

Unlock(th) ==
    /\ pc[th] = "unlock"
    /\ lock' = Nobody
    /\ result' = [result EXCEPT ![th] = reply[th]]
    /\ call' = [call EXCEPT ![th] = Absent]
    /\ dict' = Content
    /\ entry' = [entry EXCEPT ![th] = Absent]
    /\ number' = [number EXCEPT ![th] = 0]
    /\ reply' = [reply EXCEPT ![th] = Absent]
    /\ Goto(th, "idle")
    /\ UNCHANGED heap

Work(th) ==
    \/ Get(th)
    \/ Set(th)
    \/ Incr(th)
    \/ StoreValue(th)
    \/ Del(th)
    \/ FreeEntry(th)
    \/ ClearBucket(th)
    \/ Empty(th)
    \/ Unlock(th)

Next == \E th \in Thread : Lock(th) \/ Work(th) \/ \E op \in KV!Op : Call(th, op)

Spec == Init /\ [][Next]_vars

\* The scheduler runs a thread that holds the mutex.  A pthread mutex promises no
\* thread that it will get it.
FairSpec == Spec /\ \A th \in Thread : WF_vars(Work(th))

-----------------------------------------------------------------------------
(* Properties.                                                             *)

Stored == KV!Value \union {Absent, Freed}

\* Every variable has its type.
TypeOK ==
    /\ lock \in Thread \union {Nobody}
    /\ chain \in [1 .. Buckets -> Seq(Entry)]
    /\ ekey \in [Entry -> Key \union {Absent}]
    /\ evalue \in [Entry -> Stored]
    /\ pc \in [Thread -> {"idle", "lock", "get", "set", "incr", "store", "del", "free",
                         "clear", "empty", "unlock"}]
    /\ call \in [Thread -> KV!Op \union {Absent}]
    /\ entry \in [Thread -> Entry \union {Absent}]
    /\ number \in [Thread -> KV!Int32 \union 0 .. Buckets + 1]
    /\ reply \in [Thread -> Stored]
    /\ result \in [Thread -> Stored]
    /\ dict \in [Key -> Stored]

Inside(th) == pc[th] \notin {"idle", "lock"}

\* One thread at a time is inside an operation, and it holds the mutex.
MutualExclusion == \A th \in Thread : Inside(th) => lock = th

\* While nobody holds the mutex the table is whole: every chained entry is
\* allocated, in the bucket of its key and with a value that was not freed, no
\* key has two entries, and no allocated entry is off its chain (leaked).
TableWhole ==
    lock = Nobody =>
        /\ \A b \in 1 .. Buckets :
             /\ \A e \in Range(chain[b]) :
                  ekey[e] # Absent /\ Hash[ekey[e]] = b /\ evalue[e] \in KV!Value
             /\ \A i, j \in DOMAIN chain[b] :
                  ekey[chain[b][i]] = ekey[chain[b][j]] => i = j
        /\ \A e \in Entry : ekey[e] # Absent => e \in Range(chain[Hash[ekey[e]]])

\* No operation returns memory another one freed: js_store_get copies the value
\* before it unlocks (js_store.c:35-36).
NothingFreedReturned == \A th \in Thread : reply[th] # Freed

\* The store is linearizable: whatever the threads interleave, each operation
\* takes effect at once, when it unlocks, as in KVStore; in particular no
\* increment is lost ("Atomic increment, returns new value", docs/api.md:136).
Linearizable == KV!Spec

\* Every way out of an operation unlocks: no thread keeps the mutex.
MutexReleased == \A th \in Thread : lock = th ~> lock = Nobody
=============================================================================
