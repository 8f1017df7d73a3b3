----------------------------- MODULE StoreProofs ----------------------------
(***************************************************************************)
(* The safety of the shared store, for any number of threads, keys,        *)
(* buckets and entries, any hash function and any INT_MAX: the mutex keeps *)
(* the table whole and the store is linearizable.                          *)
(***************************************************************************)
EXTENDS Store, SeqLemmas

Bucket == 1 .. Buckets
Maybe == KV!Value \union {Absent}

\* The chain of bucket b holds allocated entries of its own keys, each key once.
ChainOK(b) ==
    /\ \A e \in Range(chain[b]) : ekey[e] # Absent /\ Hash[ekey[e]] = b
    /\ \A i, j \in DOMAIN chain[b] : ekey[chain[b][i]] = ekey[chain[b][j]] => i = j

\* An allocated entry can be found on its chain.
Reached(e) == ekey[e] # Absent => e \in Range(chain[Hash[ekey[e]]])

\* An allocated entry holds what the map d says; what no entry holds d has not.
Agrees(e, d) == ekey[e] # Absent => evalue[e] \in KV!Value /\ d[ekey[e]] = evalue[e]
Lacks(k, d) == (\A e \in Entry : ekey[e] # k) => d[k] = Absent

\* The table is whole and holds the map d.
Linked == (\A b \in Bucket : ChainOK(b)) /\ (\A e \in Entry : Reached(e))
Whole(d) == Linked /\ (\A e \in Entry : Agrees(e, d)) /\ (\A k \in Key : Lacks(k, d))

\* What the thread inside knows at each step of its operation.
\* js_store_find has found the entry of the key, if there is one.
Found(th) ==
    /\ Op(th) = pc[th]
    /\ Whole(dict)
    /\ entry[th] # Absent => ekey[entry[th]] = KeyOf(th)
    /\ entry[th] = Absent => \A e \in Entry : ekey[e] # KeyOf(th)

\* js_store_clear has emptied the buckets before the number-th.
Clearing(th) ==
    /\ Op(th) = "clear"
    /\ number[th] \in 1 .. Buckets + 1
    /\ Linked
    /\ \A e \in Entry : Agrees(e, dict) /\ (ekey[e] # Absent => Hash[ekey[e]] >= number[th])

\* The number-th chain leads to freed entries.
Emptying(th) ==
    /\ Op(th) = "clear"
    /\ number[th] \in Bucket
    /\ \A b \in Bucket \ {number[th]} : ChainOK(b)
    /\ \A e \in Entry : Reached(e) /\ Agrees(e, dict)
    /\ \A e \in Entry : ekey[e] # Absent => Hash[ekey[e]] > number[th]

\* The entry's value is freed or not there yet, the new one is known.
Storing(th) ==
    /\ Op(th) \in {"set", "incr"}
    /\ entry[th] # Absent
    /\ ekey[entry[th]] = KeyOf(th)
    /\ Linked
    /\ \A e \in Entry \ {entry[th]} : Agrees(e, dict)
    /\ \A k \in Key \ {KeyOf(th)} : Lacks(k, dict)
    /\ reply[th] = KV!Returned(call[th], dict)
    /\ Op(th) = "incr" => number[th] = KV!Counted(dict[KeyOf(th)])

\* The entry is off its chain, the rest of the table is as it will be.
Freeing(th) ==
    /\ Op(th) = "del"
    /\ entry[th] # Absent
    /\ \A b \in Bucket : ChainOK(b) /\ entry[th] \notin Range(chain[b])
    /\ \A e \in Entry \ {entry[th]} : Reached(e) /\ Agrees(e, dict) /\ ekey[e] # KeyOf(th)
    /\ ekey[entry[th]] = KeyOf(th)
    /\ \A k \in Key : Lacks(k, dict)
    /\ reply[th] = KV!Returned(call[th], dict)

\* The operation has had its effect, which the next unlock makes visible.
Done(th) ==
    /\ Whole(KV!Effect(call[th], dict))
    /\ reply[th] = KV!Returned(call[th], dict)

At(th) ==
    /\ pc[th] \in {"get", "set", "incr", "del"} => Found(th)
    /\ pc[th] = "clear"  => Clearing(th)
    /\ pc[th] = "empty"  => Emptying(th)
    /\ pc[th] = "store"  => Storing(th)
    /\ pc[th] = "free"   => Freeing(th)
    /\ pc[th] = "unlock" => Done(th)

\* The inductive invariant.
Types ==
    /\ TypeOK
    /\ dict \in [Key -> Maybe]
    /\ reply \in [Thread -> Maybe]
    /\ result \in [Thread -> Maybe]

Turns ==
    /\ MutualExclusion
    /\ \A th \in Thread : lock = th => Inside(th)
    /\ \A th \in Thread : pc[th] = "idle" <=> call[th] = Absent

IInv ==
    /\ Types
    /\ Turns
    /\ lock = Nobody => Whole(dict)
    /\ \A th \in Thread : Inside(th) => At(th)

-----------------------------------------------------------------------------
(* Operations.                                                             *)

\* What the operations of KVStore are.
LEMMA OpParts ==
  ASSUME NEW op \in KV!Op
  PROVE  /\ op.kind \in {"get", "del", "incr", "set", "clear"}
         /\ op.kind # "clear" => op.key \in Key
         /\ op.kind = "set" => op.val \in KV!Value
<1>1. Numbers \subseteq KV!Int32
  BY StoreAssumption DEF KV!Int32
<1>2. CASE op \in [kind : {"get", "del", "incr"}, key : Key, val : {Absent}]
  BY <1>2
<1>3. CASE op \in [kind : {"set"}, key : Key, val : Text \union Numbers]
  BY <1>1, <1>3 DEF KV!Value
<1>4. CASE op \in [kind : {"clear"}, key : {Absent}, val : {Absent}]
  BY <1>4
<1>5. QED
  BY <1>2, <1>3, <1>4 DEF KV!Op

\* Values, the absence of one and freed memory are told apart, and what an
\* operation returns is no freed memory.
LEMMA ValueFacts ==
  /\ Absent \notin KV!Value
  /\ Freed \notin Maybe
  /\ Maybe \subseteq Stored
  /\ {-1, 0, 1} \subseteq KV!Int32
  /\ KV!Int32 \subseteq KV!Value
  BY StoreAssumption DEF KV!Value, KV!Int32, Maybe, Stored

\* Counting stays within an int.
LEMMA CountedType ==
  ASSUME NEW v \in Maybe
  PROVE  KV!Counted(v) \in KV!Int32
<1>1. CASE v \in KV!Int32
  BY <1>1, StoreAssumption DEF KV!Counted, KV!Succ, KV!Atoi, KV!Int32
<1>2. CASE v \in Text
  BY <1>2, StoreAssumption DEF KV!Counted, KV!Succ, KV!Atoi, KV!Int32
<1>3. CASE v = Absent
  BY <1>3, ValueFacts DEF KV!Counted
<1>4. QED
  BY <1>1, <1>2, <1>3 DEF Maybe, KV!Value

\* What each operation does to the map, and what it returns.
LEMMA EffectOf ==
  ASSUME NEW op \in KV!Op, NEW d \in [Key -> Maybe]
  PROVE  /\ op.kind = "get"   => KV!Effect(op, d) = d
         /\ op.kind = "set"   => KV!Effect(op, d) = [d EXCEPT ![op.key] = op.val]
         /\ op.kind = "del"   => KV!Effect(op, d) = [d EXCEPT ![op.key] = Absent]
         /\ op.kind = "incr"  => KV!Effect(op, d) = [d EXCEPT ![op.key] = KV!Counted(d[op.key])]
         /\ op.kind = "clear" => KV!Effect(op, d) = [k \in Key |-> Absent]
         /\ KV!Effect(op, d) \in [Key -> Maybe]
<1>1. /\ op.kind = "get"   => KV!Effect(op, d) = d
      /\ op.kind = "set"   => KV!Effect(op, d) = [d EXCEPT ![op.key] = op.val]
      /\ op.kind = "del"   => KV!Effect(op, d) = [d EXCEPT ![op.key] = Absent]
      /\ op.kind = "incr"  => KV!Effect(op, d) = [d EXCEPT ![op.key] = KV!Counted(d[op.key])]
      /\ op.kind = "clear" => KV!Effect(op, d) = [k \in Key |-> Absent]
  BY OpParts DEF KV!Effect
<1>2. op.kind = "incr" => KV!Counted(d[op.key]) \in Maybe
  BY OpParts, CountedType, ValueFacts DEF Maybe
<1>3. QED
  BY <1>1, <1>2, OpParts DEF Maybe

LEMMA ReturnedOf ==
  ASSUME NEW op \in KV!Op, NEW d \in [Key -> Maybe]
  PROVE  /\ op.kind = "get"   => KV!Returned(op, d) = d[op.key]
         /\ op.kind = "set"   => KV!Returned(op, d) = 0
         /\ op.kind = "del"   => KV!Returned(op, d) = IF d[op.key] = Absent THEN -1 ELSE 0
         /\ op.kind = "incr"  => KV!Returned(op, d) = KV!Counted(d[op.key])
         /\ op.kind = "clear" => KV!Returned(op, d) = 0
  BY OpParts DEF KV!Returned

-----------------------------------------------------------------------------
(* Chains.                                                                 *)

\* No two entries of a whole table have the same key.
LEMMA KeysUnique ==
  ASSUME Types, Linked, NEW e \in Entry, NEW f \in Entry, ekey[e] # Absent, ekey[e] = ekey[f]
  PROVE  e = f
<1> DEFINE b == Hash[ekey[e]]
<1>1. ekey[e] \in Key /\ b \in Bucket
  BY StoreAssumption DEF Types, TypeOK, Bucket
<1>2. e \in Range(chain[b]) /\ f \in Range(chain[b])
  BY DEF Linked, Reached
<1>3. ChainOK(b) /\ chain[b] \in Seq(Entry)
  BY <1>1 DEF Linked, Types, TypeOK, Bucket
<1>4. PICK i \in DOMAIN chain[b], j \in DOMAIN chain[b] : chain[b][i] = e /\ chain[b][j] = f
  BY <1>2, <1>3, RangeIs
<1>5. i = j
  BY <1>3, <1>4 DEF ChainOK
<1>6. QED
  BY <1>4, <1>5

\* js_store_find returns the entry of the key, NULL if there is none.
LEMMA FindIs ==
  ASSUME Types, Linked, NEW k \in Key
  PROVE  /\ Find(k) \in Entry \union {Absent}
         /\ Find(k) # Absent => ekey[Find(k)] = k
         /\ Find(k) = Absent => \A e \in Entry : ekey[e] # k
<1> DEFINE b == Hash[k]
           s == chain[b]
           I == {i \in 1 .. Len(s) : ekey[s[i]] = k}
<1>1. b \in Bucket
  BY StoreAssumption DEF Bucket
<1>2. ChainOK(b) /\ s \in Seq(Entry)
  BY <1>1 DEF Linked, Types, TypeOK, Bucket
<1>3. Find(k) = LET i == IF I # {} THEN Min(I) ELSE 0 IN IF i = 0 THEN Absent ELSE s[i]
  BY DEF Find, SelectInSeq
<1>4. CASE I = {}
  <2>1. Find(k) = Absent
    BY <1>3, <1>4
  <2>2. ASSUME NEW e \in Entry, ekey[e] = k PROVE FALSE
    <3>1. e \in Range(s)
      BY <2>2, StoreAssumption DEF Linked, Reached
    <3>2. QED
      BY <3>1, <2>2, <1>2, <1>4, RangeIs
  <2>3. QED
    BY <2>1, <2>2
<1>5. CASE I # {}
  <2>1. PICK i \in 1 .. Len(s) : ekey[s[i]] = k
    BY <1>5
  <2>2. I = {i}
    BY <2>1, <1>2, RangeIs DEF ChainOK
  <2>3. Min(I) = i
    BY <2>2, <1>2, RangeIs DEF Min
  <2>4. Find(k) = s[i]
    <3> HIDE DEF I, s
    <3>1. (IF I # {} THEN Min(I) ELSE 0) = i /\ i # 0
      BY <1>5, <2>1, <2>3
    <3>2. QED
      BY <1>3, <3>1
  <2>5. s[i] \in Entry
    BY <1>2, <2>1, RangeIs
  <2>6. QED
    BY <2>1, <2>4, <2>5, StoreAssumption
<1>6. QED
  BY <1>4, <1>5

\* A whole table holds one map, its content.
LEMMA ContentIs ==
  ASSUME Types, NEW d \in [Key -> Maybe], Whole(d)
  PROVE  Content = d
<1>1. ASSUME NEW k \in Key PROVE Content[k] = d[k]
  <2>1. CASE Find(k) = Absent
    BY <2>1, FindIs DEF Content, Whole, Lacks
  <2>2. CASE Find(k) # Absent
    BY <2>2, FindIs, StoreAssumption DEF Content, Whole, Agrees
  <2>3. QED
    BY <2>1, <2>2
<1>2. Content = [k \in Key |-> Content[k]]
  BY DEF Content
<1>3. QED
  BY <1>1, <1>2

-----------------------------------------------------------------------------
(* The steps.                                                              *)

LEMMA InitOK == Init => IInv
<1> SUFFICES ASSUME Init PROVE IInv
  OBVIOUS
<1> USE StoreAssumption DEF Init
<1>1. Types
  <2>1. <<>> \in Seq(Entry)
    OBVIOUS
  <2>2. QED
    BY <2>1, ValueFacts DEF Types, TypeOK, Maybe, Stored
<1>2. Turns
  BY DEF Turns, MutualExclusion, Inside
<1>3. Whole(dict)
  BY DEF Whole, Linked, ChainOK, Reached, Agrees, Lacks, Range, Bucket
<1>4. QED
  BY <1>1, <1>2, <1>3 DEF IInv, Inside

\* While a thread works inside, the others are not concerned.
LEMMA InsideStep ==
  ASSUME IInv, NEW th \in Thread, lock = th, lock' = lock, call' = call,
         NEW label, label \notin {"idle", "lock"}, Goto(th, label),
         Types', At(th)'
  PROVE  IInv'
<1>1. /\ pc[th] \notin {"idle", "lock"}
      /\ pc' = [pc EXCEPT ![th] = label] /\ pc \in [Thread -> {"idle", "lock", "get", "set", "incr",
                          "store", "del", "free", "clear", "empty", "unlock"}]
  BY DEF IInv, Turns, Types, TypeOK, Inside, Goto
<1>2. Turns'
  BY <1>1 DEF IInv, Turns, MutualExclusion, Inside
<1>3. lock' # Nobody
  BY StoreAssumption
<1>4. \A u \in Thread : Inside(u)' => At(u)'
  BY <1>2 DEF Turns, MutualExclusion
<1>5. QED
  BY <1>2, <1>3, <1>4 DEF IInv

\* What a thread inside an operation may rely on.
LEMMA AtHome ==
  ASSUME IInv, NEW th \in Thread, Inside(th)
  PROVE  /\ lock = th
         /\ At(th)
         /\ call[th] \in KV!Op
         /\ Types
         /\ dict \in [Key -> Maybe]
         /\ entry[th] \in Entry \union {Absent}
<1>1. lock = th /\ At(th) /\ Types
  BY DEF IInv, Turns, MutualExclusion
<1>2. call[th] \in KV!Op
  BY <1>1 DEF IInv, Turns, Types, TypeOK, Inside
<1>3. QED
  BY <1>1, <1>2 DEF Types, TypeOK

LEMMA CallOK == ASSUME IInv, NEW th \in Thread, NEW op \in KV!Op, Call(th, op) PROVE IInv'
<1> USE DEF Call, Goto, heap, locals
<1>1. Types'
  BY ValueFacts DEF IInv, Types, TypeOK, Stored, Maybe
<1>2. Turns'
  BY CallAssumption DEF IInv, Turns, MutualExclusion, Inside, Types, TypeOK
<1>3. (lock = Nobody => Whole(dict))'
  BY DEF IInv, Whole, Linked, ChainOK, Reached, Agrees, Lacks
<1>4. ASSUME NEW u \in Thread, Inside(u)' PROVE At(u)'
  <2>1. u # th /\ Inside(u) /\ pc'[u] = pc[u] /\ call'[u] = call[u]
    BY <1>4 DEF IInv, Types, TypeOK, Inside
  <2>2. At(u)
    BY <2>1 DEF IInv
  <2>3. /\ \A b : ChainOK(b)' = ChainOK(b)
        /\ \A e : Reached(e)' = Reached(e)
        /\ Linked' = Linked
    BY DEF Linked, ChainOK, Reached
  <2>4. (\A e \in Entry : Agrees(e, dict)' = Agrees(e, dict)) /\ (\A k \in Key : Lacks(k, dict)' = Lacks(k, dict))
    BY DEF Agrees, Lacks
  <2>5. Whole(dict)' = Whole(dict)
    BY <2>3, <2>4 DEF Whole
  <2>6. Op(u)' = Op(u) /\ KeyOf(u)' = KeyOf(u)
    BY <2>1 DEF Op, KeyOf
  <2>7. Found(u) => Found(u)'
    BY <2>1, <2>5, <2>6 DEF Found
  <2>8. Clearing(u) => Clearing(u)'
    BY <2>3, <2>4, <2>6 DEF Clearing
  <2>9. Emptying(u) => Emptying(u)'
    BY <2>3, <2>4, <2>6 DEF Emptying
  <2>10. Storing(u) => Storing(u)'
    BY <2>1, <2>3, <2>4, <2>6 DEF Storing
  <2>11. Freeing(u) => Freeing(u)'
    BY <2>1, <2>3, <2>4, <2>6 DEF Freeing
  <2>12. Done(u) => Done(u)'
    BY <2>1, <2>3 DEF Done, Whole, Agrees, Lacks
  <2>13. QED
    BY <2>1, <2>2, <2>7, <2>8, <2>9, <2>10, <2>11, <2>12 DEF At
<1>5. QED
  BY <1>1, <1>2, <1>3, <1>4 DEF IInv

LEMMA LockOK == ASSUME IInv, NEW th \in Thread, Lock(th) PROVE IInv'
<1> USE DEF Lock, MayLock, Goto, heap
<1>1. Types /\ Whole(dict) /\ Linked /\ call[th] \in KV!Op
  BY DEF IInv, Types, TypeOK, Turns, Whole
<1>2. /\ Op(th) \in {"get", "set", "incr", "del"} => KeyOf(th) \in Key
      /\ Op(th) \in {"get", "set", "incr", "del", "clear"}
  BY <1>1, OpParts DEF Op, KeyOf
<1> DEFINE found == IF Op(th) \in {"get", "set", "incr", "del"} THEN Find(KeyOf(th)) ELSE Absent
<1>3. found \in Entry \union {Absent}
  BY <1>1, <1>2, FindIs
<1>4. entry' = [entry EXCEPT ![th] = found] /\ entry \in [Thread -> Entry \union {Absent}]
  BY <1>1 DEF Types, TypeOK
<1> HIDE DEF found
<1>5. Types'
  BY <1>1, <1>2, <1>3, <1>4, StoreAssumption DEF Types, TypeOK
<1>6. Turns'
  BY <1>1, <1>2, StoreAssumption DEF IInv, Turns, MutualExclusion, Inside, Types, TypeOK
<1>7. lock' # Nobody
  BY StoreAssumption
<1>8. Whole(dict)'
  BY <1>1 DEF Whole, Linked, ChainOK, Reached, Agrees, Lacks
<1>9. At(th)'
  <2>1. pc'[th] = Op(th) /\ Op(th)' = Op(th) /\ KeyOf(th)' = KeyOf(th) /\ entry'[th] = found
    BY <1>1, <1>4 DEF Types, TypeOK, Op, KeyOf
  <2>2. CASE Op(th) = "clear"
    <3>1. Clearing(th)'
      <4>1. number'[th] = 1
        BY <1>1 DEF Types, TypeOK
      <4>2. \A e \in Entry : ekey'[e] # Absent => Hash[ekey'[e]] >= 1
        BY <1>5, StoreAssumption DEF Types, TypeOK
      <4>3. QED
        BY <1>8, <2>1, <2>2, <4>1, <4>2, StoreAssumption DEF Clearing, Whole
    <3>2. QED
      BY <2>1, <2>2, <3>1 DEF At
  <2>3. CASE Op(th) # "clear"
    <3>1. Found(th)'
      BY <1>1, <1>2, <1>8, <2>1, <2>3, FindIs DEF Found, found
    <3>2. QED
      BY <1>2, <2>1, <2>3, <3>1 DEF At
  <2>4. QED
    BY <2>2, <2>3
<1>10. QED
  BY <1>5, <1>6, <1>7, <1>9 DEF IInv, Turns, MutualExclusion

\* js_store_get returns what the map holds.
LEMMA GetOK == ASSUME IInv, NEW th \in Thread, Get(th) PROVE IInv'
<1> USE DEF Get, heap
<1>1. /\ lock = th /\ Found(th) /\ call[th] \in KV!Op /\ Types
      /\ dict \in [Key -> Maybe] /\ entry[th] \in Entry \union {Absent}
  BY AtHome DEF Inside, At
<1>2. Op(th) = "get" /\ KeyOf(th) \in Key
  BY <1>1, OpParts DEF Found, Op, KeyOf
<1> DEFINE value == IF entry[th] = Absent THEN Absent ELSE evalue[entry[th]]
<1>3. value = dict[KeyOf(th)]
  BY <1>1, <1>2, StoreAssumption DEF Found, Whole, Agrees, Lacks
<1>4. Types'
  <2>1. value \in Maybe
    BY <1>1, <1>2, <1>3
  <2>2. reply' = [reply EXCEPT ![th] = value]
    OBVIOUS
  <2> HIDE DEF value
  <2>3. QED
    BY <1>1, <2>1, <2>2, ValueFacts DEF Types, TypeOK, Goto
<1>5. Done(th)'
  <2>1. KV!Effect(call[th], dict) = dict /\ KV!Returned(call[th], dict) = dict[KeyOf(th)]
    BY <1>1, <1>2, EffectOf, ReturnedOf DEF Op, KeyOf
  <2>2. reply'[th] = dict[KeyOf(th)]
    BY <1>1, <1>3 DEF Types, TypeOK
  <2>3. Whole(dict)'
    BY <1>1 DEF Found, Whole, Linked, ChainOK, Reached, Agrees, Lacks
  <2>4. QED
    BY <2>1, <2>2, <2>3 DEF Done
<1>6. At(th)'
  BY <1>1, <1>5 DEF At, Goto, Types, TypeOK
<1>7. QED
  BY <1>1, <1>4, <1>6, InsideStep

\* A new entry in front of its chain leaves the table linked.
LEMMA LinkOK ==
  ASSUME Types, Linked, NEW k \in Key, NEW e \in Fresh,
         \A f \in Entry : ekey[f] # k,
         ekey' = [ekey EXCEPT ![e] = k], Link(e, k)
  PROVE  Linked' /\ chain' \in [Bucket -> Seq(Entry)]
<1> DEFINE b == Hash[k]
           s == chain[b]
<1>1. /\ b \in Bucket /\ s \in Seq(Entry) /\ chain \in [Bucket -> Seq(Entry)]
      /\ e \in Entry /\ ekey[e] = Absent /\ ekey \in [Entry -> Key \union {Absent}]
      /\ k # Absent
  BY StoreAssumption DEF Types, TypeOK, Bucket, Fresh
<1>2. chain' = [chain EXCEPT ![b] = <<e>> \o s] /\ <<e>> \o s \in Seq(Entry)
  BY <1>1, PrependIs DEF Link
<1>3. /\ chain' \in [Bucket -> Seq(Entry)]
      /\ chain'[b] = <<e>> \o s
      /\ \A c \in Bucket \ {b} : chain'[c] = chain[c]
  BY <1>1, <1>2
<1>4. ekey'[e] = k /\ \A f \in Entry \ {e} : ekey'[f] = ekey[f]
  BY <1>1
<1>5. \A c \in Bucket : e \notin Range(chain[c])
  BY <1>1 DEF Linked, ChainOK
<1>6. ASSUME NEW c \in Bucket \ {b} PROVE ChainOK(c)'
  <2>1. ChainOK(c) /\ chain'[c] = chain[c] /\ chain[c] \in Seq(Entry) /\ e \notin Range(chain[c])
    BY <1>1, <1>3, <1>5 DEF Linked
  <2>2. \A f \in Range(chain[c]) : ekey'[f] = ekey[f]
    BY <1>4, <2>1, RangeIs
  <2>3. QED
    BY <2>1, <2>2, RangeIs DEF ChainOK
<1>7. ChainOK(b)'
  <2>1. ChainOK(b) /\ e \notin Range(s)
    BY <1>1, <1>5 DEF Linked
  <2>2. \A f \in Range(s) : f \in Entry /\ ekey'[f] = ekey[f] /\ ekey'[f] # k
    BY <1>1, <1>4, <2>1, RangeIs
  <2> DEFINE t == <<e>> \o s
  <2>3. /\ Range(t) = {e} \union Range(s) /\ t \in Seq(Entry) /\ Len(t) = Len(s) + 1 /\ t[1] = e
        /\ \A i \in 1 .. Len(s) : t[i + 1] = s[i]
    BY <1>1, PrependIs
  <2>4. chain'[b] = t
    BY <1>3
  <2> HIDE DEF t
  <2>5. \A f \in Range(t) : ekey'[f] # Absent /\ Hash[ekey'[f]] = b
    BY <1>1, <1>4, <2>1, <2>2, <2>3 DEF ChainOK
  <2>6. ASSUME NEW i \in DOMAIN t, NEW j \in DOMAIN t, ekey'[t[i]] = ekey'[t[j]] PROVE i = j
    <3>1. DOMAIN t = 1 .. Len(s) + 1 /\ DOMAIN s = 1 .. Len(s) /\ Len(s) \in Nat
      <4>1. s \in Seq(Entry) /\ t \in Seq(Entry) /\ Len(t) = Len(s) + 1
        BY <1>1, <2>3
      <4>2. DOMAIN s = 1 .. Len(s) /\ Len(s) \in Nat
        BY <4>1, RangeIs
      <4>3. DOMAIN t = 1 .. Len(t)
        BY <4>1, RangeIs
      <4>4. QED
        BY <4>1, <4>2, <4>3
    <3>2. \A m \in 2 .. Len(s) + 1 : m - 1 \in DOMAIN s /\ t[m] = s[m - 1] /\ t[m] \in Range(s)
      <4> TAKE m \in 2 .. Len(s) + 1
      <4>1. m - 1 \in 1 .. Len(s) /\ (m - 1) + 1 = m
        BY <3>1
      <4>2. t[(m - 1) + 1] = s[m - 1]
        BY <2>3, <4>1
      <4>3. QED
        BY <1>1, <3>1, <4>1, <4>2, RangeIs
    <3>3. ekey'[t[1]] = k /\ \A m \in 2 .. Len(s) + 1 : ekey'[t[m]] # k
      <4>1. ekey'[t[1]] = k
        BY <1>4, <2>3
      <4>2. QED
        BY <2>2, <3>2, <4>1
    <3>4. CASE i = 1 /\ j # 1
      <4>1. j \in 2 .. Len(s) + 1
        BY <3>1, <3>4
      <4>2. QED
        BY <2>6, <3>3, <3>4, <4>1
    <3>5. CASE i # 1 /\ j = 1
      <4>1. i \in 2 .. Len(s) + 1
        BY <3>1, <3>5
      <4>2. QED
        BY <2>6, <3>3, <3>5, <4>1
    <3>6. CASE i # 1 /\ j # 1
      <4>1. i - 1 \in DOMAIN s /\ j - 1 \in DOMAIN s /\ ekey[s[i - 1]] = ekey[s[j - 1]]
        BY <2>2, <2>6, <3>1, <3>2, <3>6
      <4>2. i - 1 = j - 1
        BY <2>1, <4>1 DEF ChainOK
      <4>3. QED
        BY <3>1, <4>2
    <3>7. QED
      BY <3>4, <3>5, <3>6
  <2>7. QED
    BY <2>4, <2>5, <2>6 DEF ChainOK
<1>8. ASSUME NEW f \in Entry PROVE Reached(f)'
  <2>0. Range(chain'[b]) = {e} \union Range(s)
    BY <1>1, <1>3, PrependIs
  <2>1. CASE f = e
    BY <1>4, <2>0, <2>1 DEF Reached
  <2>2. CASE f # e
    <3>1. ekey'[f] = ekey[f] /\ Reached(f)
      BY <1>4, <2>2 DEF Linked
    <3>2. CASE ekey[f] # Absent /\ Hash[ekey[f]] = b
      BY <2>0, <3>1, <3>2 DEF Reached
    <3>3. CASE ekey[f] # Absent /\ Hash[ekey[f]] # b
      <4>1. Hash[ekey[f]] \in Bucket \ {b}
        BY <1>1, <3>3, StoreAssumption DEF Bucket
      <4>2. QED
        BY <1>3, <3>1, <4>1 DEF Reached
    <3>4. QED
      BY <3>1, <3>2, <3>3 DEF Reached
  <2>3. QED
    BY <2>1, <2>2
<1>9. QED
  BY <1>3, <1>6, <1>7, <1>8 DEF Linked

\* js_store_set frees the old value of the key, or makes an entry for it.
LEMMA SetOK == ASSUME IInv, NEW th \in Thread, Set(th) PROVE IInv'
<1> USE DEF Set
<1>1. /\ lock = th /\ Found(th) /\ call[th] \in KV!Op /\ Types
      /\ dict \in [Key -> Maybe] /\ entry[th] \in Entry \union {Absent}
  BY AtHome DEF Inside, At
<1>2. Op(th) = "set" /\ KeyOf(th) \in Key /\ call[th].val \in KV!Value
  BY <1>1, OpParts DEF Found, Op, KeyOf
<1>3. KV!Returned(call[th], dict) = 0 /\ reply'[th] = 0
  BY <1>1, <1>2, ReturnedOf DEF Op, Types, TypeOK
<1>4. reply' \in [Thread -> Maybe] /\ reply' \in [Thread -> Stored]
  BY <1>1, ValueFacts DEF Types, Maybe
<1>5. CASE entry[th] # Absent
  <2>1. /\ evalue' = [evalue EXCEPT ![entry[th]] = Freed]
        /\ Goto(th, "store") /\ UNCHANGED <<chain, ekey>>
    BY <1>5
  <2>2. Types'
    BY <1>1, <1>4, <2>1 DEF Types, TypeOK, Goto, Stored
  <2>3. Linked'
    BY <1>1, <2>1 DEF Found, Whole, Linked, ChainOK, Reached
  <2>4. \A e \in Entry \ {entry[th]} : Agrees(e, dict)'
    BY <1>1, <2>1 DEF Found, Whole, Agrees, Types, TypeOK
  <2>5. \A k \in Key : Lacks(k, dict)'
    BY <1>1, <2>1 DEF Found, Whole, Lacks
  <2>6. Op(th)' = "set" /\ KeyOf(th)' = KeyOf(th) /\ ekey'[entry'[th]] = KeyOf(th)
    BY <1>1, <1>2, <1>5, <2>1 DEF Op, KeyOf, Found
  <2>7. Storing(th)'
    BY <1>3, <1>5, <2>3, <2>4, <2>5, <2>6 DEF Storing
  <2>8. At(th)'
    BY <1>1, <2>1, <2>7 DEF At, Goto, Types, TypeOK
  <2>9. QED
    BY <1>1, <2>1, <2>2, <2>8, InsideStep
<1>6. CASE entry[th] = Absent
  <2>1. PICK e \in Fresh : /\ ekey' = [ekey EXCEPT ![e] = KeyOf(th)]
                          /\ evalue' = [evalue EXCEPT ![e] = call[th].val]
                          /\ Link(e, KeyOf(th))
    BY <1>6
  <2>2. Goto(th, "unlock")
    BY <1>6
  <2>3. \A f \in Entry : ekey[f] # KeyOf(th)
    BY <1>1, <1>6 DEF Found
  <2>4. Linked' /\ chain' \in [Bucket -> Seq(Entry)]
    BY <1>1, <1>2, <2>1, <2>3, LinkOK DEF Found, Whole
  <2>5. e \in Entry /\ ekey[e] = Absent
    BY DEF Fresh
  <2>6. Types'
    BY <1>1, <1>2, <1>4, <2>1, <2>2, <2>4, <2>5 DEF Types, TypeOK, Goto, Bucket, Stored
  <2> DEFINE d == [dict EXCEPT ![KeyOf(th)] = call[th].val]
  <2>7. KV!Effect(call[th], dict) = d /\ d' = d
    BY <1>1, <1>2, EffectOf DEF Op, KeyOf
  <2>8. d[KeyOf(th)] = call[th].val /\ \A k \in Key \ {KeyOf(th)} : d[k] = dict[k]
    BY <1>1, <1>2
  <2> HIDE DEF d
  <2>9. ASSUME NEW f \in Entry PROVE Agrees(f, d)'
    <3>1. CASE f = e
      BY <1>1, <1>2, <2>1, <2>5, <2>7, <2>8, <3>1 DEF Agrees, Types, TypeOK
    <3>2. CASE f # e
      <4>1. ekey'[f] = ekey[f] /\ evalue'[f] = evalue[f] /\ ekey[f] # KeyOf(th) /\ ekey[f] \in Key \union {Absent}
        BY <1>1, <2>1, <2>3, <2>5, <3>2 DEF Types, TypeOK
      <4>2. Agrees(f, dict)
        BY <1>1 DEF Found, Whole
      <4>3. QED
        BY <2>7, <2>8, <4>1, <4>2 DEF Agrees
    <3>3. QED
      BY <3>1, <3>2
  <2>10. ASSUME NEW k \in Key, \A f \in Entry : ekey'[f] # k PROVE d[k] = Absent
    <3>1. k # KeyOf(th)
      BY <1>1, <1>2, <2>1, <2>5, <2>10 DEF Types, TypeOK
    <3>2. \A f \in Entry : ekey[f] # k
      BY <1>1, <2>1, <2>5, <2>10, StoreAssumption DEF Types, TypeOK
    <3>3. QED
      BY <1>1, <2>8, <3>1, <3>2 DEF Found, Whole, Lacks
  <2>11. Whole(d)'
    BY <2>4, <2>7, <2>9, <2>10 DEF Whole, Lacks
  <2>12. Done(th)'
    BY <1>3, <2>7, <2>11 DEF Done
  <2>13. At(th)'
    BY <1>1, <2>2, <2>12 DEF At, Goto, Types, TypeOK
  <2>14. QED
    BY <1>1, <2>2, <2>6, <2>13, InsideStep
<1>7. QED
  BY <1>5, <1>6

\* js_store_incr counts from the old value, or makes an entry that has none yet.
LEMMA IncrOK == ASSUME IInv, NEW th \in Thread, Incr(th) PROVE IInv'
<1> USE DEF Incr
<1>1. /\ lock = th /\ Found(th) /\ call[th] \in KV!Op /\ Types /\ Linked
      /\ dict \in [Key -> Maybe] /\ entry[th] \in Entry \union {Absent}
  BY AtHome DEF Inside, At, Found, Whole
<1>2. Op(th) = "incr" /\ KeyOf(th) \in Key
  BY <1>1, OpParts DEF Found, Op, KeyOf
<1> DEFINE n == KV!Counted(dict[KeyOf(th)])
<1>3. n \in KV!Int32 /\ KV!Returned(call[th], dict) = n
  BY <1>1, <1>2, CountedType, ReturnedOf DEF Op, KeyOf
<1>4. number' = [number EXCEPT ![th] = n]
  <2>1. CASE entry[th] # Absent
    BY <1>1, <1>2, <2>1, StoreAssumption DEF Found, Whole, Agrees
  <2>2. CASE entry[th] = Absent
    BY <1>1, <1>2, <2>2 DEF Found, Whole, Lacks
  <2>3. QED
    BY <2>1, <2>2
<1>5. number'[th] = n /\ reply'[th] = n /\ reply' = [reply EXCEPT ![th] = n]
  BY <1>1, <1>4 DEF Types, TypeOK
<1> HIDE DEF n
<1>6. /\ number' \in [Thread -> KV!Int32 \union 0 .. Buckets + 1]
      /\ reply' \in [Thread -> Maybe] /\ reply' \in [Thread -> Stored]
  BY <1>1, <1>3, <1>4, <1>5, ValueFacts DEF Types, TypeOK, Maybe
<1>7. Op(th)' = "incr" /\ KeyOf(th)' = KeyOf(th)
  BY <1>2 DEF Op, KeyOf
<1>8. /\ Types' /\ entry'[th] # Absent /\ ekey'[entry'[th]] = KeyOf(th) /\ Linked'
      /\ \A e \in Entry \ {entry'[th]} : Agrees(e, dict)'
      /\ \A k \in Key \ {KeyOf(th)} : Lacks(k, dict)'
  <2>1. CASE entry[th] # Absent
    <3>1. evalue' = [evalue EXCEPT ![entry[th]] = Freed] /\ UNCHANGED <<chain, ekey, entry>>
      BY <2>1
    <3>2. Types'
      BY <1>1, <1>6, <3>1 DEF Types, TypeOK, Goto, Stored
    <3>3. Linked'
      BY <1>1, <3>1 DEF Linked, ChainOK, Reached
    <3>4. \A e \in Entry \ {entry[th]} : Agrees(e, dict)'
      BY <1>1, <3>1 DEF Found, Whole, Agrees, Types, TypeOK
    <3>5. \A k \in Key : Lacks(k, dict)'
      BY <1>1, <3>1 DEF Found, Whole, Lacks
    <3>6. entry'[th] = entry[th] /\ ekey'[entry[th]] = KeyOf(th)
      BY <1>1, <2>1, <3>1 DEF Found
    <3>7. QED
      BY <2>1, <3>2, <3>3, <3>4, <3>5, <3>6
  <2>2. CASE entry[th] = Absent
    <3>1. PICK e \in Fresh : /\ ekey' = [ekey EXCEPT ![e] = KeyOf(th)]
                            /\ evalue' = [evalue EXCEPT ![e] = Absent]
                            /\ Link(e, KeyOf(th))
                            /\ entry' = [entry EXCEPT ![th] = e]
      BY <2>2
    <3>2. \A f \in Entry : ekey[f] # KeyOf(th)
      BY <1>1, <2>2 DEF Found
    <3>3. Linked' /\ chain' \in [Bucket -> Seq(Entry)]
      BY <1>1, <1>2, <3>1, <3>2, LinkOK
    <3>4. e \in Entry /\ ekey[e] = Absent /\ entry'[th] = e
      BY <1>1, <3>1 DEF Fresh, Types, TypeOK
    <3>5. Types'
      BY <1>1, <1>2, <1>6, <3>1, <3>3, <3>4 DEF Types, TypeOK, Goto, Bucket, Stored
    <3>6. \A f \in Entry \ {e} : Agrees(f, dict)'
      BY <1>1, <3>1, <3>4 DEF Found, Whole, Agrees, Types, TypeOK
    <3>7. ASSUME NEW k \in Key \ {KeyOf(th)} PROVE Lacks(k, dict)'
      <4>1. (\A f \in Entry : ekey'[f] # k) => \A f \in Entry : ekey[f] # k
        BY <1>1, <3>1, <3>4, StoreAssumption DEF Types, TypeOK
      <4>2. QED
        BY <1>1, <4>1 DEF Found, Whole, Lacks
    <3>8. ekey'[e] = KeyOf(th)
      BY <1>1, <3>1, <3>4 DEF Types, TypeOK
    <3>9. QED
      BY <3>3, <3>4, <3>5, <3>6, <3>7, <3>8, StoreAssumption
  <2>3. QED
    BY <2>1, <2>2
<1>9. Storing(th)'
  <2>1. KV!Returned(call'[th], dict') = n /\ KV!Counted(dict'[KeyOf(th)']) = n
    BY <1>3, <1>7 DEF n
  <2>2. QED
    BY <1>5, <1>7, <1>8, <2>1 DEF Storing
<1>10. At(th)'
  BY <1>1, <1>9 DEF At, Goto, Types, TypeOK
<1>11. QED
  BY <1>1, <1>8, <1>10, InsideStep

\* The entry gets its new value: the table is whole again, with the operation done.
LEMMA StoreValueOK == ASSUME IInv, NEW th \in Thread, StoreValue(th) PROVE IInv'
<1> USE DEF StoreValue, locals
<1>1. /\ lock = th /\ Storing(th) /\ call[th] \in KV!Op /\ Types /\ Linked
      /\ dict \in [Key -> Maybe] /\ entry[th] \in Entry
  BY AtHome DEF Inside, At, Storing
<1>2. KeyOf(th) \in Key /\ Op(th) \in {"set", "incr"} /\ ekey[entry[th]] = KeyOf(th)
  BY <1>1, OpParts DEF Storing, Op, KeyOf
<1> DEFINE v == IF Op(th) = "set" THEN call[th].val ELSE number[th]
           d == [dict EXCEPT ![KeyOf(th)] = v]
<1>3. v \in KV!Value /\ KV!Effect(call[th], dict) = d
  <2>1. CASE Op(th) = "set"
    BY <1>1, <2>1, OpParts, EffectOf DEF Op, KeyOf
  <2>2. CASE Op(th) = "incr"
    <3>1. number[th] = KV!Counted(dict[KeyOf(th)])
      BY <1>1, <2>2 DEF Storing
    <3>2. dict[KeyOf(th)] \in Maybe
      BY <1>1, <1>2
    <3>3. v = KV!Counted(dict[KeyOf(th)]) /\ v \in KV!Value
      BY <2>2, <3>1, <3>2, CountedType, ValueFacts
    <3>4. KV!Effect(call[th], dict) = [dict EXCEPT ![KeyOf(th)] = KV!Counted(dict[KeyOf(th)])]
      BY <1>1, <2>2, EffectOf DEF Op, KeyOf
    <3>5. QED
      BY <3>3, <3>4
  <2>3. QED
    BY <1>2, <2>1, <2>2
<1>4. evalue' = [evalue EXCEPT ![entry[th]] = v] /\ d' = d
  BY DEF Op, KeyOf
<1>5. d[KeyOf(th)] = v /\ \A k \in Key \ {KeyOf(th)} : d[k] = dict[k]
  BY <1>1, <1>2
<1> HIDE DEF v, d
<1>6. Types'
  BY <1>1, <1>3, <1>4 DEF Types, TypeOK, Goto, Stored
<1>7. Linked'
  BY <1>1 DEF Linked, ChainOK, Reached
<1>8. ASSUME NEW e \in Entry PROVE Agrees(e, d)'
  <2>1. CASE e = entry[th]
    BY <1>1, <1>2, <1>3, <1>4, <1>5, <2>1 DEF Agrees, Types, TypeOK
  <2>2. CASE e # entry[th]
    <3>1. ekey[e] # KeyOf(th)
      BY <1>1, <1>2, <2>2, KeysUnique, StoreAssumption
    <3>2. Agrees(e, dict) /\ evalue'[e] = evalue[e] /\ ekey[e] \in Key \union {Absent}
      BY <1>1, <1>4, <2>2 DEF Storing, Types, TypeOK
    <3>3. QED
      BY <1>4, <1>5, <3>1, <3>2 DEF Agrees
  <2>3. QED
    BY <2>1, <2>2
<1>9. ASSUME NEW k \in Key PROVE Lacks(k, d)'
  BY <1>1, <1>2, <1>4, <1>5 DEF Storing, Lacks
<1>10. Done(th)'
  <2>1. Whole(d)'
    BY <1>7, <1>8, <1>9 DEF Whole
  <2>2. QED
    BY <1>1, <1>3, <1>4, <2>1 DEF Storing, Done
<1>11. At(th)'
  BY <1>1, <1>10 DEF At, Goto, Types, TypeOK
<1>12. QED
  BY <1>1, <1>6, <1>11, InsideStep

\* Unlinking an entry leaves the others linked, and no chain leads to it any more.
LEMMA UnlinkOK ==
  ASSUME Types, Linked, NEW k \in Key, NEW e \in Entry, ekey[e] = k, ekey' = ekey,
         chain' = [chain EXCEPT ![Hash[k]] = RemoveFirst(@, e)]
  PROVE  /\ chain' \in [Bucket -> Seq(Entry)]
         /\ \A c \in Bucket : ChainOK(c)' /\ e \notin Range(chain'[c])
         /\ \A f \in Entry \ {e} : Reached(f)' /\ ekey[f] # k
<1> DEFINE b == Hash[k]
           s == chain[b]
<1>1. /\ b \in Bucket /\ s \in Seq(Entry) /\ k # Absent
      /\ chain \in [Bucket -> Seq(Entry)]
  BY StoreAssumption DEF Bucket, Types, TypeOK
<1>2. ChainOK(b) /\ e \in Range(s)
  BY <1>1 DEF Linked, Reached
<1>3. /\ \A f \in Range(s) : ekey[f] # Absent /\ Hash[ekey[f]] = b
      /\ \A i, j \in DOMAIN s : ekey[s[i]] = ekey[s[j]] => i = j
  BY <1>2 DEF ChainOK
<1>4. DOMAIN s = 1 .. Len(s) /\ Len(s) \in Nat
  BY <1>1, RangeIs
<1>5. PICK i \in 1 .. Len(s) : s[i] = e
  BY <1>1, <1>2, RangeIs
<1>6. \A j \in 1 .. Len(s) : s[j] = s[i] => j = i
  BY <1>3, <1>4
<1> DEFINE r == RemoveAt(s, i)
<1>7. RemoveFirst(s, e) = r /\ Range(r) = Range(s) \ {e}
  <2> HIDE DEF s
  <2>1. RemoveFirst(s, s[i]) = RemoveAt(s, i) /\ Range(RemoveAt(s, i)) = Range(s) \ {s[i]}
    BY <1>1, <1>6, RemoveFirstIs
  <2>2. QED
    BY <1>5, <2>1
<1>8. /\ r \in Seq(Entry) /\ Len(r) = Len(s) - 1
      /\ \A j \in 1 .. Len(s) - 1 : r[j] = IF j < i THEN s[j] ELSE s[j + 1]
  <2> HIDE DEF s
  <2>1. QED
    BY <1>1, RemoveAtIs
<1>9. chain' = [chain EXCEPT ![b] = r]
  BY <1>7
<1> HIDE DEF r
<1>10. /\ chain' \in [Bucket -> Seq(Entry)] /\ chain'[b] = r
       /\ \A c \in Bucket \ {b} : chain'[c] = chain[c]
  BY <1>1, <1>8, <1>9
<1>11. ChainOK(b)'
  <2>1. \A f \in Range(r) : ekey[f] # Absent /\ Hash[ekey[f]] = b
    BY <1>3, <1>7
  <2>2. ASSUME NEW x \in DOMAIN r, NEW y \in DOMAIN r, ekey[r[x]] = ekey[r[y]] PROVE x = y
    <3> DEFINE up(j) == IF j < i THEN j ELSE j + 1
    <3> HIDE DEF s
    <3>1. DOMAIN r = 1 .. Len(s) - 1
      BY <1>8, RangeIs
    <3>2. \A j \in 1 .. Len(s) - 1 : up(j) \in 1 .. Len(s) /\ r[j] = s[up(j)]
      BY <1>4, <1>8
    <3>3. up(x) = up(y)
      BY <1>3, <1>4, <2>2, <3>1, <3>2
    <3>4. x \in Int /\ y \in Int /\ i \in Int
      BY <1>4, <3>1
    <3>5. QED
      BY <3>3, <3>4
  <2>3. QED
    BY <1>10, <2>1, <2>2 DEF ChainOK
<1>12. \A c \in Bucket \ {b} : ChainOK(c)'
  BY <1>10 DEF Linked, ChainOK
<1>13. \A c \in Bucket : e \notin Range(chain'[c])
  <2> TAKE c \in Bucket
  <2>1. CASE c = b
    BY <1>7, <1>10, <2>1
  <2>2. CASE c # b
    BY <1>10, <2>2 DEF Linked, ChainOK
  <2>3. QED
    BY <2>1, <2>2
<1>14. ASSUME NEW f \in Entry \ {e} PROVE Reached(f)' /\ ekey[f] # k
  <2>1. Reached(f) /\ ekey[f] \in Key \union {Absent} /\ (ekey[f] # Absent => Hash[ekey[f]] \in Bucket)
    BY StoreAssumption DEF Linked, Types, TypeOK, Bucket
  <2>2. CASE ekey[f] # Absent /\ Hash[ekey[f]] = b
    <3>1. f \in Range(r) /\ chain'[Hash[ekey'[f]]] = r
      BY <1>7, <1>10, <2>1, <2>2 DEF Reached
    <3>2. QED
      BY <1>1, <3>1, KeysUnique DEF Reached
  <2>3. CASE ekey[f] # Absent /\ Hash[ekey[f]] # b
    BY <1>10, <2>1, <2>3 DEF Reached
  <2>4. CASE ekey[f] = Absent
    BY <1>1, <2>4 DEF Reached
  <2>5. QED
    BY <2>2, <2>3, <2>4
<1>15. QED
  BY <1>10, <1>11, <1>12, <1>13, <1>14

\* js_store_del unlinks the entry of the key.
LEMMA DelOK == ASSUME IInv, NEW th \in Thread, Del(th) PROVE IInv'
<1> USE DEF Del
<1>1. /\ lock = th /\ Found(th) /\ call[th] \in KV!Op /\ Types /\ Linked
      /\ dict \in [Key -> Maybe] /\ entry[th] \in Entry \union {Absent}
  BY AtHome DEF Inside, At, Found, Whole
<1>2. Op(th) = "del" /\ KeyOf(th) \in Key
  BY <1>1, OpParts DEF Found, Op, KeyOf
<1>3. KV!Returned(call[th], dict) = (IF dict[KeyOf(th)] = Absent THEN -1 ELSE 0)
  BY <1>1, <1>2, ReturnedOf DEF Op, KeyOf
<1>4. Op(th)' = "del" /\ KeyOf(th)' = KeyOf(th)
  BY <1>2 DEF Op, KeyOf
<1>5. CASE entry[th] = Absent
  <2>1. /\ reply' = [reply EXCEPT ![th] = -1]
        /\ Goto(th, "unlock") /\ UNCHANGED chain
    BY <1>5
  <2>2. Types'
    BY <1>1, <2>1, ValueFacts DEF Types, TypeOK, Goto, Maybe
  <2>3. dict[KeyOf(th)] = Absent
    BY <1>1, <1>2, <1>5 DEF Found, Whole, Lacks
  <2>4. KV!Effect(call[th], dict) = dict
    BY <1>1, <1>2, <2>3, EffectOf DEF Op, KeyOf
  <2>5. Whole(dict)'
    BY <1>1, <2>1 DEF Found, Whole, Linked, ChainOK, Reached, Agrees, Lacks
  <2>6. Done(th)'
    BY <1>1, <1>3, <2>1, <2>3, <2>4, <2>5 DEF Done, Types, TypeOK
  <2>7. At(th)'
    BY <1>1, <2>1, <2>6 DEF At, Goto, Types, TypeOK
  <2>8. QED
    BY <1>1, <2>1, <2>2, <2>7, InsideStep
<1>6. CASE entry[th] # Absent
  <2>1. /\ reply' = [reply EXCEPT ![th] = 0]
        /\ chain' = [chain EXCEPT ![Hash[KeyOf(th)]] = RemoveFirst(@, entry[th])]
        /\ Goto(th, "free")
    BY <1>6
  <2>2. entry[th] \in Entry /\ ekey[entry[th]] = KeyOf(th) /\ KeyOf(th) # Absent
    BY <1>1, <1>2, <1>6, StoreAssumption DEF Found
  <2>3. /\ chain' \in [Bucket -> Seq(Entry)]
        /\ \A c \in Bucket : ChainOK(c)' /\ entry[th] \notin Range(chain'[c])
        /\ \A f \in Entry \ {entry[th]} : Reached(f)' /\ ekey[f] # KeyOf(th)
    BY <1>1, <1>2, <2>1, <2>2, UnlinkOK
  <2>4. Types'
    BY <1>1, <2>1, <2>3, ValueFacts DEF Types, TypeOK, Goto, Maybe, Bucket
  <2>5. \A f \in Entry : Agrees(f, dict)'
    BY <1>1 DEF Found, Whole, Agrees
  <2>6. \A k \in Key : Lacks(k, dict)'
    BY <1>1 DEF Found, Whole, Lacks
  <2>7. KV!Returned(call[th], dict) = 0 /\ reply'[th] = 0
    <3>1. dict[KeyOf(th)] # Absent
      BY <1>1, <2>2, ValueFacts DEF Found, Whole, Agrees
    <3>2. QED
      BY <1>1, <1>3, <2>1, <3>1 DEF Types, TypeOK
  <2>8. Freeing(th)'
    BY <1>4, <1>6, <2>2, <2>3, <2>5, <2>6, <2>7 DEF Freeing
  <2>9. At(th)'
    BY <1>1, <2>1, <2>8 DEF At, Goto, Types, TypeOK
  <2>10. QED
    BY <1>1, <2>1, <2>4, <2>9, InsideStep
<1>7. QED
  BY <1>5, <1>6

\* js_store_del frees the entry it has unlinked.
LEMMA FreeEntryOK == ASSUME IInv, NEW th \in Thread, FreeEntry(th) PROVE IInv'
<1> USE DEF FreeEntry, AfterDel, locals
<1>1. /\ lock = th /\ Freeing(th) /\ call[th] \in KV!Op /\ Types
      /\ dict \in [Key -> Maybe] /\ entry[th] \in Entry
  BY AtHome DEF Inside, At, Freeing
<1>2. Op(th) = "del" /\ KeyOf(th) \in Key
  BY <1>1, OpParts DEF Freeing, Op, KeyOf
<1> DEFINE d == [dict EXCEPT ![KeyOf(th)] = Absent]
<1>3. KV!Effect(call[th], dict) = d /\ d' = d
  BY <1>1, <1>2, EffectOf DEF Op, KeyOf
<1>4. d[KeyOf(th)] = Absent /\ \A k \in Key \ {KeyOf(th)} : d[k] = dict[k]
  BY <1>1, <1>2
<1> HIDE DEF d
<1>5. Types'
  BY <1>1, ValueFacts DEF Types, TypeOK, Goto, Maybe
<1>6. /\ ekey'[entry[th]] = Absent
      /\ \A e \in Entry \ {entry[th]} : ekey'[e] = ekey[e] /\ evalue'[e] = evalue[e]
  BY <1>1 DEF Types, TypeOK
<1>7. Linked'
  <2>1. ASSUME NEW b \in Bucket PROVE ChainOK(b)'
    <3>1. ChainOK(b) /\ entry[th] \notin Range(chain[b]) /\ chain[b] \in Seq(Entry)
      BY <1>1 DEF Freeing, Types, TypeOK, Bucket
    <3>2. \A e \in Range(chain[b]) : ekey'[e] = ekey[e]
      BY <1>6, <3>1, RangeIs
    <3>3. QED
      BY <3>1, <3>2, RangeIs DEF ChainOK
  <2>2. \A e \in Entry : Reached(e)'
    BY <1>1, <1>6 DEF Freeing, Reached
  <2>3. QED
    BY <2>1, <2>2 DEF Linked
<1>8. ASSUME NEW e \in Entry PROVE Agrees(e, d)'
  <2>1. CASE e = entry[th]
    BY <1>6, <2>1 DEF Agrees
  <2>2. CASE e # entry[th]
    BY <1>1, <1>3, <1>4, <1>6, <2>2 DEF Freeing, Agrees, Types, TypeOK
  <2>3. QED
    BY <2>1, <2>2
<1>9. ASSUME NEW k \in Key PROVE Lacks(k, d)'
  <2>1. CASE k = KeyOf(th)
    BY <1>3, <1>4, <2>1 DEF Lacks
  <2>2. CASE k # KeyOf(th)
    BY <1>1, <1>3, <1>4, <1>6, <2>2 DEF Freeing, Lacks
  <2>3. QED
    BY <2>1, <2>2
<1>10. Done(th)'
  <2>1. Whole(d)'
    BY <1>7, <1>8, <1>9 DEF Whole
  <2>2. QED
    BY <1>1, <1>3, <2>1 DEF Freeing, Done
<1>11. At(th)'
  BY <1>1, <1>10 DEF At, Goto, Types, TypeOK
<1>12. QED
  BY <1>1, <1>5, <1>11, InsideStep

\* js_store_clear frees the entries of one bucket.
LEMMA ClearBucketOK == ASSUME IInv, NEW th \in Thread, ClearBucket(th) PROVE IInv'
<1> USE DEF ClearBucket
<1>1. /\ lock = th /\ Clearing(th) /\ call[th] \in KV!Op /\ Types
      /\ dict \in [Key -> Maybe]
  BY AtHome DEF Inside, At
<1>2. number[th] \in 1 .. Buckets + 1 /\ Op(th) = "clear" /\ Op(th)' = "clear" /\ Linked
  BY <1>1 DEF Clearing, Op
<1>3. /\ KV!Effect(call[th], dict) = [k \in Key |-> Absent]
      /\ KV!Returned(call[th], dict) = 0
  BY <1>1, <1>2, EffectOf, ReturnedOf DEF Op
<1>4. CASE number[th] > Buckets
  <2>1. /\ reply' = [reply EXCEPT ![th] = 0] /\ Goto(th, "unlock")
        /\ UNCHANGED <<ekey, evalue>>
    BY <1>2, <1>4, StoreAssumption
  <2>2. Types'
    BY <1>1, <2>1, ValueFacts DEF Types, TypeOK, Goto, Maybe
  <2>3. \A e \in Entry : ekey[e] = Absent
    <3>1. \A e \in Entry : ekey[e] # Absent => Hash[ekey[e]] \in 1 .. Buckets
      BY <1>1, StoreAssumption DEF Types, TypeOK
    <3>2. QED
      BY <1>1, <1>2, <1>4, <3>1, StoreAssumption DEF Clearing
  <2> DEFINE d == [k \in Key |-> Absent]
  <2>4. d' = d /\ \A k \in Key : d[k] = Absent
    OBVIOUS
  <2> HIDE DEF d
  <2>5. Whole(d)'
    <3>1. Linked'
      BY <1>2, <2>1 DEF Linked, ChainOK, Reached
    <3>2. \A e \in Entry : Agrees(e, d)'
      BY <2>1, <2>3 DEF Agrees
    <3>3. \A k \in Key : Lacks(k, d)'
      BY <2>4 DEF Lacks
    <3>4. QED
      BY <3>1, <3>2, <3>3 DEF Whole
  <2>6. Done(th)'
    <3>1. reply'[th] = 0
      BY <1>1, <2>1 DEF Types, TypeOK
    <3>2. QED
      BY <1>3, <2>4, <2>5, <3>1 DEF Done, d
  <2>7. At(th)'
    BY <1>1, <2>1, <2>6 DEF At, Goto, Types, TypeOK
  <2>8. QED
    BY <1>1, <2>1, <2>2, <2>7, InsideStep
<1>5. CASE number[th] <= Buckets
  <2> DEFINE b == number[th]
             gone == Range(chain[b])
  <2>1. /\ ekey' = [e \in Entry |-> IF e \in gone THEN Absent ELSE ekey[e]]
        /\ evalue' = [e \in Entry |-> IF e \in gone THEN Absent ELSE evalue[e]]
        /\ Goto(th, "empty") /\ UNCHANGED reply
    BY <1>2, <1>5, StoreAssumption
  <2>2. b \in Bucket /\ number'[th] = b
    BY <1>2, <1>5, StoreAssumption DEF Bucket
  <2> HIDE DEF b
  <2>3. \A e \in Entry : ekey[e] # Absent => (Hash[ekey[e]] = b <=> e \in gone)
    BY <1>2, <2>2 DEF Linked, ChainOK, Reached
  <2>4. Types'
    BY <1>1, <2>1, ValueFacts DEF Types, TypeOK, Goto, Maybe
  <2>5. ASSUME NEW c \in Bucket \ {b} PROVE ChainOK(c)'
    <3>1. ChainOK(c) /\ chain[c] \in Seq(Entry) /\ chain' = chain
      BY <1>1, <1>2, <2>5 DEF Linked, Types, TypeOK, Bucket
    <3>2. ASSUME NEW e \in Range(chain[c]) PROVE e \notin gone /\ e \in Entry /\ ekey'[e] = ekey[e]
      <4>1. e \in Entry /\ ekey[e] # Absent /\ Hash[ekey[e]] = c
        BY <3>1, <3>2, RangeIs DEF ChainOK
      <4>2. e \notin gone
        BY <2>3, <2>5, <4>1
      <4>3. QED
        BY <2>1, <4>1, <4>2
    <3>3. QED
      BY <3>1, <3>2, RangeIs DEF ChainOK
  <2>6. ASSUME NEW e \in Entry PROVE Reached(e)' /\ Agrees(e, dict)'
    BY <1>1, <1>2, <2>1 DEF Reached, Linked, Clearing, Agrees
  <2>7. ASSUME NEW e \in Entry, ekey'[e] # Absent PROVE Hash[ekey'[e]] > b
    <3>1. e \notin gone /\ ekey'[e] = ekey[e] /\ ekey[e] # Absent
      BY <2>1, <2>7
    <3>2. Hash[ekey[e]] >= b /\ Hash[ekey[e]] # b
      BY <1>1, <2>3, <3>1 DEF Clearing, b
    <3>3. Hash[ekey[e]] \in 1 .. Buckets
      BY <1>1, <3>1, StoreAssumption DEF Types, TypeOK
    <3>4. QED
      BY <2>2, <3>1, <3>2, <3>3, StoreAssumption DEF Bucket
  <2>8. Emptying(th)'
    BY <1>2, <2>2, <2>5, <2>6, <2>7 DEF Emptying
  <2>9. At(th)'
    BY <1>1, <2>1, <2>8 DEF At, Goto, Types, TypeOK
  <2>10. QED
    BY <1>1, <2>1, <2>4, <2>9, InsideStep
<1>6. QED
  BY <1>4, <1>5

\* js_store_clear resets the bucket whose entries it has freed.
LEMMA EmptyOK == ASSUME IInv, NEW th \in Thread, Empty(th) PROVE IInv'
<1> USE DEF Empty, EmptyBucket
<1> DEFINE b == number[th]
<1>1. /\ lock = th /\ Emptying(th) /\ call[th] \in KV!Op /\ Types
      /\ dict \in [Key -> Maybe]
  BY AtHome DEF Inside, At
<1>2. b \in Bucket /\ Op(th) = "clear" /\ Op(th)' = "clear"
  BY <1>1 DEF Emptying, Op
<1>3. number'[th] = b + 1 /\ chain' = [chain EXCEPT ![b] = <<>>]
  BY <1>1 DEF Types, TypeOK
<1> HIDE DEF b
<1>4. Types'
  <2>1. b + 1 \in 0 .. Buckets + 1 /\ <<>> \in Seq(Entry)
    BY <1>2, StoreAssumption DEF Bucket
  <2>2. chain' \in [1 .. Buckets -> Seq(Entry)]
    BY <1>1, <1>3, <2>1 DEF Types, TypeOK
  <2>3. number' \in [Thread -> KV!Int32 \union 0 .. Buckets + 1]
    <3>1. number' = [number EXCEPT ![th] = b + 1]
      BY DEF b
    <3>2. QED
      BY <1>1, <2>1, <3>1 DEF Types, TypeOK
  <2>4. QED
    BY <1>1, <2>2, <2>3 DEF Types, TypeOK, Goto
<1>5. chain'[b] = <<>> /\ \A c \in Bucket \ {b} : chain'[c] = chain[c]
  BY <1>1, <1>2, <1>3 DEF Types, TypeOK, Bucket
<1>6. ASSUME NEW c \in Bucket PROVE ChainOK(c)'
  <2>1. CASE c = b
    BY <1>5, <2>1 DEF ChainOK, Range
  <2>2. CASE c # b
    BY <1>1, <1>5, <2>2 DEF Emptying, ChainOK, b
  <2>3. QED
    BY <2>1, <2>2
<1>7. ASSUME NEW e \in Entry
      PROVE  Reached(e)' /\ Agrees(e, dict)' /\ (ekey[e] # Absent => Hash[ekey[e]] >= b + 1)
  <2>1. Reached(e) /\ Agrees(e, dict) /\ (ekey[e] # Absent => Hash[ekey[e]] > b)
    BY <1>1 DEF Emptying, b
  <2>2. ekey[e] # Absent => Hash[ekey[e]] \in Bucket
    BY <1>1, StoreAssumption DEF Types, TypeOK, Bucket
  <2>3. QED
    BY <1>2, <1>5, <2>1, <2>2, StoreAssumption DEF Reached, Agrees, Bucket
<1>8. Clearing(th)'
  <2>1. b + 1 \in 1 .. Buckets + 1
    BY <1>2, StoreAssumption DEF Bucket
  <2>2. QED
    BY <1>2, <1>3, <1>6, <1>7, <2>1 DEF Clearing, Linked
<1>9. At(th)'
  BY <1>1, <1>8 DEF At, Goto, Types, TypeOK
<1>10. QED
  BY <1>1, <1>4, <1>9, InsideStep

\* The unlock makes the operation's effect the map.
LEMMA UnlockOK ==
  ASSUME IInv, NEW th \in Thread, Unlock(th)
  PROVE  /\ IInv'
         /\ call[th] \in KV!Op
         /\ dict' = KV!Effect(call[th], dict)
         /\ result' = [result EXCEPT ![th] = KV!Returned(call[th], dict)]
<1> USE DEF Unlock, heap
<1>1. /\ lock = th /\ Done(th) /\ call[th] \in KV!Op /\ Types
      /\ dict \in [Key -> Maybe]
  BY AtHome DEF Inside, At
<1> DEFINE d == KV!Effect(call[th], dict)
<1>2. d \in [Key -> Maybe] /\ Whole(d)
  BY <1>1, EffectOf DEF Done
<1> HIDE DEF d
<1>3. dict' = d
  BY <1>1, <1>2, ContentIs
<1>4. result' = [result EXCEPT ![th] = KV!Returned(call[th], dict)]
  BY <1>1 DEF Done
<1>5. Types'
  BY <1>1, <1>2, <1>3, ValueFacts, StoreAssumption DEF Types, TypeOK, Goto, Maybe, Stored
<1>6. Turns'
  BY <1>1, CallAssumption, StoreAssumption DEF IInv, Turns, MutualExclusion, Inside, Types, TypeOK, Goto
<1>7. Whole(dict)'
  BY <1>2, <1>3 DEF Whole, Linked, ChainOK, Reached, Agrees, Lacks
<1>8. \A u \in Thread : ~ Inside(u)'
  BY <1>1, StoreAssumption DEF IInv, Turns, MutualExclusion, Inside, Types, TypeOK, Goto
<1>9. QED
  BY <1>1, <1>3, <1>4, <1>5, <1>6, <1>7, <1>8 DEF IInv, d

LEMMA StutterOK == ASSUME IInv, UNCHANGED vars PROVE IInv'
<1> USE DEF vars
<1>1. Types' /\ Turns'
  BY DEF IInv, Types, TypeOK, Turns, MutualExclusion, Inside
<1>2. /\ \A b : ChainOK(b)' = ChainOK(b)
      /\ \A e : Reached(e)' = Reached(e)
      /\ Linked' = Linked
  BY DEF Linked, ChainOK, Reached
<1>3. (\A e \in Entry : Agrees(e, dict)' = Agrees(e, dict)) /\ (\A k \in Key : Lacks(k, dict)' = Lacks(k, dict))
  BY DEF Agrees, Lacks
<1>4. Whole(dict)' = Whole(dict)
  BY <1>2, <1>3 DEF Whole
<1>5. ASSUME NEW u \in Thread, At(u) PROVE At(u)'
  <2>1. Found(u) => Found(u)'
    BY <1>4 DEF Found, Op, KeyOf
  <2>2. Clearing(u) => Clearing(u)'
    BY <1>2, <1>3 DEF Clearing, Op
  <2>3. Emptying(u) => Emptying(u)'
    BY <1>2, <1>3 DEF Emptying, Op
  <2>4. Storing(u) => Storing(u)'
    BY <1>2, <1>3 DEF Storing, Op, KeyOf
  <2>5. Freeing(u) => Freeing(u)'
    BY <1>2, <1>3 DEF Freeing, Op, KeyOf
  <2>6. Done(u) => Done(u)'
    BY <1>2 DEF Done, Whole, Agrees, Lacks
  <2>7. QED
    BY <1>5, <2>1, <2>2, <2>3, <2>4, <2>5, <2>6 DEF At
<1>6. QED
  BY <1>1, <1>4, <1>5 DEF IInv, Inside

LEMMA InvStep == IInv /\ [Next]_vars => IInv'
<1> SUFFICES ASSUME IInv, [Next]_vars PROVE IInv'
  OBVIOUS
<1>1. ASSUME NEW th \in Thread, Lock(th) PROVE IInv'
  BY <1>1, LockOK
<1>2. ASSUME NEW th \in Thread, NEW op \in KV!Op, Call(th, op) PROVE IInv'
  BY <1>2, CallOK
<1>3. ASSUME NEW th \in Thread, Work(th) PROVE IInv'
  BY <1>3, GetOK, SetOK, IncrOK, StoreValueOK, DelOK, FreeEntryOK, ClearBucketOK, EmptyOK,
     UnlockOK DEF Work
<1>4. CASE UNCHANGED vars
  BY <1>4, StutterOK
<1>5. QED
  BY <1>1, <1>2, <1>3, <1>4 DEF Next

-----------------------------------------------------------------------------
(* Theorems.                                                               *)

\* The inductive invariant: who holds the mutex works on a table that is whole but for
\* what its operation has in hand, and the others see only whole tables.
THEOREM StoreInvariance == Spec => []IInv
  BY InitOK, InvStep, PTL DEF Spec

\* Type correctness of the table and of what the threads keep of it.
THEOREM StoreTyped == Spec => []TypeOK
  <1>1. IInv => TypeOK
    BY DEF IInv, Types
  <1>2. QED
    BY <1>1, StoreInvariance, PTL

\* js_store.c locks before it reads a bucket and unlocks on its only way out: one
\* thread at a time is inside.
THEOREM MutexExcludes == Spec => []MutualExclusion
  <1>1. IInv => MutualExclusion
    BY DEF IInv, Turns
  <1>2. QED
    BY <1>1, StoreInvariance, PTL

\* Between two operations nothing is leaked, freed or twice in the table.
THEOREM TableStaysWhole == Spec => []TableWhole
  <1>1. IInv => TableWhole
    BY RangeIs DEF IInv, Types, TypeOK, Whole, Linked, ChainOK, Reached, Agrees, TableWhole, Bucket
  <1>2. QED
    BY <1>1, StoreInvariance, PTL

\* js_store_get copies the value under the mutex: no operation returns what another freed.
THEOREM NoFreedReply == Spec => []NothingFreedReturned
  <1>1. IInv => NothingFreedReturned
    BY ValueFacts DEF IInv, Types, NothingFreedReturned
  <1>2. QED
    BY <1>1, StoreInvariance, PTL

\* Every operation takes effect at once, at its unlock, and returns what KVStore says:
\* Call maps to the abstract call, Unlock to the abstract Perform, the rest to stutters.
THEOREM StoreLinearizable == Spec => Linearizable
<1>1. Init => KV!Init
  BY DEF Init, KV!Init
<1>2. ASSUME IInv, NEW th \in Thread, NEW op \in KV!Op, Call(th, op)
      PROVE  KV!Call(th, op)
  <2>1. call[th] = Absent
    BY <1>2 DEF Call, IInv, Turns
  <2>2. QED
    BY <1>2, <2>1 DEF Call, KV!Call
<1>3. ASSUME IInv, NEW th \in Thread, Unlock(th)
      PROVE  KV!Perform(th)
  BY <1>3, UnlockOK, CallAssumption DEF Unlock, KV!Perform
<1>4. ASSUME NEW th \in Thread, Lock(th) \/ (Work(th) /\ ~ Unlock(th))
      PROVE  UNCHANGED <<dict, call, result>>
  BY <1>4 DEF Lock, Work, Get, Set, Incr, StoreValue, Del, FreeEntry, ClearBucket, Empty
<1>5. IInv /\ [Next]_vars => KV!Next \/ UNCHANGED <<dict, call, result>>
  <2>1. UNCHANGED vars => UNCHANGED <<dict, call, result>>
    BY DEF vars
  <2>2. IInv /\ Next => KV!Next \/ UNCHANGED <<dict, call, result>>
    BY <1>2, <1>3, <1>4 DEF Next, KV!Next
  <2>3. QED
    BY <2>1, <2>2
<1>6. IInv /\ [Next]_vars => [KV!Next]_(KV!vars)
  BY <1>5 DEF KV!vars
<1>7. QED
  BY <1>1, <1>6, StoreInvariance, PTL DEF Spec, Linearizable, KV!Spec
=============================================================================
