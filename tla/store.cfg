\* Two threads, two keys that share a chain, and an empty bucket beside it.
CONSTANTS
    k1 = k1
    k2 = k2
    Thread = {t1, t2}
    Key = {k1, k2}
    Text = {text}
    Numbers = {}
    MaxInt = 2
    Absent = Absent
    Buckets = 2
    Hash <- OneChain
    Entry = {e1, e2}
    Freed = Freed
    Nobody = Nobody
SPECIFICATION FairSpec
INVARIANTS
    TypeOK
    MutualExclusion
    TableWhole
    NothingFreedReturned
PROPERTIES
    Linearizable
    MutexReleased
