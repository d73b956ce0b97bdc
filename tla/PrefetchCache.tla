---------------------------- MODULE PrefetchCache ----------------------------
(***************************************************************************)
(* The DataNode's cache of file blocks: sharded, each shard under a lock   *)
(* of its own, with two byte counters that no lock protects.  Downloads    *)
(* and hot-cache warm-ups fill it, edits invalidate it, and every put may  *)
(* evict or expire what others put.                                        *)
(*                                                                         *)
(* One action is one critical section of a shard, or one use of the        *)
(* counters between two of them.  A counter is written after the section   *)
(* it accounts for, so it may be early or late, and being unsigned it may  *)
(* wrap around below zero.  Blocks have one size, which is the unit of the *)
(* counters; their bytes, and which entry is the oldest, are left out.     *)
(***************************************************************************)
EXTENDS Integers, FiniteSets

CONSTANTS
    Threads,        \* of the I/O loops and of the handler's thread pool
    Keys,           \* blocks of one file
    Shards,
    ShardOf,
    MaxBlocks,      \* maxBytes_
    Reserved,       \* kVipReservedBytes
    Word            \* number of values of a size_t

Kinds == {"normal", "vip"}

ASSUME PrefetchCacheAssumption ==
    /\ IsFiniteSet(Threads) /\ IsFiniteSet(Keys)
    /\ ShardOf \in [Keys -> Shards]
    /\ MaxBlocks \in Nat \ {0} /\ Reserved \in Nat
    /\ Word \in Nat
    /\ Word > MaxBlocks + Cardinality(Threads)
    /\ Word > Cardinality(Keys) + Cardinality(Threads \X Keys) + 1

VARIABLES
    entries,    \* kind of the entry of each key, or "none"
    loading,    \* loadingKeys of all shards
    current,    \* currentBytes_
    normal,     \* normalBytes_
    pc,         \* what each thread does with the cache
    job,        \* the key it loads and whether for a VIP user
    victim,     \* the entry evictOne has found in its scan
    todo,       \* shards that an invalidation or expiry has still to visit
    debts,      \* who has erased which entries without subtracting them yet
    normalDebts \* those of them that were normal entries

threadVars == <<job, victim, todo>>
debtVars == <<debts, normalDebts>>
vars == <<entries, loading, current, normal, pc, threadVars, debtVars>>

Blocks == [key: Keys, kind: Kinds]
NoBlock == [key |-> "none", kind |-> "none"]

\* States of a thread between the mark of its load and the end of it.
Loaders == {"loading", "put", "expiring", "expired", "erase"}

\* States of a thread that has erased entries and is about to subtract them.
Paying == {"expired", "replaced", "evicted", "invalidated"}

TypeOK ==
    /\ entries \in [Keys -> Kinds \union {"none"}]
    /\ loading \in SUBSET Keys
    /\ current \in 0..(Word - 1)
    /\ normal \in 0..(Word - 1)
    /\ pc \in [Threads -> {"idle", "admitted", "loading", "put", "expiring",
                           "erase", "space", "check", "scan", "evict",
                           "insert", "add", "invalidating"} \union Paying]
    /\ job \in [Threads -> Blocks \union {NoBlock}]
    /\ victim \in [Threads -> Blocks \union {NoBlock}]
    /\ todo \in [Threads -> SUBSET Shards]
    /\ debts \in SUBSET (Threads \X Keys)
    /\ normalDebts \in SUBSET debts

Init ==
    /\ entries = [k \in Keys |-> "none"]
    /\ loading = {}
    /\ current = 0
    /\ normal = 0
    /\ pc = [t \in Threads |-> "idle"]
    /\ job = [t \in Threads |-> NoBlock]
    /\ victim = [t \in Threads |-> NoBlock]
    /\ todo = [t \in Threads |-> {}]
    /\ debts = {} /\ normalDebts = {}

Live == {k \in Keys : entries[k] # "none"}

Stored(kind) == {k \in Keys : entries[k] = kind}

InShard(s) == {k \in Live : ShardOf[k] = s}

At(states) == {t \in Threads : pc[t] \in states}

Goto(t, state) == pc' = [pc EXCEPT ![t] = state]

Finish(t) ==
    /\ Goto(t, "idle")
    /\ job' = [job EXCEPT ![t] = NoBlock]

-----------------------------------------------------------------------------
(* The counters.                                                           *)

\* One wrap is all that the assumption on Word lets happen.
Wrap(n) == IF n < 0 THEN n + Word ELSE IF n >= Word THEN n - Word ELSE n

DebtsOf(t) == {t} \X Keys

Adders == At({"add"})
NormalAdders == {t \in Adders : job[t].kind = "normal"}

\* Entries D are subtracted, N of them from the normal zone as well.
Subtract(D, N) ==
    /\ current' = Wrap(current - Cardinality(D))
    /\ normal' = Wrap(normal - Cardinality(N))

\* Entries go, and thread t owes them to the counters.
Remove(t, S) ==
    /\ entries' = [k \in Keys |-> IF k \in S THEN "none" ELSE entries[k]]
    /\ debts' = debts \union ({t} \X S)
    /\ normalDebts' = normalDebts \union ({t} \X (S \intersect Stored("normal")))
    /\ UNCHANGED <<current, normal>>

AfterPay(state) ==
    CASE state = "expired" -> "expiring"
      [] state = "replaced" -> "space"
      [] state = "evicted" -> "check"
      [] state = "invalidated" -> "idle"

Pay(t) ==
    /\ pc[t] \in Paying
    /\ Subtract(debts \intersect DebtsOf(t), normalDebts \intersect DebtsOf(t))
    /\ debts' = debts \ DebtsOf(t)
    /\ normalDebts' = normalDebts \ DebtsOf(t)
    /\ Goto(t, AfterPay(pc[t]))
    /\ UNCHANGED <<entries, loading, threadVars>>

-----------------------------------------------------------------------------
(* Loading a block.                                                        *)

SoftLimit == IF MaxBlocks > Reserved THEN MaxBlocks - Reserved ELSE 0

Room(kind) ==
    /\ Wrap(current + 1) <= MaxBlocks
    /\ kind = "normal" => Wrap(normal + 1) <= SoftLimit

\* shouldAdmitPrefetch
Admit(t, b) ==
    /\ pc[t] = "idle"
    /\ b.kind = "normal" => Room("normal") \/ normal > 0
    /\ Goto(t, "admitted")
    /\ job' = [job EXCEPT ![t] = b]
    /\ UNCHANGED <<entries, loading, current, normal, victim, todo, debtVars>>

\* tryMarkLoading
TryMarkLoading(t) ==
    /\ pc[t] = "admitted"
    /\ IF job[t].key \in Live \union loading
       THEN Finish(t) /\ UNCHANGED loading
       ELSE /\ Goto(t, "loading")
            /\ loading' = loading \union {job[t].key}
            /\ UNCHANGED job
    /\ UNCHANGED <<entries, current, normal, victim, todo, debtVars>>

ReadBlock(t) ==
    /\ pc[t] = "loading"
    /\ Goto(t, "put")
    /\ UNCHANGED <<entries, loading, current, normal, threadVars, debtVars>>

\* cancelLoading, after a failed read
CancelLoading(t) ==
    /\ pc[t] = "loading"
    /\ loading' = loading \ {job[t].key}
    /\ Finish(t)
    /\ UNCHANGED <<entries, current, normal, victim, todo, debtVars>>

\* readNextChunk: a get that misses, a read from disk, a put without a mark
ReadMissed(t, b) ==
    /\ pc[t] = "idle"
    /\ b.key \notin Live
    /\ Goto(t, "put")
    /\ job' = [job EXCEPT ![t] = b]
    /\ UNCHANGED <<entries, loading, current, normal, victim, todo, debtVars>>

-----------------------------------------------------------------------------
(* put: first maybePruneExpired, under a mutex of its own.                 *)

SkipExpiry(t) ==
    /\ pc[t] = "put"
    /\ Goto(t, "erase")
    /\ UNCHANGED <<entries, loading, current, normal, threadVars, debtVars>>

BeginExpiry(t) ==
    /\ pc[t] = "put"
    /\ At({"expiring", "expired"}) = {}
    /\ Goto(t, "expiring")
    /\ todo' = [todo EXCEPT ![t] = Shards]
    /\ UNCHANGED <<entries, loading, current, normal, job, victim, debtVars>>

\* Entries of one shard that nobody touched for ten minutes.
ExpireShard(t, s) ==
    /\ pc[t] = "expiring"
    /\ s \in todo[t]
    /\ \E S \in SUBSET InShard(s) : Remove(t, S)
    /\ todo' = [todo EXCEPT ![t] = @ \ {s}]
    /\ Goto(t, "expired")
    /\ UNCHANGED <<loading, job, victim>>

EndExpiry(t) ==
    /\ pc[t] = "expiring"
    /\ todo[t] = {}
    /\ Goto(t, "erase")
    /\ UNCHANGED <<entries, loading, current, normal, threadVars, debtVars>>

-----------------------------------------------------------------------------
(* put: the entry it replaces, then the space for the new one.             *)

\* Mutant of EraseOld: the mark of the load is left.
EraseOldOnly(t) ==
    /\ pc[t] = "erase"
    /\ Remove(t, {job[t].key} \intersect Live)
    /\ Goto(t, "replaced")
    /\ UNCHANGED <<loading, threadVars>>

EraseOld(t) ==
    /\ pc[t] = "erase"
    /\ loading' = loading \ {job[t].key}
    /\ Remove(t, {job[t].key} \intersect Live)
    /\ Goto(t, "replaced")
    /\ UNCHANGED threadVars

\* makeSpaceFor holds evictionMutex_ from here ...
LockEviction(t) ==
    /\ pc[t] = "space"
    /\ At({"check", "scan", "evict", "evicted"}) = {}
    /\ Goto(t, "check")
    /\ UNCHANGED <<entries, loading, current, normal, threadVars, debtVars>>

\* Mutant of CheckSpace: the incoming block is forgotten.
CheckSpaceNow(t) ==
    /\ pc[t] = "check"
    /\ IF current <= MaxBlocks /\ (job[t].kind = "vip" \/ normal <= SoftLimit)
       THEN Goto(t, "insert") /\ UNCHANGED todo
       ELSE Goto(t, "scan") /\ todo' = [todo EXCEPT ![t] = Shards]
    /\ UNCHANGED <<entries, loading, current, normal, job, victim, debtVars>>

\* ... to here, unless there is no room.
CheckSpace(t) ==
    /\ pc[t] = "check"
    /\ IF Room(job[t].kind)
       THEN Goto(t, "insert") /\ UNCHANGED todo
       ELSE Goto(t, "scan") /\ todo' = [todo EXCEPT ![t] = Shards]
    /\ UNCHANGED <<entries, loading, current, normal, job, victim, debtVars>>

\* evictOne looks for the oldest normal entry or, for a VIP who finds none, for
\* the oldest of all; the locks are taken shard by shard.
Better(t, s) ==
    LET of(kind) == InShard(s) \intersect Stored(kind)
        found(kind) == {[key |-> k, kind |-> kind] : k \in of(kind)}
    IN IF of("normal") # {}
       THEN found("normal")
       ELSE IF victim[t].kind # "normal" /\ job[t].kind = "vip"
            THEN found("vip") ELSE {}

\* An entry older than the best so far need not be in a later shard.
Keeps(t, s) ==
    \/ Better(t, s) = {}
    \/ \E b \in Better(t, s) : b.kind = victim[t].kind

ScanShard(t, s) ==
    /\ pc[t] = "scan"
    /\ s \in todo[t]
    /\ todo' = [todo EXCEPT ![t] = @ \ {s}]
    /\ \/ Keeps(t, s) /\ UNCHANGED victim
       \/ \E b \in Better(t, s) : victim' = [victim EXCEPT ![t] = b]
    /\ Goto(t, IF todo'[t] = {} THEN "evict" ELSE "scan")
    /\ UNCHANGED <<entries, loading, current, normal, job, debtVars>>

\* No victim: the new block is dropped.
GiveUp(t) ==
    /\ pc[t] = "evict"
    /\ victim[t] = NoBlock
    /\ Finish(t)
    /\ UNCHANGED <<entries, loading, current, normal, victim, todo, debtVars>>

\* Mutant of Protected: what the entry has become is not looked at.
ProtectedAsFound(t, now) == job[t].kind = "normal" /\ victim[t].kind = "vip"

\* The victim may have become a VIP entry since the scan.
Protected(t, now) == job[t].kind = "normal" /\ now = "vip"

\* The victim is gone, protected, or was touched meanwhile: look again.
EvictAgain(t) ==
    /\ pc[t] = "evict"
    /\ victim[t] # NoBlock
    /\ LET now == entries[victim[t].key]
       IN now = "none" \/ Protected(t, now) \/ now = victim[t].kind
    /\ Goto(t, "check")
    /\ victim' = [victim EXCEPT ![t] = NoBlock]
    /\ UNCHANGED <<entries, loading, current, normal, job, todo, debtVars>>

Evict(t) ==
    /\ pc[t] = "evict"
    /\ victim[t] # NoBlock
    /\ LET now == entries[victim[t].key]
       IN now # "none" /\ ~Protected(t, now)
    /\ Remove(t, {victim[t].key})
    /\ Goto(t, "evicted")
    /\ victim' = [victim EXCEPT ![t] = NoBlock]
    /\ UNCHANGED <<loading, job, todo>>

-----------------------------------------------------------------------------
(* put: the insertion, which another put of the key may have preceded.     *)

\* Mutant of Insert: the entry it overwrites is not subtracted.
InsertOver(t) ==
    /\ pc[t] = "insert"
    /\ entries' = [entries EXCEPT ![job[t].key] = job[t].kind]
    /\ Goto(t, "add")
    /\ UNCHANGED <<loading, current, normal, threadVars, debtVars>>

Insert(t) ==
    /\ pc[t] = "insert"
    /\ LET old == {job[t].key}
       IN Subtract(old \intersect Live, old \intersect Stored("normal"))
    /\ entries' = [entries EXCEPT ![job[t].key] = job[t].kind]
    /\ Goto(t, "add")
    /\ UNCHANGED <<loading, threadVars, debtVars>>

\* Outside the lock.
Add(t) ==
    /\ pc[t] = "add"
    /\ current' = Wrap(current + 1)
    /\ normal' = IF job[t].kind = "normal" THEN Wrap(normal + 1) ELSE normal
    /\ Finish(t)
    /\ UNCHANGED <<entries, loading, victim, todo, debtVars>>

-----------------------------------------------------------------------------
(* invalidateFile, after an edit of the file.                              *)

BeginInvalidate(t) ==
    /\ pc[t] = "idle"
    /\ Goto(t, "invalidating")
    /\ todo' = [todo EXCEPT ![t] = Shards]
    /\ UNCHANGED <<entries, loading, current, normal, job, victim, debtVars>>

InvalidateShard(t, s) ==
    /\ pc[t] = "invalidating"
    /\ s \in todo[t]
    /\ Remove(t, InShard(s))
    /\ loading' = {k \in loading : ShardOf[k] # s}
    /\ todo' = [todo EXCEPT ![t] = @ \ {s}]
    /\ Goto(t, IF todo'[t] = {} THEN "invalidated" ELSE "invalidating")
    /\ UNCHANGED <<job, victim>>

-----------------------------------------------------------------------------
Start(t) ==
    \/ \E b \in Blocks : Admit(t, b) \/ ReadMissed(t, b)
    \/ BeginInvalidate(t)

Proceed(t) ==
    \/ TryMarkLoading(t) \/ ReadBlock(t) \/ CancelLoading(t)
    \/ SkipExpiry(t) \/ BeginExpiry(t) \/ EndExpiry(t)
    \/ EraseOld(t) \/ Pay(t)
    \/ LockEviction(t) \/ CheckSpace(t) \/ GiveUp(t) \/ EvictAgain(t)
    \/ Evict(t) \/ Insert(t) \/ Add(t)
    \/ \E s \in Shards :
          ExpireShard(t, s) \/ ScanShard(t, s) \/ InvalidateShard(t, s)

Next == \E t \in Threads : Start(t) \/ Proceed(t)

Spec == Init /\ [][Next]_vars

-----------------------------------------------------------------------------
(* Safety.                                                                 *)

\* The counters count the entries, but for those erased and not subtracted
\* yet and those inserted and not added yet: no race of puts, evictions,
\* expiry and invalidation loses a byte for good, although the counters wrap
\* when a subtraction overtakes the addition it belongs to.
Accounting ==
    /\ current = Wrap(Cardinality(Live) + Cardinality(debts)
                      - Cardinality(Adders))
    /\ normal = Wrap(Cardinality(Stored("normal"))
                     + Cardinality(normalDebts)
                     - Cardinality(NormalAdders))

\* makeSpaceFor reserves nothing, so puts that pass it together overshoot
\* maxBytes_: never by more than a block of each other thread.
OvershootBounded ==
    Cardinality(Live) + Cardinality(At({"insert"}))
        <= MaxBlocks + Cardinality(Threads) - 1

\* A block that is marked as being loaded has a thread that will take the mark
\* away, in its put or after a failed read.  A mark without one would keep the
\* block out of every later prefetch: marks are set, taken over by another put
\* of the key and dropped by invalidateFile in any order.
MarksHaveLoaders ==
    \A k \in loading : \E t \in At(Loaders) : job[t].key = k

\* A normal user's search for space never takes the entry of a VIP, even if
\* its victim is replaced by one between the scan and the eviction.
NormalEvictsNoVip ==
    [][\A t \in Threads :
           pc[t] = "evict" /\ pc'[t] = "evicted" /\ job[t].kind = "normal"
               => Stored("vip") \subseteq Stored("vip")']_vars

=============================================================================
