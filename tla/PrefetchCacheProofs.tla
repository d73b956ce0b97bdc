-------------------------- MODULE PrefetchCacheProofs --------------------------
(***************************************************************************)
(* Theorems about PrefetchCache, for any threads, keys, shards and limits. *)
(***************************************************************************)
EXTENDS PrefetchCache, FiniteSetTheorems, TLAPS

\* A thread in the middle of a load or of a put knows its block.
Busy == {"admitted", "loading", "put", "expiring", "expired", "erase", "replaced",
         "space", "check", "scan", "evict", "evicted", "insert", "add"}

JobInv == \A t \in Threads : pc[t] \in Busy => job[t] \in Blocks

\* Only threads about to subtract owe entries; an invalidation under way owes
\* entries of the shards it has visited.
DebtInv ==
    \A t \in Threads, k \in Keys : <<t, k>> \in debts =>
        \/ pc[t] \in Paying
        \/ pc[t] = "invalidating" /\ ShardOf[k] \notin todo[t]

Inserters == At({"insert"})

CacheInv == TypeOK /\ JobInv /\ DebtInv /\ Accounting /\ OvershootBounded

-----------------------------------------------------------------------------
(* Counting.                                                               *)

\* What the counters count is finite.
LEMMA Finite ==
    /\ Cardinality(Keys) \in Nat /\ Cardinality(Threads) \in Nat
    /\ Cardinality(Threads \X Keys) \in Nat
    /\ \A S \in SUBSET Keys :
          IsFiniteSet(S) /\ Cardinality(S) \in Nat /\ Cardinality(S) <= Cardinality(Keys)
    /\ \A S \in SUBSET Threads :
          IsFiniteSet(S) /\ Cardinality(S) \in Nat /\ Cardinality(S) <= Cardinality(Threads)
    /\ \A S \in SUBSET (Threads \X Keys) :
          /\ IsFiniteSet(S) /\ Cardinality(S) \in Nat
          /\ Cardinality(S) <= Cardinality(Threads \X Keys)
<1>1. IsFiniteSet(Keys) /\ IsFiniteSet(Threads) /\ IsFiniteSet(Threads \X Keys)
  BY PrefetchCacheAssumption, FS_Product
<1> QED
  BY <1>1, FS_Subset, FS_CardinalityType

\* Thread t comes to owe the entries of a set of keys.
LEMMA MoreDebts ==
    ASSUME NEW t \in Threads, NEW S \in SUBSET Keys,
           NEW B \in SUBSET (Threads \X Keys), \A k \in S : <<t, k>> \notin B
    PROVE  /\ B \union ({t} \X S) \in SUBSET (Threads \X Keys)
           /\ Cardinality(B \union ({t} \X S)) = Cardinality(B) + Cardinality(S)
<1>1. {t} \X S \in SUBSET (Threads \X Keys)
  OBVIOUS
<1>2. IsFiniteSet({t}) /\ Cardinality({t}) = 1 /\ IsFiniteSet(S) /\ IsFiniteSet(B)
      /\ Cardinality(S) \in Nat /\ Cardinality(B) \in Nat
  BY Finite, FS_Singleton
<1>3. IsFiniteSet({t} \X S) /\ Cardinality({t} \X S) = 1 * Cardinality(S)
  BY <1>2, FS_Product
<1>4. B \intersect ({t} \X S) = {}
  OBVIOUS
<1> DEFINE N == {t} \X S
<1>5. N \in SUBSET (Threads \X Keys) /\ IsFiniteSet(N) /\ B \intersect N = {}
      /\ Cardinality(N) = Cardinality(S)
  BY <1>1, <1>2, <1>3, <1>4
<1> HIDE DEF N
<1>6. Cardinality(B \union N) = Cardinality(B) + Cardinality(N) - Cardinality({})
  BY <1>2, <1>5, FS_Union
<1>7. Cardinality(B \union N) = Cardinality(B) + Cardinality(S)
  BY <1>2, <1>5, <1>6, FS_EmptySet
<1> QED
  BY <1>5, <1>7 DEF N

\* A set of keys loses some of its members.
LEMMA FewerKeys ==
    ASSUME NEW B \in SUBSET Keys, NEW S \in SUBSET B
    PROVE  Cardinality(B \ S) = Cardinality(B) - Cardinality(S)
<1>1. B \intersect S = S /\ IsFiniteSet(B)
  BY Finite
<1> QED
  BY <1>1, FS_Difference

\* Wrapping is addition and subtraction modulo Word.
LEMMA WrapSteps ==
    ASSUME NEW n \in Int, NEW c \in Nat, n < Word, n - c > -Word
    PROVE  /\ Wrap(n) \in 0..(Word - 1) /\ Wrap(n - c) \in 0..(Word - 1)
           /\ Wrap(Wrap(n) - c) = Wrap(n - c)
           /\ n + 1 < Word => Wrap(Wrap(n) + 1) = Wrap(n + 1)
BY PrefetchCacheAssumption DEF Wrap

\* The sums that the counters stand for do not wrap twice.
LEMMA Sums ==
    ASSUME TypeOK
    PROVE  /\ Live \in SUBSET Keys /\ Adders \in SUBSET Threads
           /\ Inserters \in SUBSET Threads
           /\ Stored("normal") \in SUBSET Live
           /\ NormalAdders \in SUBSET Adders
           /\ Cardinality(Live) \in Nat /\ Cardinality(debts) \in Nat
           /\ Cardinality(Adders) \in Nat /\ Cardinality(Inserters) \in Nat
           /\ Cardinality(Stored("normal")) \in Nat
           /\ Cardinality(normalDebts) \in Nat /\ Cardinality(NormalAdders) \in Nat
           /\ Cardinality(Live) + Cardinality(debts) + 1 < Word
           /\ Cardinality(Stored("normal")) + Cardinality(normalDebts) + 1 < Word
           /\ Cardinality(Adders) < Word /\ Cardinality(NormalAdders) < Word
<1>1. /\ Live \in SUBSET Keys /\ Adders \in SUBSET Threads /\ Inserters \in SUBSET Threads
      /\ Stored("normal") \in SUBSET Live /\ NormalAdders \in SUBSET Adders
      /\ debts \in SUBSET (Threads \X Keys) /\ normalDebts \in SUBSET (Threads \X Keys)
  BY DEF TypeOK, Live, Adders, Inserters, At, Stored, NormalAdders
<1>2. /\ Stored("normal") \in SUBSET Keys /\ NormalAdders \in SUBSET Threads
  BY <1>1
<1>3. /\ Word \in Nat /\ MaxBlocks \in Nat
      /\ Word > MaxBlocks + Cardinality(Threads)
      /\ Word > Cardinality(Keys) + Cardinality(Threads \X Keys) + 1
  BY PrefetchCacheAssumption
<1> HIDE DEF Live, Adders, Inserters, Stored, NormalAdders
<1>4. /\ Cardinality(Live) \in Nat /\ Cardinality(Live) <= Cardinality(Keys)
      /\ Cardinality(Stored("normal")) \in Nat
      /\ Cardinality(Stored("normal")) <= Cardinality(Keys)
  BY <1>1, <1>2, Finite
<1>5. /\ Cardinality(Adders) \in Nat /\ Cardinality(Adders) <= Cardinality(Threads)
      /\ Cardinality(NormalAdders) \in Nat
      /\ Cardinality(NormalAdders) <= Cardinality(Threads)
      /\ Cardinality(Inserters) \in Nat
  BY <1>1, <1>2, Finite
<1>6. /\ Cardinality(debts) \in Nat /\ Cardinality(debts) <= Cardinality(Threads \X Keys)
      /\ Cardinality(normalDebts) \in Nat
      /\ Cardinality(normalDebts) <= Cardinality(Threads \X Keys)
  BY <1>1, Finite
<1> QED
  BY <1>1, <1>3, <1>4, <1>5, <1>6, Finite

-----------------------------------------------------------------------------
(* Steps of a thread that touch neither entries nor counters.              *)

\* They keep the counts.
LEMMA QuietStep ==
    ASSUME CacheInv, TypeOK', NEW t \in Threads,
           UNCHANGED <<entries, current, normal, debts, normalDebts>>,
           pc[t] # "add", pc'[t] \notin {"add", "insert"},
           \A u \in Threads \ {t} : pc'[u] = pc[u] /\ job'[u] = job[u]
    PROVE  Accounting' /\ OvershootBounded'
<1>1. Live' = Live /\ Stored("normal")' = Stored("normal")
  BY DEF Live, Stored
<1>2. Adders' = Adders
  BY DEF Adders, At
<1>3. NormalAdders' = NormalAdders
  BY <1>2 DEF NormalAdders, Adders, At
<1>4. Inserters' \in SUBSET Inserters /\ Inserters \in SUBSET Threads
  BY DEF Inserters, At
<1>5. Cardinality(Inserters') \in Nat /\ Cardinality(Inserters') <= Cardinality(Inserters)
      /\ Cardinality(Inserters) \in Nat
  BY <1>4, Finite, FS_Subset
<1>6. Cardinality(Live) \in Nat /\ Cardinality(Threads) \in Nat /\ MaxBlocks \in Nat
  BY Sums, Finite, PrefetchCacheAssumption DEF CacheInv
<1>7. Accounting'
  BY <1>1, <1>2, <1>3 DEF CacheInv, Accounting
<1>8. OvershootBounded'
  BY <1>1, <1>5, <1>6 DEF CacheInv, OvershootBounded, Inserters
<1> QED
  BY <1>7, <1>8

QuietActions(t) ==
    \/ \E b \in Blocks : Admit(t, b) \/ ReadMissed(t, b)
    \/ BeginInvalidate(t) \/ TryMarkLoading(t) \/ ReadBlock(t)
    \/ CancelLoading(t) \/ SkipExpiry(t) \/ BeginExpiry(t) \/ EndExpiry(t)
    \/ LockEviction(t) \/ GiveUp(t) \/ EvictAgain(t)
    \/ \E s \in Shards : ScanShard(t, s)

\* What is left to show of the other parts of the invariant.
QuietEffect(t) ==
    /\ TypeOK' /\ JobInv' /\ DebtInv'
    /\ UNCHANGED <<entries, current, normal, debts, normalDebts>>
    /\ pc[t] # "add" /\ pc'[t] \notin {"add", "insert"}
    /\ \A u \in Threads \ {t} : pc'[u] = pc[u] /\ job'[u] = job[u]

\* A thread goes from one state to another without owing anything.
LEMMA QuietMove ==
    ASSUME CacheInv, NEW t \in Threads, NEW state,
           state \in {"idle", "admitted", "loading", "put", "expiring", "erase",
                      "check", "scan", "evict", "invalidating"},
           pc[t] \notin Paying \union {"add", "invalidating"},
           Goto(t, state),
           UNCHANGED <<entries, current, normal, debts, normalDebts>>,
           loading' \in SUBSET Keys,
           job' \in [Threads -> Blocks \union {NoBlock}],
           \A u \in Threads \ {t} : job'[u] = job[u],
           state \in Busy => job'[t] \in Blocks,
           victim' \in [Threads -> Blocks \union {NoBlock}],
           todo' \in [Threads -> SUBSET Shards],
           \A u \in Threads \ {t} : todo'[u] = todo[u]
    PROVE  QuietEffect(t)
<1>1. pc' = [pc EXCEPT ![t] = state] /\ pc'[t] = state
  BY DEF Goto, CacheInv, TypeOK
<1>2. pc' \in [Threads -> {"idle", "admitted", "loading", "put", "expiring",
                           "erase", "space", "check", "scan", "evict",
                           "insert", "add", "invalidating"} \union Paying]
  BY <1>1 DEF CacheInv, TypeOK
<1>3. TypeOK'
  BY <1>2 DEF CacheInv, TypeOK
<1>4. \A u \in Threads \ {t} : pc'[u] = pc[u]
  BY <1>1 DEF CacheInv, TypeOK
<1>5. JobInv'
  BY <1>1, <1>4 DEF CacheInv, JobInv
<1>6. \A k \in Keys : <<t, k>> \notin debts
  BY DEF CacheInv, DebtInv
<1>7. DebtInv'
  BY <1>4, <1>6 DEF CacheInv, DebtInv
<1> QED
  BY <1>1, <1>3, <1>4, <1>5, <1>7 DEF QuietEffect

\* Quiet actions have that effect.
LEMMA QuietTypes ==
    ASSUME CacheInv, NEW t \in Threads, QuietActions(t)
    PROVE  QuietEffect(t)
<1> USE DEF threadVars, debtVars, Busy, Paying
<1>0. /\ loading \in SUBSET Keys
      /\ job \in [Threads -> Blocks \union {NoBlock}]
      /\ victim \in [Threads -> Blocks \union {NoBlock}]
      /\ todo \in [Threads -> SUBSET Shards]
      /\ pc[t] \in Busy => job[t] \in Blocks
  BY DEF CacheInv, TypeOK, JobInv
<1>1. ASSUME NEW b \in Blocks, Admit(t, b) \/ ReadMissed(t, b)
      PROVE  QuietEffect(t)
  BY <1>0, <1>1, QuietMove DEF Admit, ReadMissed
<1>2. CASE BeginInvalidate(t) \/ BeginExpiry(t)
  BY <1>0, <1>2, QuietMove DEF BeginInvalidate, BeginExpiry
<1>3. CASE TryMarkLoading(t)
  <2>1. job[t].key \in Keys
    BY <1>0, <1>3 DEF TryMarkLoading, Blocks
  <2> QED
    BY <1>0, <1>3, <2>1, QuietMove DEF TryMarkLoading, Finish
<1>4. CASE CancelLoading(t)
  BY <1>0, <1>4, QuietMove DEF CancelLoading, Finish
<1>5. CASE ReadBlock(t) \/ SkipExpiry(t) \/ EndExpiry(t) \/ LockEviction(t)
  BY <1>0, <1>5, QuietMove DEF ReadBlock, SkipExpiry, EndExpiry, LockEviction
<1>6. CASE GiveUp(t) \/ EvictAgain(t)
  BY <1>0, <1>6, QuietMove DEF GiveUp, Finish, EvictAgain
<1>7. ASSUME NEW s \in Shards, ScanShard(t, s)
      PROVE  QuietEffect(t)
  <2>1. Better(t, s) \subseteq Blocks
    BY DEF Better, Blocks, InShard, Live, Stored, Kinds
  <2>2. victim' \in [Threads -> Blocks \union {NoBlock}]
    BY <1>0, <1>7, <2>1 DEF ScanShard
  <2>3. todo' \in [Threads -> SUBSET Shards] /\ \A u \in Threads \ {t} : todo'[u] = todo[u]
    BY <1>0, <1>7 DEF ScanShard
  <2>4. Goto(t, "evict") \/ Goto(t, "scan")
    BY <1>7 DEF ScanShard
  <2> QED
    BY <1>0, <1>7, <2>2, <2>3, <2>4, QuietMove DEF ScanShard
<1> QED
  BY <1>1, <1>2, <1>3, <1>4, <1>5, <1>6, <1>7 DEF QuietActions

\* Quiet actions keep the invariant.
LEMMA QuietKeeps ==
    ASSUME CacheInv, NEW t \in Threads, QuietActions(t)
    PROVE  CacheInv'
BY QuietTypes, QuietStep DEF QuietEffect, CacheInv

-----------------------------------------------------------------------------
(* The check for space.                                                    *)

\* A thread that finds room leaves room for itself, but for what others are
\* about to insert or to add.
LEMMA CheckKeeps ==
    ASSUME CacheInv, NEW t \in Threads, CheckSpace(t)
    PROVE  CacheInv'
<1> USE DEF threadVars, debtVars
<1>1. CASE Room(job[t].kind)
  <2>1. /\ pc[t] = "check" /\ pc' = [pc EXCEPT ![t] = "insert"]
        /\ UNCHANGED <<entries, loading, current, normal, job, victim, todo,
                       debts, normalDebts>>
    BY <1>1 DEF CheckSpace, Goto
  <2>2. TypeOK' /\ JobInv' /\ DebtInv'
    BY <2>1 DEF CacheInv, TypeOK, JobInv, DebtInv, Busy, Paying
  <2>3. /\ Live' = Live /\ Stored("normal")' = Stored("normal")
        /\ Adders' = Adders /\ NormalAdders' = NormalAdders
        /\ Inserters' = Inserters \union {t} /\ t \notin Inserters
    BY <2>1 DEF Live, Stored, Adders, NormalAdders, Inserters, At, CacheInv, TypeOK
  <2>4. Accounting'
    BY <2>1, <2>3 DEF CacheInv, Accounting
  <2>5. Cardinality(Inserters') = Cardinality(Inserters) + 1
    BY <2>3, Sums, Finite, FS_AddElement DEF CacheInv
  <2>6. Cardinality(Adders) + Cardinality(Inserters) <= Cardinality(Threads) - 1
    <3>1. /\ Adders \in SUBSET Threads /\ Inserters \in SUBSET Threads
          /\ Adders \intersect Inserters = {}
          /\ Adders \union Inserters \in SUBSET (Threads \ {t})
      BY <2>1 DEF Adders, Inserters, At, CacheInv, TypeOK
    <3> HIDE DEF Adders, Inserters
    <3>2. /\ IsFiniteSet(Adders) /\ IsFiniteSet(Inserters) /\ IsFiniteSet(Threads)
          /\ Cardinality(Adders) \in Nat /\ Cardinality(Inserters) \in Nat
      BY <3>1, Finite
    <3>3. Cardinality(Adders \union Inserters)
            = Cardinality(Adders) + Cardinality(Inserters) - Cardinality({})
      BY <3>1, <3>2, FS_Union
    <3>4. /\ IsFiniteSet(Threads \ {t})
          /\ Cardinality(Threads \ {t}) = Cardinality(Threads) - 1
      BY <3>2, FS_RemoveElement
    <3>5. Cardinality(Adders \union Inserters) <= Cardinality(Threads \ {t})
      BY <3>1, <3>4, FS_Subset
    <3> QED
      BY <3>2, <3>3, <3>4, <3>5, FS_EmptySet
  <2>7. Cardinality(Live) <= MaxBlocks - 1 + Cardinality(Adders)
        \/ Cardinality(Live) < Cardinality(Adders)
    <3> DEFINE L == Cardinality(Live)
    <3> DEFINE D == Cardinality(debts)
    <3> DEFINE A == Cardinality(Adders)
    <3>1. L \in Nat /\ D \in Nat /\ A \in Nat /\ L + D + 1 < Word /\ A < Word
      BY Sums DEF CacheInv
    <3>2. current = Wrap(L + D - A) /\ Wrap(current + 1) <= MaxBlocks
      BY <1>1 DEF CacheInv, Accounting, Room
    <3>3. Word \in Nat /\ MaxBlocks \in Nat
      BY PrefetchCacheAssumption
    <3> HIDE DEF L, D, A
    <3>4. Wrap(L + D - A + 1) <= MaxBlocks
      <4>1. Wrap(Wrap(L + D - A) + 1) = Wrap(L + D - A + 1)
        BY <3>1, <3>3 DEF Wrap
      <4> QED
        BY <3>2, <4>1
    <3>5. L <= MaxBlocks - 1 + A \/ L < A
      BY <3>1, <3>3, <3>4 DEF Wrap
    <3> QED
      BY <3>5 DEF L, A
  <2>8. Cardinality(Live) + Cardinality(Inserters) + 1
            <= MaxBlocks + Cardinality(Threads) - 1
    BY <2>6, <2>7, Sums, Finite, PrefetchCacheAssumption DEF CacheInv
  <2>9. OvershootBounded'
    BY <2>3, <2>5, <2>8, Sums DEF CacheInv, OvershootBounded, Inserters
  <2> QED
    BY <2>2, <2>4, <2>9 DEF CacheInv
<1>2. CASE ~Room(job[t].kind)
  <2>1. /\ pc[t] = "check" /\ Goto(t, "scan")
        /\ todo' = [todo EXCEPT ![t] = Shards]
        /\ UNCHANGED <<entries, loading, current, normal, job, victim,
                       debts, normalDebts>>
    BY <1>2 DEF CheckSpace
  <2>2. QuietEffect(t)
    BY <2>1, QuietMove DEF CacheInv, TypeOK, JobInv, Busy, Paying
  <2> QED
    BY <2>2, QuietStep DEF QuietEffect, CacheInv
<1> QED
  BY <1>1, <1>2

-----------------------------------------------------------------------------
(* Steps that remove entries.                                              *)

\* What is removed is owed.
LEMMA RemoveKeeps ==
    ASSUME CacheInv, NEW t \in Threads, NEW S \in SUBSET Live, Remove(t, S),
           \A k \in S : <<t, k>> \notin debts,
           NEW state \in Paying \union {"invalidating"}, Goto(t, state),
           pc[t] \notin {"add", "insert"}, UNCHANGED job
    PROVE  /\ debts' \in SUBSET (Threads \X Keys) /\ normalDebts' \in SUBSET debts'
           /\ entries' \in [Keys -> Kinds \union {"none"}]
           /\ Accounting' /\ OvershootBounded'
<1> DEFINE N == S \intersect Stored("normal")
<1>1. /\ debts \in SUBSET (Threads \X Keys) /\ normalDebts \in SUBSET debts
      /\ S \in SUBSET Keys /\ N \in SUBSET Keys /\ N \in SUBSET Stored("normal")
      /\ Live \in SUBSET Keys /\ Stored("normal") \in SUBSET Keys
      /\ normalDebts \in SUBSET (Threads \X Keys)
  BY DEF CacheInv, TypeOK, Live, Stored
<1>2. /\ debts' = debts \union ({t} \X S)
      /\ normalDebts' = normalDebts \union ({t} \X N)
      /\ entries' = [k \in Keys |-> IF k \in S THEN "none" ELSE entries[k]]
      /\ UNCHANGED <<current, normal>>
  BY DEF Remove
<1>3. entries' \in [Keys -> Kinds \union {"none"}]
  BY <1>2 DEF CacheInv, TypeOK
<1>4. /\ Live' = Live \ S /\ Stored("normal")' = Stored("normal") \ N
  BY <1>2 DEF Live, Stored
<1>5. /\ Adders' = Adders /\ Inserters' = Inserters /\ NormalAdders' = NormalAdders
  BY DEF Goto, Adders, Inserters, NormalAdders, At, CacheInv, TypeOK, Paying
<1> HIDE DEF N
<1>6. /\ debts' \in SUBSET (Threads \X Keys) /\ normalDebts' \in SUBSET debts'
  <2>1. N \in SUBSET S
    BY DEF N
  <2> QED
    BY <1>1, <1>2, <2>1
<1>7. /\ Cardinality(debts') = Cardinality(debts) + Cardinality(S)
      /\ Cardinality(normalDebts') = Cardinality(normalDebts) + Cardinality(N)
  <2>1. \A k \in N : <<t, k>> \notin normalDebts
    BY <1>1 DEF N
  <2> QED
    BY <1>1, <1>2, <2>1, MoreDebts
<1>8. /\ Cardinality(Live') = Cardinality(Live) - Cardinality(S)
      /\ Cardinality(Stored("normal")') = Cardinality(Stored("normal")) - Cardinality(N)
  BY <1>1, <1>4, FewerKeys
<1>9. /\ Cardinality(S) \in Nat /\ Cardinality(N) \in Nat
      /\ Cardinality(Live) \in Nat /\ Cardinality(debts) \in Nat
      /\ Cardinality(Stored("normal")) \in Nat /\ Cardinality(normalDebts) \in Nat
      /\ Cardinality(Inserters) \in Nat /\ Cardinality(Adders) \in Nat
      /\ Cardinality(Threads) \in Nat /\ MaxBlocks \in Nat
  BY <1>1, Finite, Sums, PrefetchCacheAssumption DEF CacheInv
<1>10. Accounting'
  <2>1. Cardinality(Live') + Cardinality(debts') = Cardinality(Live) + Cardinality(debts)
    BY <1>7, <1>8, <1>9
  <2>2. Cardinality(Stored("normal")') + Cardinality(normalDebts')
          = Cardinality(Stored("normal")) + Cardinality(normalDebts)
    BY <1>7, <1>8, <1>9
  <2>3. /\ Cardinality(Live') + Cardinality(debts') - Cardinality(Adders')
             = Cardinality(Live) + Cardinality(debts) - Cardinality(Adders)
        /\ Cardinality(Stored("normal")') + Cardinality(normalDebts')
             - Cardinality(NormalAdders')
             = Cardinality(Stored("normal")) + Cardinality(normalDebts)
               - Cardinality(NormalAdders)
    <3>1. /\ Cardinality(NormalAdders) \in Nat /\ Cardinality(Live') \in Nat
          /\ Cardinality(debts') \in Nat /\ Cardinality(Stored("normal")') \in Nat
          /\ Cardinality(normalDebts') \in Nat
      <4>1. /\ Live' \in SUBSET Keys /\ Stored("normal")' \in SUBSET Keys
            /\ normalDebts' \in SUBSET (Threads \X Keys)
        BY <1>1, <1>4, <1>6
      <4> QED
        BY <1>6, <4>1, Finite, Sums DEF CacheInv
    <3>2. Cardinality(Adders') = Cardinality(Adders)
          /\ Cardinality(NormalAdders') = Cardinality(NormalAdders)
      BY <1>5
    <3>3. Cardinality(Live') + Cardinality(debts') - Cardinality(Adders')
             = Cardinality(Live) + Cardinality(debts) - Cardinality(Adders)
      <4>1. /\ Cardinality(Live) \in Nat /\ Cardinality(debts) \in Nat
            /\ Cardinality(Adders) \in Nat
            /\ Cardinality(Live') \in Nat /\ Cardinality(debts') \in Nat
        BY <1>9, <3>1
      <4> QED
        BY <2>1, <3>2, <4>1, SMTT(30)
    <3>4. Cardinality(Stored("normal")') + Cardinality(normalDebts')
             - Cardinality(NormalAdders')
             = Cardinality(Stored("normal")) + Cardinality(normalDebts)
               - Cardinality(NormalAdders)
      BY <1>9, <2>2, <3>1, <3>2
    <3> QED
      BY <3>3, <3>4
  <2>4. /\ current' = Wrap(Cardinality(Live') + Cardinality(debts') - Cardinality(Adders'))
        /\ normal' = Wrap(Cardinality(Stored("normal")') + Cardinality(normalDebts')
                            - Cardinality(NormalAdders'))
    BY <1>2, <2>3 DEF CacheInv, Accounting
  <2> QED
    BY <2>4 DEF Accounting
<1>11. OvershootBounded'
  BY <1>5, <1>8, <1>9 DEF CacheInv, OvershootBounded, Inserters
<1> QED
  BY <1>3, <1>6, <1>10, <1>11

\* Expiry, replacement, eviction and invalidation keep the invariant.
LEMMA RemovalsKeep ==
    ASSUME CacheInv, NEW t \in Threads,
           \/ EraseOld(t) \/ Evict(t)
           \/ \E s \in Shards : ExpireShard(t, s) \/ InvalidateShard(t, s)
    PROVE  CacheInv'
<1> USE DEF Paying
<1>1. ASSUME NEW S \in SUBSET Live, Remove(t, S), NEW state, Goto(t, state),
             pc[t] \in {"erase", "evict", "expiring"}, state \in Paying, UNCHANGED job,
             state = "invalidated" => FALSE,
             loading' \in SUBSET Keys,
             victim' \in [Threads -> Blocks \union {NoBlock}],
             todo' \in [Threads -> SUBSET Shards],
             \A u \in Threads \ {t} : todo'[u] = todo[u]
      PROVE  CacheInv'
  <2>1. \A k \in S : <<t, k>> \notin debts
    BY <1>1 DEF CacheInv, DebtInv, Live
  <2>2. /\ debts' \in SUBSET (Threads \X Keys) /\ normalDebts' \in SUBSET debts'
        /\ entries' \in [Keys -> Kinds \union {"none"}]
        /\ Accounting' /\ OvershootBounded'
    BY <1>1, <2>1, RemoveKeeps
  <2>3. pc' = [pc EXCEPT ![t] = state] /\ UNCHANGED <<current, normal>>
    BY <1>1 DEF Goto, Remove
  <2>4. TypeOK'
    BY <1>1, <2>2, <2>3 DEF CacheInv, TypeOK
  <2>5. pc'[t] = state /\ \A u \in Threads \ {t} : pc'[u] = pc[u]
    BY <2>3 DEF CacheInv, TypeOK
  <2>6. JobInv'
    BY <1>1, <2>5 DEF CacheInv, JobInv, Busy
  <2>7. \A u \in Threads \ {t}, k \in Keys : <<u, k>> \in debts' => <<u, k>> \in debts
    BY <1>1 DEF Remove
  <2>8. DebtInv'
    BY <1>1, <2>5, <2>7 DEF CacheInv, DebtInv
  <2> QED
    BY <2>2, <2>4, <2>6, <2>8 DEF CacheInv
<1>0. /\ loading \in SUBSET Keys
      /\ victim \in [Threads -> Blocks \union {NoBlock}]
      /\ todo \in [Threads -> SUBSET Shards]
  BY DEF CacheInv, TypeOK
<1>2. CASE EraseOld(t)
  BY <1>0, <1>1, <1>2 DEF EraseOld, threadVars
<1>3. CASE Evict(t)
  <2>1. victim[t].key \in Keys /\ entries[victim[t].key] # "none"
    BY <1>0, <1>3 DEF Evict, Blocks
  <2>2. {victim[t].key} \in SUBSET Live
    BY <2>1 DEF Live
  <2> QED
    BY <1>0, <1>1, <1>3, <2>2 DEF Evict
<1>4. ASSUME NEW s \in Shards, ExpireShard(t, s)
      PROVE  CacheInv'
  <2>1. PICK S \in SUBSET InShard(s) : Remove(t, S)
    BY <1>4 DEF ExpireShard
  <2>2. S \in SUBSET Live
    BY DEF InShard
  <2> QED
    BY <1>0, <1>1, <1>4, <2>1, <2>2 DEF ExpireShard
<1>5. ASSUME NEW s \in Shards, InvalidateShard(t, s)
      PROVE  CacheInv'
  <2> DEFINE S == InShard(s)
  <2>1. S \in SUBSET Live /\ \A k \in S : k \in Keys /\ ShardOf[k] = s
    BY DEF InShard, Live
  <2>2. /\ pc[t] = "invalidating" /\ s \in todo[t] /\ Remove(t, S)
        /\ todo' = [todo EXCEPT ![t] = @ \ {s}] /\ UNCHANGED <<job, victim>>
        /\ loading' \in SUBSET Keys
    BY <1>0, <1>5 DEF InvalidateShard
  <2>3. \A k \in S : <<t, k>> \notin debts
    BY <2>1, <2>2 DEF CacheInv, DebtInv
  <2>4. PICK state \in {"invalidating", "invalidated"} : Goto(t, state)
    BY <1>5 DEF InvalidateShard
  <2> HIDE DEF S
  <2>5. /\ debts' \in SUBSET (Threads \X Keys) /\ normalDebts' \in SUBSET debts'
        /\ entries' \in [Keys -> Kinds \union {"none"}]
        /\ Accounting' /\ OvershootBounded'
    BY <2>1, <2>2, <2>3, <2>4, RemoveKeeps
  <2>6. pc' = [pc EXCEPT ![t] = state] /\ UNCHANGED <<current, normal>>
    BY <2>2, <2>4 DEF Goto, Remove
  <2>7. /\ todo' \in [Threads -> SUBSET Shards]
        /\ todo'[t] = todo[t] \ {s} /\ \A u \in Threads \ {t} : todo'[u] = todo[u]
    BY <1>0, <2>2
  <2>8. TypeOK'
    BY <1>0, <2>2, <2>5, <2>6, <2>7 DEF CacheInv, TypeOK
  <2>9. pc'[t] = state /\ \A u \in Threads \ {t} : pc'[u] = pc[u]
    BY <2>6 DEF CacheInv, TypeOK
  <2>10. JobInv'
    BY <2>2, <2>9 DEF CacheInv, JobInv, Busy
  <2>11. \A u \in Threads, k \in Keys :
            <<u, k>> \in debts' => <<u, k>> \in debts \/ (u = t /\ k \in S)
    BY <2>2 DEF Remove
  <2>12. DebtInv'
    BY <2>1, <2>2, <2>7, <2>9, <2>11 DEF CacheInv, DebtInv
  <2> QED
    BY <2>5, <2>8, <2>10, <2>12 DEF CacheInv
<1> QED
  BY <1>2, <1>3, <1>4, <1>5

-----------------------------------------------------------------------------
(* Steps that use the counters.                                            *)

\* Subtracting what is owed keeps the invariant.
LEMMA PayKeeps ==
    ASSUME CacheInv, NEW t \in Threads, Pay(t)
    PROVE  CacheInv'
<1> USE DEF threadVars
<1> DEFINE D == debts \intersect DebtsOf(t)
<1> DEFINE N == normalDebts \intersect DebtsOf(t)
<1>1. /\ pc[t] \in Paying /\ Subtract(D, N)
      /\ debts' = debts \ DebtsOf(t) /\ normalDebts' = normalDebts \ DebtsOf(t)
      /\ UNCHANGED <<entries, loading, job, victim, todo>>
  BY DEF Pay
<1>2. PICK state \in {"expiring", "space", "check", "idle"} : pc' = [pc EXCEPT ![t] = state]
  BY <1>1 DEF Pay, Goto, AfterPay, Paying
<1>3. /\ debts \in SUBSET (Threads \X Keys) /\ normalDebts \in SUBSET (Threads \X Keys)
      /\ D \in SUBSET (Threads \X Keys) /\ N \in SUBSET (Threads \X Keys)
      /\ Cardinality(D) \in Nat /\ Cardinality(N) \in Nat
      /\ IsFiniteSet(debts) /\ IsFiniteSet(normalDebts)
      /\ Cardinality(debts) \in Nat /\ Cardinality(normalDebts) \in Nat
  BY Finite DEF CacheInv, TypeOK
<1>4. /\ Cardinality(debts') = Cardinality(debts) - Cardinality(D)
      /\ Cardinality(normalDebts') = Cardinality(normalDebts) - Cardinality(N)
      /\ Cardinality(D) <= Cardinality(debts)
      /\ Cardinality(N) <= Cardinality(normalDebts)
  BY <1>1, <1>3, FS_Difference, FS_Intersection
<1> HIDE DEF D, N
<1>5. /\ Live' = Live /\ Stored("normal")' = Stored("normal")
      /\ Adders' = Adders /\ Inserters' = Inserters /\ NormalAdders' = NormalAdders
  BY <1>1, <1>2
  DEF Live, Stored, Adders, Inserters, NormalAdders, At, CacheInv, TypeOK, Paying
<1>6. /\ current' = Wrap(current - Cardinality(D))
      /\ normal' = Wrap(normal - Cardinality(N))
  BY <1>1 DEF Subtract
<1>7. /\ current' \in 0..(Word - 1)
      /\ current' = Wrap(Cardinality(Live) + Cardinality(debts') - Cardinality(Adders))
  <2> DEFINE n == Cardinality(Live) + Cardinality(debts) - Cardinality(Adders)
  <2> DEFINE c == Cardinality(D)
  <2>1. /\ n \in Int /\ c \in Nat /\ n < Word /\ n - c > -Word
        /\ n - c = Cardinality(Live) + Cardinality(debts') - Cardinality(Adders)
    BY <1>3, <1>4, Sums, PrefetchCacheAssumption DEF CacheInv
  <2>2. current = Wrap(n)
    BY DEF CacheInv, Accounting
  <2> HIDE DEF n, c
  <2>3. Wrap(Wrap(n) - c) = Wrap(n - c) /\ Wrap(n - c) \in 0..(Word - 1)
    BY <2>1, WrapSteps
  <2> QED
    BY <1>6, <2>1, <2>2, <2>3 DEF c
<1>8. /\ normal' \in 0..(Word - 1)
      /\ normal' = Wrap(Cardinality(Stored("normal")) + Cardinality(normalDebts')
                         - Cardinality(NormalAdders))
  <2> DEFINE n == Cardinality(Stored("normal")) + Cardinality(normalDebts)
                  - Cardinality(NormalAdders)
  <2> DEFINE c == Cardinality(N)
  <2>1. /\ n \in Int /\ c \in Nat /\ n < Word /\ n - c > -Word
        /\ n - c = Cardinality(Stored("normal")) + Cardinality(normalDebts')
                   - Cardinality(NormalAdders)
    BY <1>3, <1>4, Sums, PrefetchCacheAssumption DEF CacheInv
  <2>2. normal = Wrap(n)
    BY DEF CacheInv, Accounting
  <2> HIDE DEF n, c
  <2>3. Wrap(Wrap(n) - c) = Wrap(n - c) /\ Wrap(n - c) \in 0..(Word - 1)
    BY <2>1, WrapSteps
  <2> QED
    BY <1>6, <2>1, <2>2, <2>3 DEF c
<1>9. Accounting' /\ OvershootBounded'
  BY <1>5, <1>7, <1>8 DEF Accounting, CacheInv, OvershootBounded, Inserters
<1>10. TypeOK'
  BY <1>1, <1>2, <1>7, <1>8 DEF CacheInv, TypeOK
<1>11. pc'[t] = state /\ \A u \in Threads \ {t} : pc'[u] = pc[u]
  BY <1>2 DEF CacheInv, TypeOK
<1>12. JobInv'
  BY <1>1, <1>11 DEF CacheInv, JobInv, Busy, Pay, AfterPay, Paying, Goto
<1>13. \A u \in Threads, k \in Keys : <<u, k>> \in debts' => <<u, k>> \in debts /\ u # t
  BY <1>1 DEF DebtsOf
<1>14. DebtInv'
  BY <1>1, <1>11, <1>13 DEF CacheInv, DebtInv
<1> QED
  BY <1>9, <1>10, <1>12, <1>14 DEF CacheInv

\* A key comes to a set of keys, or leaves it.
LEMMA OneKey ==
    ASSUME NEW B \in SUBSET Keys, NEW k \in Keys
    PROVE  /\ Cardinality({k} \intersect B) \in Nat
           /\ Cardinality({k} \intersect B) <= Cardinality(B)
           /\ Cardinality(B \union {k}) = Cardinality(B) - Cardinality({k} \intersect B) + 1
           /\ Cardinality(B \ {k}) = Cardinality(B) - Cardinality({k} \intersect B)
<1>1. IsFiniteSet(B) /\ Cardinality(B) \in Nat
  BY Finite
<1>2. CASE k \in B
  <2>1. {k} \intersect B = {k} /\ B \union {k} = B /\ B # {}
    BY <1>2
  <2>2. Cardinality(B \ {k}) = Cardinality(B) - 1 /\ Cardinality(B) # 0
    BY <1>1, <1>2, <2>1, FS_RemoveElement, FS_EmptySet
  <2>3. Cardinality({k} \intersect B) = 1 /\ Cardinality(B \union {k}) = Cardinality(B)
    BY <2>1, FS_Singleton
  <2> QED
    BY <1>1, <2>2, <2>3
<1>3. CASE k \notin B
  <2>1. {k} \intersect B = {} /\ B \ {k} = B
    BY <1>3
  <2>2. Cardinality(B \union {k}) = Cardinality(B) + 1
    BY <1>1, <1>3, FS_AddElement
  <2>3. Cardinality({k} \intersect B) = 0 /\ Cardinality(B \ {k}) = Cardinality(B)
    BY <2>1, FS_EmptySet
  <2> QED
    BY <1>1, <2>2, <2>3
<1> QED
  BY <1>2, <1>3

\* A thread joins a set of threads, or leaves it.
LEMMA OneThread ==
    ASSUME NEW B \in SUBSET Threads, NEW t \in Threads
    PROVE  /\ t \notin B => Cardinality(B \union {t}) = Cardinality(B) + 1
           /\ t \in B => Cardinality(B \ {t}) = Cardinality(B) - 1 /\ Cardinality(B) > 0
<1>1. IsFiniteSet(B) /\ Cardinality(B) \in Nat
  BY Finite
<1>2. t \in B => Cardinality(B) # 0
  BY <1>1, FS_EmptySet
<1>3. t \notin B => Cardinality(B \union {t}) = Cardinality(B) + 1
  BY <1>1, FS_AddElement
<1>4. t \in B => Cardinality(B \ {t}) = Cardinality(B) - 1
  BY <1>1, FS_RemoveElement
<1> QED
  BY <1>1, <1>2, <1>3, <1>4

\* An insertion subtracts what it overwrites and is itself added later.
LEMMA InsertKeeps ==
    ASSUME CacheInv, NEW t \in Threads, Insert(t)
    PROVE  CacheInv'
<1> USE DEF threadVars, debtVars
<1> DEFINE key == job[t].key
<1> DEFINE kind == job[t].kind
<1> DEFINE O == {key} \intersect Live
<1> DEFINE N == {key} \intersect Stored("normal")
<1>1. /\ pc[t] = "insert" /\ pc' = [pc EXCEPT ![t] = "add"] /\ Subtract(O, N)
      /\ entries' = [entries EXCEPT ![key] = kind]
      /\ UNCHANGED <<loading, job, victim, todo, debts, normalDebts>>
  BY DEF Insert, Goto
<1>2. key \in Keys /\ kind \in Kinds
  BY <1>1 DEF CacheInv, JobInv, Busy, Blocks
<1>3. /\ Live \in SUBSET Keys /\ Stored("normal") \in SUBSET Keys
      /\ Live' = Live \union {key}
      /\ kind = "normal" => Stored("normal")' = Stored("normal") \union {key}
      /\ kind # "normal" => Stored("normal")' = Stored("normal") \ {key}
  BY <1>1, <1>2 DEF Live, Stored, CacheInv, TypeOK, Kinds
<1>4. /\ Adders \in SUBSET Threads /\ Inserters \in SUBSET Threads
      /\ NormalAdders \in SUBSET Threads
      /\ t \notin Adders /\ t \in Inserters /\ t \notin NormalAdders
      /\ Adders' = Adders \union {t} /\ Inserters' = Inserters \ {t}
      /\ kind = "normal" => NormalAdders' = NormalAdders \union {t}
      /\ kind # "normal" => NormalAdders' = NormalAdders
  BY <1>1 DEF Adders, Inserters, NormalAdders, At, CacheInv, TypeOK
<1> HIDE DEF key, kind, O, N
<1>5. /\ Cardinality(O) \in Nat /\ Cardinality(O) <= Cardinality(Live)
      /\ Cardinality(Live') = Cardinality(Live) - Cardinality(O) + 1
  BY <1>2, <1>3, OneKey DEF O
<1>6. /\ Cardinality(N) \in Nat /\ Cardinality(N) <= Cardinality(Stored("normal"))
      /\ kind = "normal" => Cardinality(Stored("normal")')
                              = Cardinality(Stored("normal")) - Cardinality(N) + 1
      /\ kind # "normal" => Cardinality(Stored("normal")')
                              = Cardinality(Stored("normal")) - Cardinality(N)
  BY <1>2, <1>3, OneKey DEF N
<1>7. /\ Cardinality(Adders') = Cardinality(Adders) + 1
      /\ Cardinality(Inserters') = Cardinality(Inserters) - 1
      /\ kind = "normal" => Cardinality(NormalAdders') = Cardinality(NormalAdders) + 1
      /\ kind # "normal" => Cardinality(NormalAdders') = Cardinality(NormalAdders)
  BY <1>4, OneThread
<1>8. /\ current' = Wrap(current - Cardinality(O))
      /\ normal' = Wrap(normal - Cardinality(N))
  BY <1>1 DEF Subtract
<1>9. /\ current' \in 0..(Word - 1)
      /\ current' = Wrap(Cardinality(Live') + Cardinality(debts) - Cardinality(Adders'))
  <2> DEFINE n == Cardinality(Live) + Cardinality(debts) - Cardinality(Adders)
  <2> DEFINE c == Cardinality(O)
  <2>1. /\ n \in Int /\ c \in Nat /\ n < Word /\ n - c > -Word
        /\ n - c = Cardinality(Live') + Cardinality(debts) - Cardinality(Adders')
    BY <1>5, <1>7, Sums, PrefetchCacheAssumption DEF CacheInv
  <2>2. current = Wrap(n)
    BY DEF CacheInv, Accounting
  <2> HIDE DEF n, c
  <2>3. Wrap(Wrap(n) - c) = Wrap(n - c) /\ Wrap(n - c) \in 0..(Word - 1)
    BY <2>1, WrapSteps
  <2> QED
    BY <1>8, <2>1, <2>2, <2>3 DEF c
<1>10. /\ normal' \in 0..(Word - 1)
       /\ normal' = Wrap(Cardinality(Stored("normal")') + Cardinality(normalDebts)
                          - Cardinality(NormalAdders'))
  <2> DEFINE n == Cardinality(Stored("normal")) + Cardinality(normalDebts)
                  - Cardinality(NormalAdders)
  <2> DEFINE c == Cardinality(N)
  <2>1. /\ n \in Int /\ c \in Nat /\ n < Word /\ n - c > -Word
        /\ n - c = Cardinality(Stored("normal")') + Cardinality(normalDebts)
                   - Cardinality(NormalAdders')
    BY <1>6, <1>7, Sums, PrefetchCacheAssumption DEF CacheInv
  <2>2. normal = Wrap(n)
    BY DEF CacheInv, Accounting
  <2> HIDE DEF n, c
  <2>3. Wrap(Wrap(n) - c) = Wrap(n - c) /\ Wrap(n - c) \in 0..(Word - 1)
    BY <2>1, WrapSteps
  <2> QED
    BY <1>8, <2>1, <2>2, <2>3 DEF c
<1>11. Accounting'
  BY <1>1, <1>9, <1>10 DEF Accounting
<1>12. OvershootBounded'
  <2>1. /\ Cardinality(Live) \in Nat /\ Cardinality(Inserters) \in Nat
        /\ Cardinality(Threads) \in Nat /\ MaxBlocks \in Nat
    BY Sums, Finite, PrefetchCacheAssumption DEF CacheInv
  <2>2. Cardinality(Live) + Cardinality(Inserters) <= MaxBlocks + Cardinality(Threads) - 1
    BY DEF CacheInv, OvershootBounded, Inserters
  <2>3. Cardinality(Live') + Cardinality(Inserters') <= MaxBlocks + Cardinality(Threads) - 1
    BY <1>5, <1>7, <2>1, <2>2
  <2> QED
    BY <2>3 DEF OvershootBounded, Inserters
<1>13. TypeOK'
  BY <1>1, <1>2, <1>9, <1>10 DEF CacheInv, TypeOK
<1>14. JobInv' /\ DebtInv'
  BY <1>1 DEF CacheInv, TypeOK, JobInv, DebtInv, Busy, Paying
<1> QED
  BY <1>11, <1>12, <1>13, <1>14 DEF CacheInv

\* An addition that was owed is made.
LEMMA AddKeeps ==
    ASSUME CacheInv, NEW t \in Threads, Add(t)
    PROVE  CacheInv'
<1> USE DEF threadVars, debtVars
<1>1. /\ pc[t] = "add" /\ pc' = [pc EXCEPT ![t] = "idle"]
      /\ job' = [job EXCEPT ![t] = NoBlock]
      /\ current' = Wrap(current + 1)
      /\ job[t].kind = "normal" => normal' = Wrap(normal + 1)
      /\ job[t].kind # "normal" => normal' = normal
      /\ UNCHANGED <<entries, loading, victim, todo, debts, normalDebts>>
  BY DEF Add, Finish, Goto
<1>2. Live' = Live /\ Stored("normal")' = Stored("normal")
  BY <1>1 DEF Live, Stored
<1>3. /\ Adders \in SUBSET Threads /\ NormalAdders \in SUBSET Threads
      /\ t \in Adders /\ Adders' = Adders \ {t} /\ Inserters' = Inserters
      /\ job[t].kind = "normal" => t \in NormalAdders /\ NormalAdders' = NormalAdders \ {t}
      /\ job[t].kind # "normal" => NormalAdders' = NormalAdders
  BY <1>1 DEF Adders, Inserters, NormalAdders, At, CacheInv, TypeOK
<1>4. /\ Cardinality(Adders') = Cardinality(Adders) - 1
      /\ job[t].kind = "normal" => Cardinality(NormalAdders') = Cardinality(NormalAdders) - 1
      /\ job[t].kind # "normal" => Cardinality(NormalAdders') = Cardinality(NormalAdders)
  BY <1>3, OneThread
<1>5. /\ current' \in 0..(Word - 1)
      /\ current' = Wrap(Cardinality(Live) + Cardinality(debts) - Cardinality(Adders'))
  <2> DEFINE n == Cardinality(Live) + Cardinality(debts) - Cardinality(Adders)
  <2>1. /\ n \in Int /\ n + 1 \in Int /\ n + 1 < Word /\ n < Word /\ n > -Word /\ n + 1 > -Word
        /\ n + 1 = Cardinality(Live) + Cardinality(debts) - Cardinality(Adders')
    BY <1>4, Sums, PrefetchCacheAssumption DEF CacheInv
  <2>2. current = Wrap(n)
    BY DEF CacheInv, Accounting
  <2> HIDE DEF n
  <2>3. Wrap(Wrap(n) + 1) = Wrap(n + 1) /\ Wrap(n + 1) \in 0..(Word - 1)
    BY <2>1, WrapSteps, PrefetchCacheAssumption DEF Wrap
  <2> QED
    BY <1>1, <2>1, <2>2, <2>3
<1>6. /\ normal' \in 0..(Word - 1)
      /\ normal' = Wrap(Cardinality(Stored("normal")) + Cardinality(normalDebts)
                         - Cardinality(NormalAdders'))
  <2> DEFINE n == Cardinality(Stored("normal")) + Cardinality(normalDebts)
                  - Cardinality(NormalAdders)
  <2>1. /\ n \in Int /\ n + 1 \in Int /\ n + 1 < Word /\ n < Word /\ n > -Word /\ n + 1 > -Word
        /\ job[t].kind = "normal" =>
             n + 1 = Cardinality(Stored("normal")) + Cardinality(normalDebts)
                     - Cardinality(NormalAdders')
        /\ job[t].kind # "normal" =>
             n = Cardinality(Stored("normal")) + Cardinality(normalDebts)
                 - Cardinality(NormalAdders')
    BY <1>4, Sums, PrefetchCacheAssumption DEF CacheInv
  <2>2. normal = Wrap(n)
    BY DEF CacheInv, Accounting
  <2> HIDE DEF n
  <2>3. /\ Wrap(Wrap(n) + 1) = Wrap(n + 1)
        /\ Wrap(n) \in 0..(Word - 1) /\ Wrap(n + 1) \in 0..(Word - 1)
    BY <2>1, WrapSteps, PrefetchCacheAssumption DEF Wrap
  <2> QED
    BY <1>1, <2>1, <2>2, <2>3
<1>7. Accounting' /\ OvershootBounded'
  BY <1>1, <1>2, <1>3, <1>5, <1>6 DEF Accounting, CacheInv, OvershootBounded, Inserters
<1>8. TypeOK'
  BY <1>1, <1>5, <1>6 DEF CacheInv, TypeOK
<1>9. JobInv' /\ DebtInv'
  BY <1>1 DEF CacheInv, TypeOK, JobInv, DebtInv, Busy, Paying
<1> QED
  BY <1>7, <1>8, <1>9 DEF CacheInv

-----------------------------------------------------------------------------
(* The theorems.                                                           *)

\* An empty cache has nothing to account for.
LEMMA CacheInit == Init => CacheInv
<1> SUFFICES ASSUME Init PROVE CacheInv
  OBVIOUS
<1>0. 0 \in 0..(Word - 1)
  BY Finite, PrefetchCacheAssumption
<1>1. TypeOK /\ JobInv /\ DebtInv
  BY <1>0 DEF Init, TypeOK, JobInv, DebtInv, Busy, Paying
<1>2. /\ Live = {} /\ Stored("normal") = {} /\ debts = {} /\ normalDebts = {}
      /\ Adders = {} /\ NormalAdders = {} /\ Inserters = {}
      /\ current = 0 /\ normal = 0
  BY DEF Init, Live, Stored, Adders, NormalAdders, Inserters, At
<1>3. Accounting
  <2>1. Wrap(0) = 0
    BY PrefetchCacheAssumption DEF Wrap
  <2> QED
    BY <1>2, <2>1, FS_EmptySet DEF Accounting
<1>4. OvershootBounded
  BY <1>2, FS_EmptySet, Finite, PrefetchCacheAssumption DEF OvershootBounded, Inserters
<1> QED
  BY <1>1, <1>3, <1>4 DEF CacheInv

\* Every step of every thread keeps the invariant.
LEMMA CacheStep == CacheInv /\ [Next]_vars => CacheInv'
<1> SUFFICES ASSUME CacheInv, [Next]_vars PROVE CacheInv'
  OBVIOUS
<1>1. ASSUME NEW t \in Threads, Start(t) \/ Proceed(t) PROVE CacheInv'
  <2>1. \/ QuietActions(t) \/ CheckSpace(t) \/ Pay(t) \/ Insert(t) \/ Add(t)
        \/ EraseOld(t) \/ Evict(t)
        \/ \E s \in Shards : ExpireShard(t, s) \/ InvalidateShard(t, s)
    BY <1>1 DEF Start, Proceed, QuietActions
  <2> QED
    BY <2>1, QuietKeeps, CheckKeeps, PayKeeps, InsertKeeps, AddKeeps, RemovalsKeep
<1>2. CASE UNCHANGED vars
  <2>1. UNCHANGED <<entries, loading, current, normal, pc, job, victim, todo,
                    debts, normalDebts>>
    BY <1>2 DEF vars, threadVars, debtVars
  <2>2. /\ Live' = Live /\ Stored("normal")' = Stored("normal") /\ Adders' = Adders
        /\ NormalAdders' = NormalAdders /\ At({"insert"})' = At({"insert"})
    BY <2>1 DEF Live, Stored, Adders, NormalAdders, At
  <2> QED
    BY <2>1, <2>2 DEF CacheInv, TypeOK, JobInv, DebtInv, Accounting, OvershootBounded
<1> QED
  BY <1>1, <1>2 DEF Next

\* The invariant holds for ever.
LEMMA CacheAlways == Spec => []CacheInv
BY CacheInit, CacheStep, PTL DEF Spec

\* Every variable keeps its type, for any number of threads and blocks.
THEOREM TypeCorrect == Spec => []TypeOK
<1>1. CacheInv => TypeOK
  BY DEF CacheInv
<1> QED
  BY <1>1, CacheAlways, PTL

\* No race of puts, evictions, expiry and invalidation loses count of a block:
\* the counters are the entries, up to the additions and subtractions that
\* threads have still to make, for any number of threads and blocks.
THEOREM CountersCorrect == Spec => []Accounting
<1>1. CacheInv => Accounting
  BY DEF CacheInv
<1> QED
  BY <1>1, CacheAlways, PTL

\* Puts that pass the check for space together, without a reservation, exceed
\* maxBytes_ by at most a block of each other thread.
THEOREM OvershootLimited == Spec => []OvershootBounded
<1>1. CacheInv => OvershootBounded
  BY DEF CacheInv
<1> QED
  BY <1>1, CacheAlways, PTL

-----------------------------------------------------------------------------
(* Marks of loads, and VIP entries.                                        *)

\* A thread touches its own state only.
LEMMA OthersUntouched ==
    ASSUME TypeOK, NEW t \in Threads, Start(t) \/ Proceed(t),
           NEW u \in Threads, u # t
    PROVE  pc'[u] = pc[u] /\ job'[u] = job[u]
<1> USE DEF TypeOK, Goto, Finish, Remove, threadVars
<1>1. CASE Start(t)
  BY <1>1 DEF Start, Admit, ReadMissed, BeginInvalidate
<1>2. CASE \/ TryMarkLoading(t) \/ ReadBlock(t) \/ CancelLoading(t)
           \/ SkipExpiry(t) \/ BeginExpiry(t) \/ EndExpiry(t)
  BY <1>2 DEF TryMarkLoading, ReadBlock, CancelLoading, SkipExpiry, BeginExpiry,
              EndExpiry
<1>3. CASE \/ EraseOld(t) \/ Pay(t) \/ LockEviction(t) \/ CheckSpace(t)
           \/ GiveUp(t) \/ EvictAgain(t) \/ Evict(t) \/ Insert(t) \/ Add(t)
  BY <1>3 DEF EraseOld, Pay, LockEviction, CheckSpace, GiveUp, EvictAgain, Evict,
              Insert, Add
<1>4. CASE \E s \in Shards :
              ExpireShard(t, s) \/ ScanShard(t, s) \/ InvalidateShard(t, s)
  BY <1>4 DEF ExpireShard, ScanShard, InvalidateShard
<1> QED
  BY <1>1, <1>2, <1>3, <1>4 DEF Proceed

\* Only tryMarkLoading sets a mark, for the block of its thread.
LEMMA MarkSet ==
    ASSUME TypeOK, NEW t \in Threads, Start(t) \/ Proceed(t),
           NEW k \in loading', k \notin loading
    PROVE  pc'[t] = "loading" /\ job'[t].key = k
<1>1. TryMarkLoading(t)
  BY DEF Start, Admit, ReadMissed, BeginInvalidate, Proceed, ReadBlock,
         CancelLoading, SkipExpiry, BeginExpiry, EndExpiry, EraseOld, Pay,
         LockEviction, CheckSpace, GiveUp, EvictAgain, Evict, Insert, Add,
         ExpireShard, ScanShard, InvalidateShard
<1> QED
  BY <1>1 DEF TryMarkLoading, TypeOK, Goto, Finish

\* A thread that leaves its load takes the mark of its block away.
LEMMA MarkTaken ==
    ASSUME TypeOK, NEW t \in Threads, Start(t) \/ Proceed(t),
           pc[t] \in Loaders, job[t].key \in loading'
    PROVE  pc'[t] \in Loaders /\ job'[t] = job[t]
<1> USE DEF TypeOK, Loaders, Goto, threadVars
<1>1. ~Start(t)
  BY DEF Start, Admit, ReadMissed, BeginInvalidate
<1>2. CASE TryMarkLoading(t) \/ LockEviction(t) \/ CheckSpace(t) \/ GiveUp(t)
           \/ EvictAgain(t) \/ Evict(t) \/ Insert(t) \/ Add(t)
  BY <1>2 DEF TryMarkLoading, LockEviction, CheckSpace, GiveUp, EvictAgain,
              Evict, Insert, Add
<1>3. CASE ReadBlock(t) \/ SkipExpiry(t) \/ BeginExpiry(t) \/ EndExpiry(t)
  BY <1>3 DEF ReadBlock, SkipExpiry, BeginExpiry, EndExpiry
<1>4. CASE CancelLoading(t) \/ EraseOld(t)
  BY <1>4 DEF CancelLoading, EraseOld
<1>5. CASE Pay(t)
  BY <1>5 DEF Pay, Paying, AfterPay
<1>6. CASE \E s \in Shards :
              ExpireShard(t, s) \/ ScanShard(t, s) \/ InvalidateShard(t, s)
  BY <1>6 DEF ExpireShard, ScanShard, InvalidateShard
<1> QED
  BY <1>1, <1>2, <1>3, <1>4, <1>5, <1>6 DEF Proceed

\* No mark of a load is stranded, however puts, failed reads and invalidations
\* of one block follow each other.
THEOREM MarksCleared == Spec => []MarksHaveLoaders
<1>1. Init => MarksHaveLoaders
  BY DEF Init, MarksHaveLoaders
<1>2. TypeOK /\ MarksHaveLoaders /\ [Next]_vars => MarksHaveLoaders'
  <2> SUFFICES ASSUME TypeOK, MarksHaveLoaders, [Next]_vars, NEW k \in loading'
               PROVE  \E t \in Threads : pc'[t] \in Loaders /\ job'[t].key = k
    BY DEF MarksHaveLoaders, At
  <2>1. CASE UNCHANGED vars
    BY <2>1 DEF vars, threadVars, MarksHaveLoaders, At
  <2>2. CASE Next
    <3>1. PICK u \in Threads : Start(u) \/ Proceed(u)
      BY <2>2 DEF Next
    <3>2. CASE k \notin loading
      BY <3>1, <3>2, MarkSet DEF Loaders
    <3>3. CASE k \in loading
      <4>1. PICK t \in Threads : pc[t] \in Loaders /\ job[t].key = k
        BY <3>3 DEF MarksHaveLoaders, At
      <4>2. CASE t = u
        BY <3>1, <4>1, <4>2, MarkTaken
      <4>3. CASE t # u
        BY <3>1, <4>1, <4>3, OthersUntouched
      <4> QED
        BY <4>2, <4>3
    <3> QED
      BY <3>2, <3>3
  <2> QED
    BY <2>1, <2>2
<1> QED
  BY <1>1, <1>2, TypeCorrect, PTL DEF Spec

\* The search of a normal user for space evicts no entry of a VIP, even one
\* that took the place of its victim: the kind is read again under the lock.
THEOREM VipsEvictedByVips == Spec => NormalEvictsNoVip
<1>1. ASSUME TypeOK, [Next]_vars, NEW t \in Threads,
             pc[t] = "evict", pc'[t] = "evicted", job[t].kind = "normal"
      PROVE  Stored("vip") \subseteq Stored("vip")'
  <2>1. PICK u \in Threads : Start(u) \/ Proceed(u)
    BY <1>1 DEF Next, vars, threadVars
  <2>2. u = t
    BY <1>1, <2>1, OthersUntouched
  <2>3. Evict(t)
    BY <1>1, <2>1, <2>2
       DEF TypeOK, Start, Admit, ReadMissed, BeginInvalidate, Proceed,
           TryMarkLoading, ReadBlock, CancelLoading, SkipExpiry, BeginExpiry,
           EndExpiry, EraseOld, Pay, Paying, LockEviction, CheckSpace, GiveUp,
           EvictAgain, Insert, Add, ExpireShard, ScanShard, InvalidateShard,
           Goto, Finish
  <2>4. /\ entries[victim[t].key] # "vip"
        /\ entries' = [k \in Keys |-> IF k \in {victim[t].key}
                                      THEN "none" ELSE entries[k]]
    BY <1>1, <2>3 DEF Evict, Protected, Remove
  <2> QED
    BY <2>4 DEF Stored
<1>2. TypeOK /\ [Next]_vars =>
        [\A t \in Threads :
            pc[t] = "evict" /\ pc'[t] = "evicted" /\ job[t].kind = "normal"
                => Stored("vip") \subseteq Stored("vip")']_vars
  BY <1>1
<1> QED
  BY <1>2, TypeCorrect, PTL DEF Spec, NormalEvictsNoVip

=============================================================================
