--------------------------- MODULE MySQLPoolProofs ---------------------------
(***************************************************************************)
(* Theorems about MySQLPool, for any number of threads and any limits.     *)
(***************************************************************************)
EXTENDS MySQLPool, FiniteSetTheorems, SequenceTheorems, TLAPS

\* What adding a thread to a set of threads, or removing one, does to its size.
LEMMA Counting ==
    ASSUME NEW S \in SUBSET Threads, NEW t \in Threads
    PROVE  /\ Cardinality(S) \in Nat
           /\ Cardinality(S \union {t}) =
                 IF t \in S THEN Cardinality(S) ELSE Cardinality(S) + 1
           /\ Cardinality(S \ {t}) =
                 IF t \in S THEN Cardinality(S) - 1 ELSE Cardinality(S)
           /\ t \in S => Cardinality(S) > 0
           /\ Cardinality(S \ {t}) \in Nat
<1>1. IsFiniteSet(S) /\ Cardinality(S) \in Nat
  BY FS_Subset, FS_CardinalityType, MySQLPoolAssumption
<1>2. IsFiniteSet(S \ {t}) /\ Cardinality(S \ {t}) \in Nat
  BY <1>1, FS_RemoveElement, FS_CardinalityType
<1>3. Cardinality(S \ {t}) = IF t \in S THEN Cardinality(S) - 1 ELSE Cardinality(S)
  BY <1>1, FS_RemoveElement
<1>4. Cardinality(S \union {t}) = IF t \in S THEN Cardinality(S) ELSE Cardinality(S) + 1
  BY <1>1, FS_AddElement
<1>5. t \in S => Cardinality(S) > 0
  BY <1>1, <1>2, <1>3
<1> QED
  BY <1>1, <1>2, <1>3, <1>4, <1>5

\* The queue after its first k connections are dropped.
LEMMA Dropped ==
    ASSUME NEW s \in Seq(Quality), NEW k \in Nat, k <= Len(s)
    PROVE  /\ SubSeq(s, k + 1, Len(s)) \in Seq(Quality)
           /\ Len(SubSeq(s, k + 1, Len(s))) = Len(s) - k
<1>1. Len(s) \in Nat /\ \A i \in 1..Len(s) : s[i] \in Quality
  BY LenProperties
<1>2. \A i \in (k + 1)..Len(s) : s[i] \in Quality
  BY <1>1
<1> QED
  BY <1>1, <1>2, SubSeqProperties

-----------------------------------------------------------------------------
(* The counter.  Its type depends on what it counts: it can be decremented *)
(* only because a connection to discard has been counted.                  *)

\* A thread has a connection exactly when it holds one or is to push one.
HandsInv == \A t \in Threads : conn[t] # "none" <=> pc[t] \in {"holding", "pushing"}

CountInv == TypeOK /\ HandsInv /\ Accounting

Holders == At({"holding"})

\* Initially every connection counted is in the queue.
LEMMA CountInit == Init => CountInv
<1> SUFFICES ASSUME Init
             PROVE  CountInv
  OBVIOUS
<1>1. PICK n \in 1..MinConnections : idle = [i \in 1..n |-> "good"] /\ total = n
  BY DEF Init
<1>2. n \in Nat /\ idle \in Seq(Quality) /\ Len(idle) = n
  BY <1>1, MySQLPoolAssumption DEF Quality
<1>3. Holders = {}
  BY DEF Init, Holders, At
<1>4. Accounting
  BY <1>1, <1>2, <1>3, FS_EmptySet DEF Accounting, Holders
<1>5. TypeOK /\ HandsInv
  BY <1>1, <1>2 DEF Init, TypeOK, HandsInv, Quality
<1> QED
  BY <1>4, <1>5 DEF CountInv

\* What a thread does keeps the count.
LEMMA CountThread ==
    ASSUME CountInv, NEW t \in Threads, ThreadStep(t)
    PROVE  CountInv'
<1> USE DEF CountInv, TypeOK, HandsInv, Accounting, mysqlVars
<1> DEFINE N == Cardinality(Holders)
<1>1. Holders \in SUBSET Threads
  BY DEF Holders, At
<1>2. /\ N \in Nat
      /\ Cardinality(Holders \union {t}) = IF t \in Holders THEN N ELSE N + 1
      /\ Cardinality(Holders \ {t}) = IF t \in Holders THEN N - 1 ELSE N
      /\ t \in Holders => N > 0
  BY <1>1, Counting
<1>3. Len(idle) \in Nat /\ total = Len(idle) + N
  BY LenProperties DEF Holders
<1>4. ASSUME pc'[t] = "holding", pc[t] # "holding",
             \A s \in Threads \ {t} : pc'[s] = "holding" <=> pc[s] = "holding"
      PROVE  Cardinality(Holders') = N + 1
  <2>1. Holders' = Holders \union {t} /\ t \notin Holders
    BY <1>4 DEF Holders, At
  <2> QED
    BY <2>1, <1>2
<1>5. ASSUME pc'[t] # "holding", pc[t] = "holding",
             \A s \in Threads \ {t} : pc'[s] = "holding" <=> pc[s] = "holding"
      PROVE  Cardinality(Holders') = N - 1 /\ N > 0
  <2>1. Holders' = Holders \ {t} /\ t \in Holders
    BY <1>5 DEF Holders, At
  <2> QED
    BY <2>1, <1>2
<1>6. ASSUME \A s \in Threads : pc'[s] = "holding" <=> pc[s] = "holding"
      PROVE  Cardinality(Holders') = N
  <2>1. Holders' = Holders
    BY <1>6 DEF Holders, At
  <2> QED
    BY <2>1
<1>7. CASE Wait(t)
  BY <1>7, <1>3, <1>6 DEF Wait, Asking, Go, Holders
<1>8. CASE SpuriousWake(t)
  BY <1>8, <1>3, <1>6 DEF SpuriousWake, Go, Holders
<1>9. CASE Refused(t)
  BY <1>9, <1>3, <1>6 DEF Refused, Go, Holders
<1>10. CASE AcquireIdle(t)
  <2>1. Tail(idle) \in Seq(Quality) /\ Len(Tail(idle)) = Len(idle) - 1 /\ Len(idle) > 0
    BY <1>10, <1>3, HeadTailProperties, EmptySeq DEF AcquireIdle
  <2>2. CASE Head(idle) = "good" \/ mysqlUp
    <3>1. Cardinality(Holders') = N + 1
      BY <1>10, <2>2, <1>4 DEF AcquireIdle, Asking, Go
    <3>2. Accounting'
      BY <1>10, <2>1, <2>2, <1>2, <1>3, <3>1 DEF AcquireIdle, Holders
    <3>3. TypeOK' /\ HandsInv'
      BY <1>10, <2>1, <2>2 DEF AcquireIdle, Asking, Go, Quality
    <3> QED
      BY <3>2, <3>3
  <2>3. CASE ~(Head(idle) = "good" \/ mysqlUp)
    <3>1. Cardinality(Holders') = N
      BY <1>10, <2>3, <1>6 DEF AcquireIdle, Asking, Go
    <3>2. total' \in Nat /\ Accounting'
      BY <1>10, <2>1, <2>3, <1>2, <1>3, <3>1 DEF AcquireIdle, Holders
    <3>3. TypeOK' /\ HandsInv'
      BY <1>10, <2>1, <2>3, <3>2 DEF AcquireIdle, Asking, Go
    <3> QED
      BY <3>2, <3>3
  <2> QED
    BY <2>2, <2>3
<1>11. CASE AcquireNew(t)
  <2>1. CASE mysqlUp
    BY <1>11, <2>1, <1>2, <1>3, <1>4 DEF AcquireNew, Asking, Go, Holders, Quality
  <2>2. CASE ~mysqlUp
    BY <1>11, <2>2, <1>3, <1>6 DEF AcquireNew, Asking, Go, Holders
  <2> QED
    BY <2>1, <2>2
<1>12. CASE ReturnGood(t)
  <2>1. Append(idle, "good") \in Seq(Quality)
        /\ Len(Append(idle, "good")) = Len(idle) + 1
    BY <1>3 DEF Quality
  <2>2. CASE At({"waiting"}) = {}
    <3>1. pc' = [pc EXCEPT ![t] = "out"]
      BY <1>12, <2>2 DEF ReturnGood, LeaveAndNotify
    <3>2. Cardinality(Holders') = N - 1 /\ N > 0
      BY <3>1, <1>12, <1>5 DEF ReturnGood
    <3>3. Accounting'
      BY <1>12, <2>1, <3>2, <1>2, <1>3 DEF ReturnGood, Holders
    <3>4. TypeOK' /\ HandsInv'
      BY <1>12, <2>1, <3>1 DEF ReturnGood
    <3> QED
      BY <3>3, <3>4
  <2>3. CASE At({"waiting"}) # {}
    <3>1. PICK w \in At({"waiting"}) :
                 pc' = [pc EXCEPT ![t] = "out", ![w] = "woken"]
      BY <1>12, <2>3 DEF ReturnGood, LeaveAndNotify
    <3>2. w \in Threads /\ w # t /\ pc[w] = "waiting"
      BY <3>1, <1>12 DEF At, ReturnGood
    <3>3. Cardinality(Holders') = N - 1 /\ N > 0
      BY <3>1, <3>2, <1>12, <1>5 DEF ReturnGood
    <3>4. Accounting'
      BY <1>12, <2>1, <3>3, <1>2, <1>3 DEF ReturnGood, Holders
    <3>5. TypeOK' /\ HandsInv'
      BY <1>12, <2>1, <3>1, <3>2 DEF ReturnGood
    <3> QED
      BY <3>4, <3>5
  <2> QED
    BY <2>2, <2>3
<1>13. CASE ReturnBad(t)
  BY <1>13, <1>2, <1>3, <1>5 DEF ReturnBad, Go, Holders
<1>14. CASE ReturnClosed(t)
  BY <1>14, <1>2, <1>3, <1>5 DEF ReturnClosed, Go, Holders
<1>15. CASE Refill(t)
  BY <1>15, <1>3, <1>6 DEF Refill, Go, Holders, Quality
<1>16. CASE PushRefill(t)
  <2>1. Append(idle, conn[t]) \in Seq(Quality)
        /\ Len(Append(idle, conn[t])) = Len(idle) + 1
    BY <1>16, <1>3 DEF PushRefill
  <2>2. Cardinality(Holders') = N
    BY <1>16, <1>6 DEF PushRefill, Go
  <2>3. Accounting'
    BY <1>16, <2>1, <2>2, <1>2, <1>3 DEF PushRefill, Holders
  <2>4. TypeOK' /\ HandsInv'
    BY <1>16, <2>1 DEF PushRefill, Go
  <2> QED
    BY <2>3, <2>4
<1> QED
  BY <1>7, <1>8, <1>9, <1>10, <1>11, <1>12, <1>13, <1>14, <1>15, <1>16
     DEF ThreadStep, Return

\* So do maintenance, shutdown and whatever befalls MySQL.
LEMMA CountStep == CountInv /\ [Next]_vars => CountInv'
<1> SUFFICES ASSUME CountInv, [Next]_vars
             PROVE  CountInv'
  OBVIOUS
<1> USE DEF CountInv, TypeOK, HandsInv, Accounting, mysqlVars
<1>1. /\ Cardinality(At({"holding"})) \in Nat
      /\ Len(idle) \in Nat
      /\ \A i \in 1..Len(idle) : idle[i] \in Quality
      /\ DOMAIN idle = 1..Len(idle)
  <2>1. At({"holding"}) \in SUBSET Threads
    BY DEF At
  <2>2. IsFiniteSet(At({"holding"}))
    BY <2>1, FS_Subset, MySQLPoolAssumption
  <2> QED
    BY <2>2, FS_CardinalityType, LenProperties
<1>2. ASSUME NEW t \in Threads, ThreadStep(t)
      PROVE  CountInv'
  BY <1>2, CountThread
<1>3. CASE Maintain
  <2>1. PICK k \in 1..Len(idle) :
            /\ Stale(k)
            /\ idle' = SubSeq(idle, k + 1, Len(idle))
            /\ total' = total - k
    BY <1>3 DEF Maintain
  <2>2. idle \in Seq(Quality) /\ k \in Nat /\ k <= Len(idle)
    BY <1>1
  <2>3. idle' \in Seq(Quality) /\ Len(idle') = Len(idle) - k
    <3> HIDE DEF CountInv, TypeOK, HandsInv, Accounting
    <3>1. /\ SubSeq(idle, k + 1, Len(idle)) \in Seq(Quality)
          /\ Len(SubSeq(idle, k + 1, Len(idle))) = Len(idle) - k
      BY <2>2, Dropped
    <3> QED
      BY <2>1, <3>1
  <2>4. UNCHANGED <<pc, conn, mysqlVars, phase>>
    BY <1>3 DEF Maintain
  <2>5. At({"holding"})' = At({"holding"})
    BY <2>4 DEF At
  <2>6. total' = Len(idle') + Cardinality(At({"holding"}))
    <3>1. total = Len(idle) + Cardinality(At({"holding"})) /\ total' = total - k
      BY <2>1
    <3> HIDE DEF CountInv, TypeOK, HandsInv, Accounting
    <3> QED
      BY <3>1, <2>2, <2>3, <1>1
  <2>7. Len(idle') \in Nat
    BY <2>3, LenProperties
  <2> QED
    BY <2>3, <2>4, <2>5, <2>6, <2>7, <1>1
<1>4. CASE BeginShutdown
  BY <1>4 DEF BeginShutdown, At
<1>5. CASE WakeAll
  <2>1. At({"holding"})' = At({"holding"})
    BY <1>5 DEF WakeAll, At
  <2> QED
    BY <1>5, <2>1 DEF WakeAll
<1>6. CASE CloseAll
  <2>1. idle' \in Seq(Quality) /\ Len(idle') = 0
    BY <1>6, EmptySeq DEF CloseAll
  <2> QED
    BY <1>6, <2>1, <1>1 DEF CloseAll, At
<1>7. CASE DropIdle
  <2>1. idle' \in Seq(Quality) /\ Len(idle') = Len(idle)
    BY <1>7, <1>1 DEF DropIdle, Quality
  <2> QED
    BY <1>7, <2>1 DEF DropIdle, At
<1>8. ASSUME NEW t \in Threads, DropHeld(t)
      PROVE  CountInv'
  BY <1>8 DEF DropHeld, At, Quality
<1>9. CASE ServerStop
  <2>1. idle' \in Seq(Quality) /\ Len(idle') = Len(idle)
    BY <1>9, <1>1 DEF ServerStop, Quality
  <2> QED
    BY <1>9, <2>1 DEF ServerStop, At, Quality
<1>10. CASE ServerStart
  BY <1>10 DEF ServerStart, At
<1>11. CASE UNCHANGED vars
  BY <1>11 DEF vars, At
<1> QED
  BY <1>2, <1>3, <1>4, <1>5, <1>6, <1>7, <1>8, <1>9, <1>10, <1>11
     DEF Next, MySQLStep, MySQLFault

\* The queue holds connections, the count is a number, and a thread is in one
\* of the calls of the pool, for any number of threads.
THEOREM TypeCorrect == Spec => []TypeOK
<1>1. CountInv => TypeOK
  BY DEF CountInv
<1> QED
  BY <1>1, CountInit, CountStep, PTL DEF Spec

\* The counter of the pool is never wrong and never wraps below zero, for any
\* number of threads, whatever fails.
THEOREM ConnectionsAccounted == Spec => []Accounting
<1>1. CountInv => Accounting
  BY DEF CountInv
<1> QED
  BY <1>1, CountInit, CountStep, PTL DEF Spec

-----------------------------------------------------------------------------
(* Overshoot.  A refill under way stands for the connection that was        *)
(* discarded, so that only a new connection adds to the sum; and then the   *)
(* queue is empty: whatever is counted or being refilled is in the hands of *)
(* a thread of its own.                                                     *)

Refillers == At({"refilling", "pushing"})

LEMMA OvershootThread ==
    ASSUME CountInv, OvershootNeedsThreads, NEW t \in Threads, ThreadStep(t)
    PROVE  OvershootNeedsThreads'
<1> DEFINE R == Cardinality(Refillers)
<1>1. Refillers \in SUBSET Threads /\ Holders \in SUBSET Threads
  BY DEF Refillers, Holders, At
<1>2. /\ R \in Nat
      /\ Cardinality(Refillers \union {t}) = IF t \in Refillers THEN R ELSE R + 1
      /\ Cardinality(Refillers \ {t}) = IF t \in Refillers THEN R - 1 ELSE R
  BY <1>1, Counting
<1>3. /\ total \in Nat /\ Cardinality(Threads) \in Nat
      /\ MaxConnections \in Nat
      /\ \/ total + R <= MaxConnections
         \/ total + R <= Cardinality(Threads)
  BY FS_CardinalityType, MySQLPoolAssumption
     DEF CountInv, TypeOK, OvershootNeedsThreads, Refillers
<1> DEFINE Outcome == total' + Cardinality(Refillers') <= total + R
<1>4. ASSUME Outcome, total' \in Nat, Cardinality(Refillers') \in Nat
      PROVE  OvershootNeedsThreads'
  BY <1>2, <1>3, <1>4 DEF OvershootNeedsThreads, Refillers
<1>5. total' \in Nat /\ Cardinality(Refillers') \in Nat
  <2>1. CountInv'
    BY CountThread
  <2>2. Refillers' \subseteq Threads
    BY DEF Refillers, At
  <2> QED
    BY <2>1, <2>2, FS_Subset, FS_CardinalityType, MySQLPoolAssumption
       DEF CountInv, TypeOK
<1> USE DEF CountInv, TypeOK
<1>6. ASSUME \A s \in Threads : pc'[s] \in {"refilling", "pushing"}
                                    <=> pc[s] \in {"refilling", "pushing"}
      PROVE  Refillers' = Refillers
  BY <1>6 DEF Refillers, At
<1>7. CASE Wait(t) \/ SpuriousWake(t) \/ Refused(t) \/ AcquireIdle(t)
  <2>1. \A s \in Threads : pc'[s] \in {"refilling", "pushing"}
                              <=> pc[s] \in {"refilling", "pushing"}
    BY <1>7 DEF Wait, SpuriousWake, Refused, AcquireIdle, Asking, Go
  <2>2. total' <= total
    BY <1>7, <1>3 DEF Wait, SpuriousWake, Refused, AcquireIdle
  <2> QED
    BY <1>2, <1>3, <1>4, <1>5, <1>6, <2>1, <2>2
<1>8. CASE AcquireNew(t)
  <2>1. Refillers' = Refillers
    <3>1. \A s \in Threads : pc'[s] \in {"refilling", "pushing"}
                                <=> pc[s] \in {"refilling", "pushing"}
      BY <1>8 DEF AcquireNew, Asking, Go
    <3> QED
      BY <1>6, <3>1
  <2>2. CASE total' = total
    BY <1>2, <1>3, <1>4, <1>5, <2>1, <2>2
  <2>3. CASE total' # total
    <3>1. total' = total + 1 /\ pc' = [pc EXCEPT ![t] = "holding"] /\ idle = <<>>
      BY <1>8, <2>3 DEF AcquireNew, Go
    <3>2. t \notin Holders /\ t \notin Refillers
      BY <1>8 DEF AcquireNew, Asking, Holders, Refillers, At
    <3>3. total = Cardinality(Holders)
      <4>1. /\ Len(idle) = 0 /\ Cardinality(Holders) \in Nat
            /\ total = Len(idle) + Cardinality(Holders)
        BY <1>1, <3>1, Counting, EmptySeq DEF Accounting, Holders
      <4> QED
        BY <4>1
    <3>4. /\ IsFiniteSet(Holders) /\ IsFiniteSet(Refillers)
          /\ Holders \intersect Refillers = {}
      BY <1>1, FS_Subset, MySQLPoolAssumption DEF Holders, Refillers, At
    <3>5. Cardinality(Holders \union Refillers) = total + R
      <4>1. /\ Cardinality(Holders \union Refillers)
                  = Cardinality(Holders) + R - Cardinality(Holders \intersect Refillers)
            /\ Cardinality(Holders \intersect Refillers) = 0
        BY <3>4, FS_Union, FS_EmptySet
      <4> HIDE DEF R
      <4> QED
        BY <3>3, <4>1, <1>2, <1>3
    <3>6. /\ Cardinality((Holders \union Refillers) \union {t}) = total + R + 1
          /\ (Holders \union Refillers) \union {t} \subseteq Threads
      <4>1. Holders \union Refillers \in SUBSET Threads /\ t \notin Holders \union Refillers
        BY <1>1, <3>2
      <4> QED
        BY <3>5, <4>1, Counting
    <3>7. total + R + 1 <= Cardinality(Threads)
      BY <3>6, FS_Subset, MySQLPoolAssumption
    <3> QED
      BY <1>2, <1>3, <2>1, <3>1, <3>7 DEF OvershootNeedsThreads, Refillers
  <2> QED
    BY <2>2, <2>3
<1>9. CASE ReturnGood(t)
  <2>1. \A s \in Threads : pc'[s] \in {"refilling", "pushing"}
                              <=> pc[s] \in {"refilling", "pushing"}
    BY <1>9 DEF ReturnGood, LeaveAndNotify, At
  <2>2. total' = total
    BY <1>9 DEF ReturnGood
  <2> QED
    BY <1>2, <1>3, <1>4, <1>5, <1>6, <2>1, <2>2
<1>10. CASE ReturnBad(t)
  <2>1. /\ total' = total - 1 /\ pc[t] = "holding"
        /\ \/ pc' = [pc EXCEPT ![t] = "refilling"]
           \/ pc' = [pc EXCEPT ![t] = "out"]
    BY <1>10 DEF ReturnBad, Go
  <2>2. Refillers' \subseteq Refillers \union {t} /\ t \notin Refillers
    BY <2>1 DEF Refillers, At
  <2>3. Cardinality(Refillers') <= R + 1
    <3>1. IsFiniteSet(Refillers \union {t})
      BY <1>1, FS_Subset, FS_AddElement, MySQLPoolAssumption
    <3>2. Cardinality(Refillers') <= Cardinality(Refillers \union {t})
      BY <2>2, <3>1, FS_Subset
    <3> QED
      BY <1>2, <2>2, <3>2
  <2> QED
    BY <1>2, <1>3, <1>4, <1>5, <2>1, <2>3
<1>11. CASE ReturnClosed(t)
  <2>1. \A s \in Threads : pc'[s] \in {"refilling", "pushing"}
                              <=> pc[s] \in {"refilling", "pushing"}
    BY <1>11 DEF ReturnClosed, Go
  <2>2. total' = total - 1
    BY <1>11 DEF ReturnClosed
  <2> QED
    BY <1>2, <1>3, <1>4, <1>5, <1>6, <2>1, <2>2
<1>12. CASE Refill(t)
  <2>1. Refillers' \subseteq Refillers /\ total' = total
    BY <1>12 DEF Refill, Go, Refillers, At
  <2>2. Cardinality(Refillers') <= R
    BY <1>1, <2>1, FS_Subset, MySQLPoolAssumption
  <2> QED
    BY <1>2, <1>3, <1>4, <1>5, <2>1, <2>2
<1>13. CASE PushRefill(t)
  <2>1. /\ total' = total + 1 /\ pc[t] = "pushing"
        /\ pc' = [pc EXCEPT ![t] = "out"]
    BY <1>13 DEF PushRefill, Go
  <2>2. Refillers' = Refillers \ {t} /\ t \in Refillers
    BY <2>1 DEF Refillers, At
  <2>3. Cardinality(Refillers') = R - 1
    BY <1>2, <2>2
  <2> QED
    BY <1>2, <1>3, <1>4, <1>5, <2>1, <2>3
<1> QED
  BY <1>7, <1>8, <1>9, <1>10, <1>11, <1>12, <1>13 DEF ThreadStep, Return

LEMMA OvershootStep ==
    CountInv /\ OvershootNeedsThreads /\ [Next]_vars => OvershootNeedsThreads'
<1> SUFFICES ASSUME CountInv, OvershootNeedsThreads, [Next]_vars
             PROVE  OvershootNeedsThreads'
  OBVIOUS
<1>1. ASSUME NEW t \in Threads, ThreadStep(t)
      PROVE  OvershootNeedsThreads'
  BY <1>1, OvershootThread
<1>2. ASSUME total' \in Nat, total' <= total, Refillers' = Refillers
      PROVE  OvershootNeedsThreads'
  <2>1. Refillers \in SUBSET Threads
    BY DEF Refillers, At
  <2>2. /\ total \in Nat /\ Cardinality(Threads) \in Nat /\ MaxConnections \in Nat
        /\ Cardinality(Refillers) \in Nat
    BY <2>1, FS_Subset, FS_CardinalityType, MySQLPoolAssumption DEF CountInv, TypeOK
  <2> QED
    BY <1>2, <2>2 DEF OvershootNeedsThreads, Refillers
<1>3. total' \in Nat
  BY CountStep DEF CountInv, TypeOK
<1>4. total \in Nat /\ Len(idle) \in Nat
  BY LenProperties DEF CountInv, TypeOK
<1>5. CASE Maintain \/ BeginShutdown \/ WakeAll \/ CloseAll
  <2>1. total' <= total
    BY <1>4, <1>5 DEF Maintain, BeginShutdown, WakeAll, CloseAll
  <2>2. Refillers' = Refillers
    BY <1>5 DEF Maintain, BeginShutdown, WakeAll, CloseAll, Refillers, At, CountInv, TypeOK
  <2> QED
    BY <1>2, <1>3, <2>1, <2>2
<1>6. CASE MySQLStep \/ UNCHANGED vars
  <2>1. total' = total /\ pc' = pc
    BY <1>6 DEF MySQLStep, MySQLFault, DropIdle, DropHeld, ServerStop, ServerStart, vars
  <2> QED
    BY <1>2, <1>3, <1>4, <2>1 DEF Refillers, At
<1> QED
  BY <1>1, <1>5, <1>6 DEF Next

\* Refills take the pool past its maximum only when more threads than that use
\* it, for any number of threads and any limits.
THEOREM OvershootLimited == Spec => []OvershootNeedsThreads
<1>1. Init => OvershootNeedsThreads
  <2> SUFFICES ASSUME Init PROVE OvershootNeedsThreads
    OBVIOUS
  <2>1. At({"refilling", "pushing"}) = {}
    BY DEF Init, At
  <2>2. total \in Nat /\ total <= MaxConnections
    BY MySQLPoolAssumption DEF Init
  <2> QED
    BY <2>1, <2>2, FS_EmptySet, MySQLPoolAssumption DEF OvershootNeedsThreads
<1> QED
  BY <1>1, CountInit, CountStep, OvershootStep, PTL DEF Spec

-----------------------------------------------------------------------------
(* Wakeups, as long as connections have not failed.                        *)

HealthyInv ==
    /\ mysqlUp
    /\ \A i \in 1..Len(idle) : idle[i] = "good"
    /\ \A t \in Threads : /\ conn[t] # "bad"
                          /\ pc[t] \notin {"refilling", "pushing"}

WakeupInv == HealthyInv /\ NoLostWakeup

CalmInv == ~faulted => WakeupInv

\* What a thread does loses no wakeup.
LEMMA WakeupThread ==
    ASSUME CountInv, ~faulted, WakeupInv, NEW t \in Threads, ThreadStep(t)
    PROVE  WakeupInv'
<1> USE DEF CountInv, TypeOK, HandsInv, WakeupInv, HealthyInv, NoLostWakeup,
            mysqlVars
<1> DEFINE W == At({"woken"})
           S == At({"waiting"})
           N == Cardinality(W)
<1>1. W \in SUBSET Threads
  BY DEF At
<1>2. /\ N \in Nat
      /\ Cardinality(W \ {t}) = IF t \in W THEN N - 1 ELSE N
      /\ Cardinality(W \ {t}) \in Nat
      /\ t \in W => N > 0
      /\ \A s \in Threads : Cardinality(W \union {s}) = IF s \in W THEN N ELSE N + 1
  BY <1>1, Counting
<1>3. /\ Len(idle) \in Nat
      /\ total \in Nat
      /\ MaxConnections \in Nat
  BY LenProperties, MySQLPoolAssumption
<1>4. CASE Wait(t)
  <2>1. HealthyInv'
    BY <1>4 DEF Wait, Asking, Go
  <2>2. Len(idle') = 0 /\ total' >= MaxConnections
    BY <1>4, EmptySeq DEF Wait
  <2>3. Cardinality(W') \in Nat
    <3>1. W' = W \ {t}
      BY <1>4 DEF Wait, Asking, Go, At
    <3> QED
      BY <3>1, <1>2
  <2> QED
    BY <2>1, <2>2, <2>3
<1>5. CASE SpuriousWake(t)
  <2>1. HealthyInv'
    BY <1>5 DEF SpuriousWake, Go
  <2>2. W' = W \union {t} /\ t \notin W /\ S # {}
    BY <1>5 DEF SpuriousWake, Go, At
  <2>3. Cardinality(W') = N + 1
    BY <2>2, <1>2
  <2> QED
    BY <1>5, <2>1, <2>2, <2>3, <1>2, <1>3 DEF SpuriousWake
<1>6. CASE Refused(t)
  BY <1>6 DEF Refused, Go
<1>7. CASE AcquireIdle(t)
  <2>1. /\ Tail(idle) \in Seq(Quality)
        /\ Len(Tail(idle)) = Len(idle) - 1
        /\ \A i \in 1..Len(Tail(idle)) : Tail(idle)[i] = idle[i + 1]
    BY <1>7, HeadTailProperties DEF AcquireIdle
  <2>2. Go(t, "holding", "good") /\ UNCHANGED <<total, mysqlVars>> /\ idle' = Tail(idle)
    BY <1>7 DEF AcquireIdle
  <2>3. HealthyInv'
    BY <2>1, <2>2, <1>3 DEF Go
  <2>4. S' = S
    BY <1>7, <2>2 DEF AcquireIdle, Asking, Go, At
  <2>5. W' = W \ {t}
    BY <1>7, <2>2 DEF AcquireIdle, Asking, Go, At
  <2>6. /\ Cardinality(W') = IF t \in W THEN N - 1 ELSE N
        /\ Cardinality(W') \in Nat
    BY <2>5, <1>2
  <2>7. phase' = "open" /\ S' # {} => Len(idle') <= Cardinality(W')
    BY <1>7, <2>1, <2>2, <2>4, <2>6, <1>2, <1>3 DEF AcquireIdle
  <2> QED
    BY <1>7, <2>2, <2>3, <2>4, <2>7 DEF AcquireIdle
<1>8. CASE AcquireNew(t)
  <2>1. HealthyInv'
    BY <1>8 DEF AcquireNew, Go
  <2>2. S = {}
    BY <1>8, <1>3 DEF AcquireNew
  <2>3. S' = {}
    BY <1>8, <2>2 DEF AcquireNew, Go, At
  <2> QED
    BY <2>1, <2>3
<1>9. CASE ReturnGood(t)
  <2>1. /\ Len(Append(idle, "good")) = Len(idle) + 1
        /\ \A i \in 1..Len(idle) : Append(idle, "good")[i] = idle[i]
        /\ Append(idle, "good")[Len(idle) + 1] = "good"
    BY <1>3 DEF Quality
  <2>2. \A i \in 1..Len(idle') : idle'[i] = "good"
    BY <1>9, <2>1, <1>3 DEF ReturnGood
  <2>3. CASE S = {}
    <3>1. pc' = [pc EXCEPT ![t] = "out"]
      BY <1>9, <2>3 DEF ReturnGood, LeaveAndNotify
    <3>2. HealthyInv'
      BY <1>9, <2>2, <3>1 DEF ReturnGood
    <3>3. S' = {}
      BY <3>1, <2>3 DEF At
    <3> QED
      BY <3>2, <3>3
  <2>4. CASE S # {}
    <3>1. PICK w \in S : pc' = [pc EXCEPT ![t] = "out", ![w] = "woken"]
      BY <1>9, <2>4 DEF ReturnGood, LeaveAndNotify
    <3>2. w \in Threads /\ w # t /\ pc[w] = "waiting" /\ w \notin W
      BY <3>1, <1>9 DEF At, ReturnGood
    <3>3. HealthyInv'
      BY <1>9, <2>2, <3>1, <3>2 DEF ReturnGood
    <3>4. W' = W \union {w}
      BY <1>9, <3>1, <3>2 DEF At, ReturnGood
    <3>5. Cardinality(W') = N + 1
      BY <3>2, <3>4, <1>2
    <3> QED
      BY <1>9, <2>1, <2>4, <3>3, <3>5, <1>2, <1>3 DEF ReturnGood
  <2> QED
    BY <2>3, <2>4
<1>10. CASE ReturnClosed(t)
  BY <1>10 DEF ReturnClosed, Go
<1>11. ~ReturnBad(t) /\ ~Refill(t) /\ ~PushRefill(t)
  BY DEF ReturnBad, Refill, PushRefill
<1> QED
  BY <1>4, <1>5, <1>6, <1>7, <1>8, <1>9, <1>10, <1>11 DEF ThreadStep, Return

\* Nor does any other step while connections do not fail.
LEMMA WakeupStep == CountInv /\ CalmInv /\ [Next]_vars => CalmInv'
<1> SUFFICES ASSUME CountInv, CalmInv, [Next]_vars, ~faulted'
             PROVE  WakeupInv'
  BY DEF CalmInv
<1>a. ~faulted /\ ~MySQLFault
  <2>1. MySQLFault => faulted'
    BY DEF MySQLFault, DropIdle, DropHeld, ServerStop
  <2>2. ~MySQLFault => UNCHANGED faulted
    <3>1. \A t \in Threads : ThreadStep(t) => UNCHANGED faulted
      BY DEF ThreadStep, Wait, SpuriousWake, Refused, AcquireIdle, AcquireNew,
             Return, ReturnGood, ReturnBad, ReturnClosed, Refill, PushRefill,
             mysqlVars
    <3>2. Maintain \/ BeginShutdown \/ WakeAll \/ CloseAll \/ ServerStart
             => UNCHANGED faulted
      BY DEF Maintain, BeginShutdown, WakeAll, CloseAll, ServerStart, mysqlVars
    <3> QED
      BY <3>1, <3>2 DEF Next, MySQLStep, vars, mysqlVars
  <2> QED
    BY <2>1, <2>2 DEF CountInv, TypeOK
<1>b. WakeupInv
  BY <1>a DEF CalmInv
<1> USE <1>b DEF WakeupInv, HealthyInv, NoLostWakeup, mysqlVars
<1>1. ASSUME NEW t \in Threads, ThreadStep(t)
      PROVE  WakeupInv'
  BY <1>1, <1>a, WakeupThread
<1>2. ~Maintain
  <2> SUFFICES ASSUME NEW k \in 1..Len(idle), Stale(k)
               PROVE  FALSE
    BY DEF Maintain
  <2>1. 1 \in 1..k /\ 1 \in 1..Len(idle)
    BY LenProperties DEF CountInv, TypeOK
  <2> QED
    BY <2>1 DEF Stale
<1>3. CASE BeginShutdown
  BY <1>3 DEF BeginShutdown
<1>4. CASE WakeAll
  BY <1>4 DEF WakeAll
<1>5. CASE CloseAll
  BY <1>5, EmptySeq DEF CloseAll
<1>6. ~MySQLStep
  BY <1>a DEF MySQLStep, MySQLFault, ServerStart
<1>7. CASE UNCHANGED vars
  BY <1>7 DEF vars, At
<1> QED
  BY <1>1, <1>2, <1>3, <1>4, <1>5, <1>6, <1>7 DEF Next

\* As long as MySQL has dropped no connection no wakeup is lost, for any
\* number of threads and any limits: returnConnection notifies once for each
\* connection it queues, and getConnection takes one for each wakeup.
THEOREM NoWakeupLost == Spec => []NoLostWakeup
<1>1. Init => CalmInv
  <2> SUFFICES ASSUME Init
               PROVE  WakeupInv
    BY DEF CalmInv
  <2>1. PICK n \in 1..MinConnections : idle = [i \in 1..n |-> "good"]
    BY DEF Init
  <2>2. Len(idle) = n
    BY <2>1, MySQLPoolAssumption
  <2>3. At({"waiting"}) = {}
    BY DEF Init, At
  <2> QED
    BY <2>1, <2>2, <2>3 DEF Init, WakeupInv, HealthyInv, NoLostWakeup
<1>2. CalmInv => NoLostWakeup
  BY DEF CalmInv, WakeupInv, NoLostWakeup
<1>3. CountInv /\ CalmInv /\ [Next]_vars => CalmInv'
  BY WakeupStep
<1> QED
  BY <1>1, <1>2, <1>3, CountInit, CountStep, PTL DEF Spec

=============================================================================
