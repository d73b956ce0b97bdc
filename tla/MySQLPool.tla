------------------------------ MODULE MySQLPool ------------------------------
(***************************************************************************)
(* db::MySQLPool, the connection pool every handler of the master and      *)
(* every timer callback shares.  One action is one critical section of     *)
(* mutex_; returnConnection leaves the mutex while it opens a replacement, *)
(* which is where other threads come in between.                           *)
(*                                                                         *)
(* The pool is modelled from the end of a successful initialize().         *)
(* ConnectionGuard::markBad has no caller in the program, so neither has   *)
(* destroyConnection, and both are left out.                               *)
(***************************************************************************)
EXTENDS Naturals, Sequences, FiniteSets

CONSTANTS
    Threads,            \* threads that ask for connections
    MinConnections,
    MaxConnections

ASSUME MySQLPoolAssumption ==
    /\ IsFiniteSet(Threads)
    /\ MinConnections \in Nat \ {0}
    /\ MaxConnections \in Nat
    /\ MinConnections <= MaxConnections

VARIABLES
    idle,       \* idleConnections_, each "good" or "bad" (fails a ping)
    total,      \* totalConnections_
    pc,         \* what each thread does with the pool
    conn,       \* the connection a thread holds
    mysqlUp,    \* whether mysql_real_connect succeeds
    faulted,    \* whether MySQL ever dropped a connection or went away
    phase       \* "open", then the steps of shutdown()

mysqlVars == <<mysqlUp, faulted>>
vars == <<idle, total, pc, conn, mysqlVars, phase>>

Quality == {"good", "bad"}

TypeOK ==
    /\ idle \in Seq(Quality)
    /\ total \in Nat
    /\ pc \in [Threads -> {"out", "waiting", "woken", "holding",
                           "refilling", "pushing"}]
    /\ conn \in [Threads -> Quality \union {"none"}]
    /\ mysqlUp \in BOOLEAN /\ faulted \in BOOLEAN
    /\ phase \in {"open", "closing", "joining", "closed"}

\* initialize() succeeds with at least one of its minConnections.
Init ==
    /\ \E n \in 1..MinConnections :
          /\ idle = [i \in 1..n |-> "good"]
          /\ total = n
    /\ pc = [t \in Threads |-> "out"]
    /\ conn = [t \in Threads |-> "none"]
    /\ mysqlUp = TRUE /\ faulted = FALSE
    /\ phase = "open"

At(states) == {t \in Threads : pc[t] \in states}

Go(t, state, c) ==
    /\ pc' = [pc EXCEPT ![t] = state]
    /\ conn' = [conn EXCEPT ![t] = c]

-----------------------------------------------------------------------------
(* getConnection.                                                          *)

\* A thread that calls getConnection, or wakes up inside it.
Asking(t) == pc[t] \in {"out", "woken"}

Wait(t) ==
    /\ Asking(t)
    /\ phase = "open"
    /\ idle = <<>>
    /\ total >= MaxConnections
    /\ Go(t, "waiting", "none")
    /\ UNCHANGED <<idle, total, mysqlVars, phase>>

\* A condition variable may wake a thread for no reason.
SpuriousWake(t) ==
    /\ pc[t] = "waiting"
    /\ Go(t, "woken", "none")
    /\ UNCHANGED <<idle, total, mysqlVars, phase>>

Refused(t) ==
    /\ pc[t] = "woken"
    /\ phase # "open"
    /\ Go(t, "out", "none")
    /\ UNCHANGED <<idle, total, mysqlVars, phase>>

\* The head of the queue; one that fails its ping is replaced at once, or
\* the caller gets nothing.
AcquireIdle(t) ==
    /\ Asking(t)
    /\ phase = "open"
    /\ idle # <<>>
    /\ idle' = Tail(idle)
    /\ IF Head(idle) = "good" \/ mysqlUp
       THEN Go(t, "holding", "good") /\ UNCHANGED total
       ELSE Go(t, "out", "none") /\ total' = total - 1
    /\ UNCHANGED <<mysqlVars, phase>>

\* Below the limit: a new connection, opened under the mutex.
AcquireNew(t) ==
    /\ Asking(t)
    /\ phase = "open"
    /\ idle = <<>>
    /\ total < MaxConnections
    /\ IF mysqlUp
       THEN Go(t, "holding", "good") /\ total' = total + 1
       ELSE Go(t, "out", "none") /\ UNCHANGED total
    /\ UNCHANGED <<idle, mysqlVars, phase>>

-----------------------------------------------------------------------------
(* returnConnection, from the destructor of a ConnectionGuard.             *)

\* condition_.notify_one(), by a thread t that leaves the pool.
LeaveAndNotify(t) ==
    IF At({"waiting"}) = {}
    THEN pc' = [pc EXCEPT ![t] = "out"]
    ELSE \E w \in At({"waiting"}) :
            pc' = [pc EXCEPT ![t] = "out", ![w] = "woken"]

\* Mutant of ReturnGood: the push is not followed by notify_one.
ReturnGoodSilently(t) ==
    /\ pc[t] = "holding" /\ conn[t] = "good"
    /\ phase = "open"
    /\ idle' = Append(idle, "good")
    /\ Go(t, "out", "none")
    /\ UNCHANGED <<total, mysqlVars, phase>>

ReturnGood(t) ==
    /\ pc[t] = "holding" /\ conn[t] = "good"
    /\ phase = "open"
    /\ idle' = Append(idle, "good")
    /\ LeaveAndNotify(t)
    /\ conn' = [conn EXCEPT ![t] = "none"]
    /\ UNCHANGED <<total, mysqlVars, phase>>

\* Mutant of ReturnBad: the discarded connection is still counted.
ReturnBadUncounted(t) ==
    /\ pc[t] = "holding" /\ conn[t] = "bad"
    /\ phase = "open"
    /\ Go(t, IF total <= MinConnections THEN "refilling" ELSE "out", "none")
    /\ UNCHANGED <<idle, total, mysqlVars, phase>>

\* A connection that fails its ping is discarded.  Nobody is notified, and
\* below minConnections the thread leaves the mutex to open another.
ReturnBad(t) ==
    /\ pc[t] = "holding" /\ conn[t] = "bad"
    /\ phase = "open"
    /\ total' = total - 1
    /\ Go(t, IF total - 1 < MinConnections THEN "refilling" ELSE "out", "none")
    /\ UNCHANGED <<idle, mysqlVars, phase>>

\* createConnection, outside the mutex.
Refill(t) ==
    /\ pc[t] = "refilling"
    /\ IF mysqlUp THEN Go(t, "pushing", "good") ELSE Go(t, "out", "none")
    /\ UNCHANGED <<idle, total, mysqlVars, phase>>

\* Mutant of PushRefill: the replacement is not counted.
PushRefillUncounted(t) ==
    /\ pc[t] = "pushing"
    /\ idle' = Append(idle, conn[t])
    /\ Go(t, "out", "none")
    /\ UNCHANGED <<total, mysqlVars, phase>>

\* Back under the mutex: the replacement is pushed, whatever the others have
\* made of the pool meanwhile.
PushRefill(t) ==
    /\ pc[t] = "pushing"
    /\ idle' = Append(idle, conn[t])
    /\ total' = total + 1
    /\ Go(t, "out", "none")
    /\ UNCHANGED <<mysqlVars, phase>>

\* After shutdown() began, what is returned is closed.
ReturnClosed(t) ==
    /\ pc[t] = "holding"
    /\ phase # "open"
    /\ total' = total - 1
    /\ Go(t, "out", "none")
    /\ UNCHANGED <<idle, mysqlVars, phase>>

-----------------------------------------------------------------------------
(* The maintenance thread and shutdown().                                  *)

Stale(k) ==
    /\ MinConnections + k <= Len(idle)
    /\ \A i \in 1..k : idle[i] = "bad"

\* Dead connections at the head go, down to minConnections.
Maintain ==
    /\ phase \in {"open", "closing", "joining"}
    /\ \E k \in 1..Len(idle) :
          /\ Stale(k) /\ ~Stale(k + 1)
          /\ idle' = SubSeq(idle, k + 1, Len(idle))
          /\ total' = total - k
    /\ UNCHANGED <<pc, conn, mysqlVars, phase>>

BeginShutdown ==
    /\ phase = "open"
    /\ phase' = "closing"
    /\ UNCHANGED <<idle, total, pc, conn, mysqlVars>>

\* Mutant of WakeAll: shutdown() wakes one waiter only.
WakeOne ==
    /\ phase = "closing"
    /\ phase' = "joining"
    /\ IF At({"waiting"}) = {}
       THEN UNCHANGED pc
       ELSE \E w \in At({"waiting"}) : pc' = [pc EXCEPT ![w] = "woken"]
    /\ UNCHANGED <<idle, total, conn, mysqlVars>>

WakeAll ==
    /\ phase = "closing"
    /\ phase' = "joining"
    /\ pc' = [t \in Threads |-> IF pc[t] = "waiting" THEN "woken" ELSE pc[t]]
    /\ UNCHANGED <<idle, total, conn, mysqlVars>>

\* Once the maintenance thread has been joined the idle connections close.
CloseAll ==
    /\ phase = "joining"
    /\ phase' = "closed"
    /\ idle' = <<>>
    /\ total' = total - Len(idle)
    /\ UNCHANGED <<pc, conn, mysqlVars>>

-----------------------------------------------------------------------------
(* MySQL.                                                                  *)

\* The server closes one connection (wait_timeout, KILL).
DropIdle ==
    /\ \E i \in DOMAIN idle : idle' = [idle EXCEPT ![i] = "bad"]
    /\ faulted' = TRUE
    /\ UNCHANGED <<total, pc, conn, mysqlUp, phase>>

DropHeld(t) ==
    /\ conn[t] = "good"
    /\ conn' = [conn EXCEPT ![t] = "bad"]
    /\ faulted' = TRUE
    /\ UNCHANGED <<idle, total, pc, mysqlUp, phase>>

\* The server goes away, and every connection with it.
ServerStop ==
    /\ mysqlUp
    /\ mysqlUp' = FALSE /\ faulted' = TRUE
    /\ idle' = [i \in DOMAIN idle |-> "bad"]
    /\ conn' = [t \in Threads |-> IF conn[t] = "none" THEN "none" ELSE "bad"]
    /\ UNCHANGED <<total, pc, phase>>

ServerStart ==
    /\ ~mysqlUp
    /\ mysqlUp' = TRUE
    /\ UNCHANGED <<idle, total, pc, conn, faulted, phase>>

-----------------------------------------------------------------------------
Return(t) == ReturnGood(t) \/ ReturnBad(t) \/ ReturnClosed(t)

ThreadStep(t) ==
    \/ Wait(t) \/ SpuriousWake(t) \/ Refused(t)
    \/ AcquireIdle(t) \/ AcquireNew(t) \/ Return(t)
    \/ Refill(t) \/ PushRefill(t)

MySQLFault == DropIdle \/ (\E t \in Threads : DropHeld(t)) \/ ServerStop

MySQLStep == MySQLFault \/ ServerStart

Next ==
    \/ \E t \in Threads : ThreadStep(t)
    \/ Maintain
    \/ BeginShutdown \/ WakeAll \/ CloseAll
    \/ MySQLStep

Spec == Init /\ [][Next]_vars

\* A thread inside a call of the pool gets on with it, a handler gives its
\* connection back, a shutdown that began goes on, and the server returns.
\* No thread has to ask for a connection.
Fairness ==
    /\ \A t \in Threads :
          /\ WF_vars(Return(t) \/ Refill(t) \/ PushRefill(t))
          /\ WF_vars(pc[t] = "woken" /\ ThreadStep(t))
    /\ WF_vars(WakeAll)
    /\ WF_vars(CloseAll)
    /\ WF_vars(ServerStart)

FairSpec == Spec /\ Fairness

-----------------------------------------------------------------------------
(* Safety.                                                                 *)

\* totalConnections_ counts the connections in the queue and in the hands of
\* threads, through failed pings, refills outside the mutex and shutdown; in
\* particular this unsigned counter never wraps below zero.
Accounting == total = Len(idle) + Cardinality(At({"holding"}))

\* Refills overshoot maxConnections only when more threads than that use the
\* pool: connections and refills under way never outnumber both.
OvershootNeedsThreads ==
    \/ total + Cardinality(At({"refilling", "pushing"})) <= MaxConnections
    \/ total + Cardinality(At({"refilling", "pushing"})) <= Cardinality(Threads)

\* As long as MySQL has dropped nothing no wakeup is lost: a thread sleeps in
\* an open pool only if every connection is open already and each idle one is
\* being fetched by a thread that was woken.
NoLostWakeup ==
    ~faulted /\ phase = "open" /\ At({"waiting"}) # {} =>
        /\ total >= MaxConnections
        /\ Len(idle) <= Cardinality(At({"woken"}))

-----------------------------------------------------------------------------
(* Liveness.                                                               *)

\* Nobody sleeps through shutdown(), nor falls asleep after it.
ShutdownReleasesWaiters ==
    phase # "open" ~> [](At({"waiting"}) = {})
=============================================================================
