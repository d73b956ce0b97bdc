------------------------------- MODULE Collector -------------------------------
(***************************************************************************)
(* How the master collects purged rows: each round takes the first rows of *)
(* the table, up to a limit, and starts a task for each of them, which     *)
(* connects to the DataNode, asks it to delete the file and removes the    *)
(* row.  FileLifecycle has the contents, the references and the races with *)
(* uploads; here are the limit, the connections and the timeout.           *)
(*                                                                         *)
(* The rounds and the tasks run in one event loop, so a round is one step; *)
(* what the others do meanwhile counts from the next round on.             *)
(***************************************************************************)
EXTENDS Naturals, FiniteSets

CONSTANTS
    Rows,           \* ids, in the order in which the table is read
    Nodes, NodeOf,
    Lost,           \* nodes that never return once they have stopped
    Limit,          \* rows of a round
    MaxTasks        \* bound: tasks of a row at a time

ASSUME CollectorAssumption ==
    /\ Rows \subseteq Nat
    /\ NodeOf \in [Rows -> Nodes]
    /\ Lost \subseteq Nodes
    /\ Limit \in Nat \ {0}
    /\ MaxTasks \in Nat \ {0}

VARIABLES
    row,            \* "kept", "purged" (is_deleted = 2) or "gone"
    task,           \* the tasks of each row
    up,             \* nodes that run
    alive           \* nodes the master takes to be online

vars == <<row, task, up, alive>>

Tasks == Rows \X (1..MaxTasks)
Node(t) == NodeOf[t[1]]

\* "late" after the timeout of five seconds, and "expired" when the token is.
NoTask == [at |-> "none", age |-> "expired"]
Started == [at |-> "connecting", age |-> "new"]

TypeOK ==
    /\ row \in [Rows -> {"kept", "purged", "gone"}]
    /\ task \in [Tasks -> [at: {"none", "connecting", "open", "answered"},
                           age: {"new", "late", "expired"}]]
    /\ \A t \in Tasks : task[t].at = "none" => task[t] = NoTask
    /\ up \subseteq Nodes
    /\ alive \subseteq Nodes

Init ==
    /\ row = [r \in Rows |-> "kept"]
    /\ task = [t \in Tasks |-> NoTask]
    /\ up = Nodes
    /\ alive = Nodes

Purged == {r \in Rows : row[r] = "purged"}

-----------------------------------------------------------------------------
(* The users, and processGarbageCollection.                                *)

\* handleHardDelete, handleBatchHardDelete, processExpiredRecycleBin
Purge(r) ==
    /\ row[r] = "kept"
    /\ row' = [row EXCEPT ![r] = "purged"]
    /\ UNCHANGED <<task, up, alive>>

\* LIMIT, in the order of the table.
First(S) == {r \in S : Cardinality({s \in S : s < r}) < Limit}

\* Mutant of Online: the round ends at the first row of a node that is offline.
OnlineBefore(S) == {r \in S : \A s \in S : s <= r => NodeOf[s] \in alive}

\* Rows of nodes that are offline are passed over.
Online(S) == {r \in S : NodeOf[r] \in alive}

\* At the bound on tasks a row is skipped; its tasks are under way.
Starts(t, S) ==
    /\ t[1] \in S
    /\ task[t].at = "none"
    /\ \A k \in 1..MaxTasks : k < t[2] => task[<<t[1], k>>].at # "none"

\* The rows of files that are still used, or whose references cannot be counted,
\* are removed at once.
Round(used) ==
    LET S == Online(First(Purged) \ used)
    IN /\ row' = [r \in Rows |-> IF r \in used THEN "gone" ELSE row[r]]
       /\ task' = [t \in Tasks |-> IF Starts(t, S) THEN Started ELSE task[t]]
       /\ UNCHANGED <<up, alive>>

-----------------------------------------------------------------------------
(* AsyncDeleteTask with its TcpClient, whose connector tries again and     *)
(* again until it has a connection.                                        *)

Becomes(t, state) ==
    /\ task' = [task EXCEPT ![t] = state]
    /\ UNCHANGED <<up, alive>>

\* The request is sent as soon as there is a connection.
Connect(t) ==
    /\ task[t].at = "connecting"
    /\ Node(t) \in up
    /\ Becomes(t, [task[t] EXCEPT !.at = "open"])
    /\ UNCHANGED row

\* onTimeout: disconnect shuts down a connection, if there is one; the reply to
\* what was sent may still come.
Timeout(t) ==
    /\ task[t].age = "new"
    /\ Becomes(t, [task[t] EXCEPT !.age = "late"])
    /\ UNCHANGED row

\* The token is valid for five minutes.
Expire(t) ==
    /\ task[t].age = "late"
    /\ Becomes(t, [task[t] EXCEPT !.age = "expired"])
    /\ UNCHANGED row

\* handleDeleteFile on the DataNode; a file that is absent is as good as one that
\* was deleted.  The timer does nothing to the answer.
Delete(t) ==
    /\ task[t].at = "open" /\ task[t].age # "expired"
    /\ Becomes(t, [at |-> "answered", age |-> "expired"])
    /\ UNCHANGED row

\* The connection is closed; with it goes the timer.
Ended(t) == NoTask

\* onMessage: 200 or 404.
Remove(t) ==
    /\ task[t].at = "answered"
    /\ row' = [row EXCEPT ![t[1]] = "gone"]
    /\ Becomes(t, Ended(t))

\* The token has expired, the disk fails, the connection breaks, or there is no
\* connection to the database: the row waits for a later round.
Fail(t) ==
    /\ task[t].at \in {"open", "answered"}
    /\ Becomes(t, Ended(t))
    /\ UNCHANGED row

-----------------------------------------------------------------------------
(* Nodes, and the master.                                                  *)

Stop(n) ==
    /\ n \in up
    /\ up' = up \ {n}
    /\ task' = [t \in Tasks |-> IF Node(t) = n /\ task[t].at = "open"
                                  THEN NoTask ELSE task[t]]
    /\ UNCHANGED <<row, alive>>

Return(n) ==
    /\ n \notin up \union Lost
    /\ up' = up \union {n}
    /\ UNCHANGED <<row, task, alive>>

\* checkTimeoutNodes, which may also err on a node that runs.
Miss(n) ==
    /\ n \in alive
    /\ alive' = alive \ {n}
    /\ UNCHANGED <<row, task, up>>

\* A registration or a heartbeat.
Hear(n) ==
    /\ n \in up \ alive
    /\ alive' = alive \union {n}
    /\ UNCHANGED <<row, task, up>>

\* Tasks, the round and the table of nodes are in memory.
Restart ==
    /\ task' = [t \in Tasks |-> NoTask]
    /\ alive' = {}
    /\ UNCHANGED <<row, up>>

-----------------------------------------------------------------------------
Next ==
    \/ \E r \in Rows : Purge(r)
    \/ \E used \in SUBSET First(Purged) : Round(used)
    \/ \E t \in Tasks :
          \/ Connect(t) \/ Timeout(t) \/ Expire(t)
          \/ Delete(t) \/ Remove(t) \/ Fail(t)
    \/ \E n \in Nodes : Stop(n) \/ Return(n) \/ Miss(n) \/ Hear(n)
    \/ Restart

Spec == Init /\ [][Next]_vars

\* The timer fires, and a connector goes on trying.  A request that is made again
\* and again to a node that returns gets through some day before its token expires,
\* and so does its answer.  Nobody has to use a file for its row to go.
Fairness ==
    /\ WF_vars(Round({}))
    /\ \A t \in Tasks : Node(t) \notin Lost =>
        /\ WF_vars(Connect(t))
        /\ WF_vars(Fail(t))
        /\ SF_vars(Connect(t) /\ task[t].age = "new")
        /\ SF_vars(Delete(t))
        /\ SF_vars(Remove(t))

FairSpec == Spec /\ Fairness

-----------------------------------------------------------------------------
\* Rows of lost nodes fill every round, and a row behind them is never taken.
Crowded(r) ==
    Cardinality({s \in Purged : s < r /\ NodeOf[s] \in Lost}) >= Limit

\* A purged row goes in the end, unless the rows of lost nodes before it are as many
\* as a round takes, and stay; if the other nodes are online for good some day.
PurgedRowsCollected ==
    (\A n \in Nodes \ Lost : <>[](n \in up \intersect alive)) =>
        \A r \in Rows : NodeOf[r] \notin Lost =>
            (row[r] = "purged" ~> (row[r] = "gone" \/ []Crowded(r)))

=============================================================================
