------------------------------ MODULE PoolStats ------------------------------
(***************************************************************************)
(* The pool with the counters of stats.go.  A call changes the pool first  *)
(* and counts later, in steps of its own: owed[p] is what the calls of p   *)
(* have yet to count.  Increments a call makes one after the other, with   *)
(* nothing in between, are one step.                                       *)
(***************************************************************************)
EXTENDS PoolProperties, Integers

VARIABLES
    stats,  \* the counters
    owed    \* what each goroutine has yet to add to them

Counters == {"created", "closed", "active", "idle"}
Nothing  == [k \in Counters |-> 0]

statsVars == <<stats, owed>>

Plus(a, b) == [k \in Counters |-> a[k] + b[k]]
Delta(k, n) == [Nothing EXCEPT ![k] = n]

-----------------------------------------------------------------------------
\* Fault: closeConnection counts whether or not it found the connection.
DebtAlwaysClosed(p) ==
    CASE pc[p] = "vet" /\ pc'[p] = "take" -> Delta("idle", -1)
      [] pc[p] = "dial" /\ connections' # connections -> Delta("created", 1)
      [] pc[p] = "take" -> Delta("active", 1)
      [] pc[p] = "mark" -> Delta("active", -1)
      [] pc[p] = "send" /\ pc'[p] = "notify" -> Delta("idle", 1)
      [] pc[p] = "retire" -> Delta("closed", 1)
      [] OTHER -> Nothing

\* Fault: every Get counts one idle connection less, be it a new one.
DebtOfEveryGet(p) ==
    CASE pc[p] = "dial" /\ connections' # connections -> Delta("created", 1)
      [] pc[p] = "take" -> Plus(Delta("active", 1), Delta("idle", -1))
      [] pc[p] = "mark" -> Delta("active", -1)
      [] pc[p] = "send" /\ pc'[p] = "notify" -> Delta("idle", 1)
      [] pc[p] = "retire" /\ frame[p].conn \in connections -> Delta("closed", 1)
      [] OTHER -> Nothing

\* Fault: a Get counts a connection as borrowed only if it was idle before.
DebtOfReuse(p) ==
    CASE pc[p] = "vet" /\ pc'[p] = "take" -> Plus(Delta("active", 1), Delta("idle", -1))
      [] pc[p] = "dial" /\ connections' # connections -> Delta("created", 1)
      [] pc[p] = "mark" -> Delta("active", -1)
      [] pc[p] = "send" /\ pc'[p] = "notify" -> Delta("idle", 1)
      [] pc[p] = "retire" /\ frame[p].conn \in connections -> Delta("closed", 1)
      [] OTHER -> Nothing

\* What a step of p adds to its debt: an idle connection taken (a waiter does
\* not count it), a connection registered, marked as used or as idle, sent to
\* an idle channel, or found in the map by closeConnection.
Debt(p) ==
    CASE pc[p] = "vet" /\ pc'[p] = "take" -> Delta("idle", -1)
      [] pc[p] = "dial" /\ connections' # connections -> Delta("created", 1)
      [] pc[p] = "take" -> Delta("active", 1)
      [] pc[p] = "mark" -> Delta("active", -1)
      [] pc[p] = "send" /\ pc'[p] = "notify" -> Delta("idle", 1)
      [] pc[p] = "retire" /\ frame[p].conn \in connections -> Delta("closed", 1)
      [] OTHER -> Nothing

\* Fault: a call counts when it gets round to it.
PaidAnyTime(p) == TRUE

\* MarkInUse and Connection.Close come before the counting.
Paid(p) == owed[p] = Nothing \/ pc[p] \in {"take", "shut"}

CountedCall(p) ==
    /\ Paid(p)
    /\ CallStep(p)
    /\ owed' = [owed EXCEPT ![p] = Plus(@, Debt(p))]
    /\ UNCHANGED stats

CountedUser(p) ==
    /\ Paid(p)
    /\ UserStep(p)
    /\ UNCHANGED statsVars

Pay(p) ==
    /\ owed[p] # Nothing /\ pc[p] \notin {"take", "shut", "dead"}
    /\ stats' = Plus(stats, owed[p])
    /\ owed' = [owed EXCEPT ![p] = Nothing]
    /\ UNCHANGED vars

\* Close counts every connection it took from the map.
CountedClose ==
    /\ CloseBegin \/ CloseStep
    /\ stats' = Plus(stats, Delta("closed", Cardinality(doomed \ doomed')))
    /\ UNCHANGED owed

-----------------------------------------------------------------------------
StatsInit == Init /\ stats = Nothing /\ owed = [p \in Procs |-> Nothing]

StatsNext ==
    \/ \E p \in Procs : CountedCall(p) \/ CountedUser(p) \/ Pay(p)
    \/ CountedClose
    \/ (\E c \in Conns : Expire(c)) /\ UNCHANGED statsVars
    \/ Halted /\ UNCHANGED statsVars

StatsSpec == StatsInit /\ [][StatsNext]_<<vars, statsVars>>

-----------------------------------------------------------------------------
(* Properties.                                                             *)

\* The counters are numbers, and a goroutine owes each of them one at most.
StatsTypeOK ==
    /\ stats \in [Counters -> Int]
    /\ owed \in [Procs -> [Counters -> -1..1]]

\* What all of them owe to counter k together.
Owes(k, n) == {p \in Procs : owed[p][k] = n}
Owing(k) == Cardinality(Owes(k, 1)) - Cardinality(Owes(k, -1))

\* CurrentConnections (created less closed) is exact once every call has
\* counted what it did: each connection is counted as closed once, by Close or
\* by the one closeConnection, of several, that finds it in the map.
ConnectionsCounted ==
    panic = "none" =>
        Cardinality(connections \cup doomed)
            = (stats["created"] + Owing("created")) - (stats["closed"] + Owing("closed"))

\* CurrentIdleConnections may count what is long gone (a Get that closes an
\* idle connection does not count down) but never misses one that is idle.
IdleCounted ==
    stats["idle"] + Owing("idle") >= Len(idle["TCP"]) + Len(idle["UDP"])

\* CurrentActiveConnections never misses a connection that is borrowed.  True
\* only of a pool whose users take any connection: the Put that takes back a
\* connection of the wrong sort counts down what no Get has counted up.
BorrowedCounted ==
    panic = "none" =>
        stats["active"] + Owing("active") >= Cardinality({p \in Procs : pc[p] = "held"})

=============================================================================
