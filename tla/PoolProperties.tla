--------------------------- MODULE PoolProperties ---------------------------
(* What the pool promises: the properties of Pool, and its fair behaviours. *)
EXTENDS Pool

-----------------------------------------------------------------------------
(* Fairness.  A goroutine inside a call is scheduled, and a select with a   *)
(* ready case proceeds; so does the body of Close.  Nothing is assumed of   *)
(* the callers: whether a borrower ever returns a connection is its affair. *)

CallFairness == \A p \in Procs : WF_vars(CallStep(p))
FairSpec == Spec /\ CallFairness /\ WF_vars(CloseStep)

-----------------------------------------------------------------------------
(* Resources.                                                               *)

\* createConnection compares len(connections) with MaxConnections before it
\* dials and registers after, so the map can outgrow the limit: by one less
\* than the number of creations createSemaphore lets run together, and no more.
ConnectionBound ==
    MaxConnections > 0 =>
        Cardinality(connections) <= MaxConnections + CreateLimit - 1

\* Calls that may dial: past the look at the limit, before the registration.
Dialing == {p \in Procs : pc[p] = "dial"}

\* Why the bound holds: whoever is between the look at the limit and the
\* registration holds a token of the semaphore, and what is registered together
\* with what is still being dialed stays within the limit and those tokens.
CreationInv ==
    /\ \A p \in Procs : pc[p] \in Creating => p \in createSemaphore
    /\ Cardinality(createSemaphore) <= CreateLimit
    /\ MaxConnections > 0 =>
        Cardinality(connections) + Cardinality(Dialing)
            <= MaxConnections + CreateLimit - 1

\* An open connection is never forgotten: it is in the map, on the list of
\* Close, or a goroutine has just taken it out of the map in order to close
\* it.  Put, waiters, failed Gets and Close may all be dropping it at once.
NoOrphan ==
    panic = "none" => \A c \in live :
        \/ c \in connections \cup doomed
        \/ \E p \in Procs : pc[p] = "shut" /\ frame[p].conn = c

\* When Close has returned, the connections still open are in the hands of a
\* goroutine: those that a creation overtaken by Close registered afterwards.
\* None is left behind in a channel.
ClosedPoolDrained ==
    Terminated => \A c \in live : \E p \in Procs : frame[p].conn = c

-----------------------------------------------------------------------------
(* Borrowing.                                                               *)

\* Two goroutines never hold the same connection.  True only of a pool that
\* nobody ever has to wait for (MaxConnections = 0): notifyWaitQueue hands a
\* waiter a connection Put has just sent to the idle channel, where it stays.
SoleBorrower ==
    \A p, q \in Procs :
        pc[p] = "held" /\ pc[q] = "held" /\ frame[p].conn = frame[q].conn => p = q

\* A connection on its way to a request, through the idle channel, a dial or
\* a waitChan, has the protocol or IP version asked for.  For a waiter this
\* means the branch that closes a connection of the wrong sort never runs.
RequestHonoured ==
    \A p \in Procs :
        /\ pc[p] \in {"take", "held"} => Matches(frame[p].req, frame[p].conn)
        /\ mail[p] # None => Matches(frame[p].req, mail[p])

\* The pool as its borrowers see it: the state of each connection, and the
\* goroutines between the return of a Get and the call of Put or Close.
ConnState ==
    [c \in Conns |->
        IF kind[c] = NoKind THEN "unmade" ELSE IF c \in live THEN "open" ELSE "closed"]
Borrowers == [c \in Conns |-> {p \in Procs : pc[p] = "held" /\ frame[p].conn = c}]

Ledger == INSTANCE ConnectionLedger WITH
    Clients <- Procs, state <- ConnState, holders <- Borrowers,
    shut <- closed, ended <- (panic # "none")

\* Where nobody ever waits (MaxConnections = 0), Get, Put and Close implement
\* the ledger: a connection is lent open, to one goroutine, and until that
\* gives it back no Put, Get or expiry closes it, only Pool.Close.
LedgerSpec == Ledger!Spec

-----------------------------------------------------------------------------
(* Waiting.                                                                 *)

Queued(p) == \E q \in Queues : \E i \in DOMAIN waitQueue[q] : waitQueue[q][i] = p

\* A waitChan has one user at a time: it is queued once, or holds one
\* connection, or was closed by Close.  So notifySpecificWaitQueue never finds
\* it full, and a notification is never overwritten by the next.
OneNotification ==
    /\ \A p \in Procs :
        /\ Queued(p) => pc[p] \in {"await", "dead"} /\ mail[p] = None /\ p \notin mailClosed
        /\ mail[p] # None => pc[p] \in {"await", "dead"} /\ p \notin mailClosed
    /\ \A q, r \in Queues : \A i \in DOMAIN waitQueue[q], j \in DOMAIN waitQueue[r] :
        waitQueue[q][i] = waitQueue[r][j] /\ waitQueue[q][i] # Dead => q = r /\ i = j

Notifies(p) == NotifyWaiter(p) \/ NotifyNobody(p)

\* Nobody stands in a queue for ever while returned connections are announced:
\* every Put goes on to the queue of those that take anything, and serves it in
\* order.  (A waiter that joins after the last Put has passed is not served.)
ServedWhileReturned ==
    []<><<\E p \in Procs : Notifies(p)>>_vars => \A p \in Procs : Queued(p) ~> ~Queued(p)

-----------------------------------------------------------------------------
(* Calls and shutdown.                                                      *)

\* A waiter leaves the queue it stands in.
Leaves == \E p \in Procs : GiveUp(p)

\* Every Get and Put returns: the retry loops end and nothing blocks for ever.
\* notifySpecificWaitQueue skips the waiters that have left one at a time and
\* without a bound, so a Put returns once waiters stop leaving behind its back.
CallsReturn ==
    \A p \in Procs :
        \/ pc[p] \notin {"idle", "held"} ~> pc[p] \in {"idle", "held", "dead"}
        \/ []<><<Leaves>>_vars

\* Once started, Close runs to its end, unless a panic ends the program.
CloseCompletes == closer = "stopping" ~> Terminated \/ panic # "none"

\* Close releases every goroutine that waits for a connection, deadline or not.
WaitersReleased ==
    \A p \in Procs :
        closed /\ pc[p] \in {"join", "await"} ~> pc[p] \notin {"join", "await"}

=============================================================================
