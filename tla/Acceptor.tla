------------------------------- MODULE Acceptor -------------------------------
(***************************************************************************)
(* The creation of connections in server mode: calls of defaultAcceptor    *)
(* (config.go), each with a goroutine of its own that blocks in Accept and *)
(* outlives the call when the context of the call ends first.  The         *)
(* goroutines left behind compete with later calls for what arrives.       *)
(***************************************************************************)
EXTENDS Naturals, Sequences, FiniteSets, SequencesExt

CONSTANTS
    Calls,      \* the calls of defaultAcceptor in a behaviour
    Conns,      \* the connections clients make
    Nothing,    \* an empty result channel
    Error       \* the result of an Accept that failed

ASSUME AcceptorAssumption ==
    /\ IsFiniteSet(Calls) /\ IsFiniteSet(Conns)
    /\ Nothing \notin Conns /\ Error \notin Conns /\ Nothing # Error

VARIABLES
    listening,  \* is the listener open?
    backlog,    \* connections nobody has accepted yet
    shut,       \* connections closed on the side of the pool
    call,       \* where each call is
    outcome,    \* what it has returned
    routine,    \* where its goroutine is
    took,       \* what the goroutine got from Accept
    resultChan, \* the buffer of one between the two
    over        \* the calls whose context has ended

network == <<listening, backlog, shut>>
callVars == <<call, outcome>>
routineVars == <<routine, took, resultChan>>
vars == <<network, callVars, routineVars, over>>

CallTo(i, at) == call' = [call EXCEPT ![i] = at]
RoutineTo(i, at) == routine' = [routine EXCEPT ![i] = at]

-----------------------------------------------------------------------------
(* The clients, and the owner of the listener.                             *)

Arrive(c) ==
    /\ listening
    /\ c \notin Range(backlog) \cup Range(took) \cup shut
    /\ backlog' = Append(backlog, c)
    /\ UNCHANGED <<listening, shut, callVars, routineVars, over>>

\* Closing the listener drops the connections nobody has accepted.
CloseListener ==
    /\ listening
    /\ listening' = FALSE /\ backlog' = <<>>
    /\ UNCHANGED <<shut, callVars, routineVars, over>>

-----------------------------------------------------------------------------
(* The goroutine.                                                          *)

Accept(i) ==
    /\ routine[i] = "accept" /\ backlog # <<>>
    /\ took' = [took EXCEPT ![i] = Head(backlog)]
    /\ backlog' = Tail(backlog)
    /\ RoutineTo(i, "offer")
    /\ UNCHANGED <<listening, shut, callVars, resultChan, over>>

AcceptFails(i) ==
    /\ routine[i] = "accept" /\ ~listening
    /\ took' = [took EXCEPT ![i] = Error]
    /\ RoutineTo(i, "offer")
    /\ UNCHANGED <<network, callVars, resultChan, over>>

\* Fault: the result is sent, and closed as well if the context has ended.
OfferAndClose(i) ==
    /\ routine[i] = "offer"
    /\ resultChan' = [resultChan EXCEPT ![i] = took[i]]
    /\ shut' = IF i \in over THEN shut \cup ({took[i]} \cap Conns) ELSE shut
    /\ RoutineTo(i, "done")
    /\ UNCHANGED <<listening, backlog, callVars, took, over>>

\* The buffer has room, so the send is ready whether anybody reads it or not ...
Offer(i) ==
    /\ routine[i] = "offer"
    /\ resultChan' = [resultChan EXCEPT ![i] = took[i]]
    /\ RoutineTo(i, "done")
    /\ UNCHANGED <<network, callVars, took, over>>

\* Fault: the goroutine goes back to accept a connection for the next call.
DiscardAndAccept(i) ==
    /\ routine[i] = "offer" /\ i \in over
    /\ shut' = shut \cup ({took[i]} \cap Conns)
    /\ RoutineTo(i, "accept")
    /\ UNCHANGED <<listening, backlog, callVars, took, resultChan, over>>

\* ... and once the context has ended, select may as well close the connection.
Discard(i) ==
    /\ routine[i] = "offer" /\ i \in over
    /\ shut' = shut \cup ({took[i]} \cap Conns)
    /\ RoutineTo(i, "done")
    /\ UNCHANGED <<listening, backlog, callVars, took, resultChan, over>>

-----------------------------------------------------------------------------
(* The call.  When it returns, createConnection cancels its context.       *)

Start(i) ==
    /\ call[i] = "idle"
    /\ CallTo(i, "wait") /\ RoutineTo(i, "accept")
    /\ UNCHANGED <<network, outcome, took, resultChan, over>>

Receive(i) ==
    /\ call[i] = "wait" /\ resultChan[i] # Nothing
    /\ outcome' = [outcome EXCEPT ![i] = resultChan[i]]
    /\ resultChan' = [resultChan EXCEPT ![i] = Nothing]
    /\ CallTo(i, "returned")
    /\ over' = over \cup {i}
    /\ UNCHANGED <<network, routine, took>>

Expire(i) ==
    /\ call[i] = "wait" /\ i \notin over
    /\ over' = over \cup {i}
    /\ UNCHANGED <<network, callVars, routineVars>>

\* A result may be there already: select takes either.
GiveUp(i) ==
    /\ call[i] = "wait" /\ i \in over
    /\ CallTo(i, "grace")
    /\ UNCHANGED <<network, outcome, routineVars, over>>

\* Fault: the call waits for its goroutine without a limit.
GraceUntilDone(i) ==
    /\ call[i] = "grace" /\ routine[i] = "done"
    /\ outcome' = [outcome EXCEPT ![i] = Error]
    /\ CallTo(i, "returned")
    /\ UNCHANGED <<network, routineVars, over>>

\* The goroutine has exited, or a tenth of a second has gone by.
GraceEnds(i) ==
    /\ call[i] = "grace"
    /\ outcome' = [outcome EXCEPT ![i] = Error]
    /\ CallTo(i, "returned")
    /\ UNCHANGED <<network, routineVars, over>>

-----------------------------------------------------------------------------
Init ==
    /\ listening = TRUE /\ backlog = <<>> /\ shut = {}
    /\ call = [i \in Calls |-> "idle"] /\ outcome = [i \in Calls |-> Nothing]
    /\ routine = [i \in Calls |-> "none"] /\ took = [i \in Calls |-> Nothing]
    /\ resultChan = [i \in Calls |-> Nothing]
    /\ over = {}

RoutineStep(i) == Accept(i) \/ AcceptFails(i) \/ Offer(i) \/ Discard(i)
CallStep(i) == Receive(i) \/ GiveUp(i) \/ GraceEnds(i)

Next ==
    \/ \E i \in Calls : Start(i) \/ Expire(i) \/ CallStep(i) \/ RoutineStep(i)
    \/ \E c \in Conns : Arrive(c)
    \/ CloseListener

Spec == Init /\ [][Next]_vars

\* Goroutines run and contexts end; nobody has to connect.
FairSpec ==
    /\ Spec
    /\ \A i \in Calls : WF_vars(CallStep(i)) /\ WF_vars(RoutineStep(i)) /\ WF_vars(Expire(i))

-----------------------------------------------------------------------------
(* Properties.                                                             *)

\* c is on its way from Accept to the call that waits for it.
Underway(c, i) ==
    /\ took[i] = c /\ c \notin shut
    /\ routine[i] = "offer" \/ resultChan[i] = c

Delivered(c) == \E i \in Calls : outcome[i] = c

\* The calls that return without a connection, whatever their goroutine does.
GaveUp == {i \in over : outcome[i] \notin Conns}

\* Connections taken from the listener that no call returns or can still return:
\* closed by the goroutine, or open for ever in a channel nobody will read.
Lost ==
    {c \in Conns \cap (Range(took) \cup shut) :
        ~Delivered(c) /\ \A i \in Calls \ GaveUp : ~Underway(c, i)}

\* A call that gives up costs at most one client its connection, whatever
\* arrives later: its goroutine accepts once more, for nobody, and ends.
OneLossPerTimeout == Cardinality(Lost) <= Cardinality(GaveUp)

\* A connection that a call returns is open, was accepted for this call, and
\* no other call returns it, late goroutines and late results notwithstanding.
DeliveredOpen ==
    \A i \in Calls : outcome[i] \in Conns =>
        /\ outcome[i] \notin shut
        /\ \A j \in Calls : j # i => outcome[j] # outcome[i] /\ ~Underway(outcome[i], j)

\* A call whose context has ended returns although its goroutine stays in Accept.
AcceptReturns == \A i \in Calls : i \in over ~> call[i] = "returned"

=============================================================================
