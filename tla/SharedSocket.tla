----------------------------- MODULE SharedSocket -----------------------------
(***************************************************************************)
(* One pooled UDP connection and everybody who reads from its socket: the  *)
(* borrower, the health probes of health.go and the drains of udp_utils.go *)
(* that empty its buffer when it is made and when it is returned.  All of  *)
(* them share one read deadline, and a probe or a drain may still be at it *)
(* when the call that started it has gone on.                              *)
(***************************************************************************)
EXTENDS Naturals, FiniteSets

CONSTANTS
    Probes,      \* the goroutines of the checks; bounds the number of checks
    Drains,      \* the drains; bounds the number of returns
    Slots,       \* capacity of udpCleanupSemaphore (10 in the code)
    MaxPackets,  \* config.MaxBufferClearPackets
    MaxData      \* bounds the datagrams waiting in the buffer

ASSUME SocketAssumption ==
    /\ IsFiniteSet(Probes) /\ IsFiniteSet(Drains) /\ Drains # {}
    /\ Probes \cap Drains = {}
    /\ Slots \in Nat \ {0} /\ MaxPackets \in Nat \ {0} /\ MaxData \in Nat

VARIABLES
    open,      \* is the socket open?
    data,      \* datagrams waiting to be read
    deadline,  \* the read deadline: "none", "ahead" or "past"
    user,      \* "idle", "taking" up to MarkInUse, "held", "putting" from the
               \* drain to MarkIdle, or "gone" when Put has closed it
    session,   \* how often the connection has been borrowed
    ill,       \* IsHealthy = false
    check,     \* checkConnection: where it is and the probe it started
    expired,   \* the probes whose context has ended
    probe,     \* where the goroutine of each probe is
    verdict,   \* what its read said
    drain,     \* where each drain is
    left,      \* reads left to it
    inPut,     \* the drains Put runs itself, for want of a slot
    born       \* the session in which a probe or a drain was decided on

sock     == <<open, data, deadline>>
userVars == <<user, session, ill>>
checkVars == <<check, expired, probe, verdict>>
drainVars == <<drain, left, inPut>>
vars == <<sock, userVars, checkVars, drainVars, born>>

Readers == Probes \cup Drains
NoCheck == [at |-> "rest", of |-> "nobody"]

\* A read ends with a datagram, with a timeout, or with an error.
Reads == open /\ deadline # "past" /\ data > 0
TimesOut == open /\ deadline = "past"

Arm == deadline' = "ahead" /\ UNCHANGED <<open, data>>
Disarm == deadline' = "none" /\ UNCHANGED <<open, data>>
Consume == data' = data - 1 /\ UNCHANGED <<open, deadline>>

-----------------------------------------------------------------------------
(* The pool and the borrower.                                              *)

\* A valid connection is taken from the idle channel; another is closed.
Get ==
    /\ user = "idle" /\ open
    /\ IF ill
       THEN open' = FALSE /\ UNCHANGED <<data, deadline, user>>
       ELSE user' = "taking" /\ UNCHANGED sock
    /\ UNCHANGED <<session, ill, checkVars, drainVars, born>>

\* What happens to the connection after the look at its health is not seen.
MarkInUse ==
    /\ user = "taking"
    /\ user' = "held" /\ session' = session + 1
    /\ UNCHANGED <<sock, ill, checkVars, drainVars, born>>

BorrowerRead ==
    /\ user = "held" /\ Reads
    /\ Consume
    /\ UNCHANGED <<userVars, checkVars, drainVars, born>>

Busy == {d \in Drains : drain[d] \notin {"none", "over"} /\ d \notin inPut}

\* A borrower that returns a connection which has fallen ill in its hands.
PutIll ==
    /\ user = "held" /\ ill
    /\ open' = FALSE
    /\ user' = "gone"
    /\ UNCHANGED <<data, deadline, session, ill, checkVars, drainVars, born>>

\* ClearUDPReadBufferNonBlocking: a goroutine, if there is a slot, or Put itself;
\* the slots may also be taken by the drains of other connections.
Put(d) ==
    /\ user = "held" /\ ~ill
    /\ drain[d] = "none"
    /\ user' = "putting"
    /\ drain' = [drain EXCEPT ![d] = "start"]
    /\ \/ Cardinality(Busy) < Slots /\ UNCHANGED inPut
       \/ inPut' = inPut \cup {d}
    /\ born' = [born EXCEPT ![d] = session]
    /\ UNCHANGED <<sock, session, ill, checkVars, left>>

MarkIdle ==
    /\ user = "putting"
    /\ \A d \in inPut : drain[d] = "over"
    /\ user' = "idle"
    /\ UNCHANGED <<sock, session, ill, checkVars, drainVars, born>>

-----------------------------------------------------------------------------
(* ClearUDPReadBuffer.                                                     *)

DrainTo(d, at) == drain[d] # at /\ drain' = [drain EXCEPT ![d] = at]

DrainStart(d) ==
    /\ drain[d] = "start"
    /\ DrainTo(d, "arm") /\ Arm
    /\ UNCHANGED <<left, inPut, userVars, checkVars, born>>

\* The head of the loop: the packets or the time may be used up.
DrainArm(d) ==
    /\ drain[d] = "arm" /\ left[d] > 0
    /\ DrainTo(d, "read") /\ Arm
    /\ UNCHANGED <<left, inPut, userVars, checkVars, born>>

DrainStops(d) ==
    /\ drain[d] = "arm"
    /\ DrainTo(d, "reset")
    /\ UNCHANGED <<left, inPut, sock, userVars, checkVars, born>>

DrainRead(d) ==
    /\ drain[d] = "read" /\ Reads
    /\ DrainTo(d, "arm") /\ Consume
    /\ left' = [left EXCEPT ![d] = @ - 1]
    /\ UNCHANGED <<inPut, userVars, checkVars, born>>

\* Fault: on a timeout the buffer is taken for clear, and the drain is over.
DrainFailsAtOnce(d) ==
    /\ drain[d] = "read" /\ (TimesOut \/ ~open)
    /\ DrainTo(d, "over")
    /\ UNCHANGED <<left, inPut, sock, userVars, checkVars, born>>

DrainFails(d) ==
    /\ drain[d] = "read" /\ (TimesOut \/ ~open)
    /\ DrainTo(d, "reset")
    /\ UNCHANGED <<left, inPut, sock, userVars, checkVars, born>>

\* The deferred reset, and the slot is free again.
DrainReset(d) ==
    /\ drain[d] = "reset"
    /\ DrainTo(d, "over") /\ Disarm
    /\ UNCHANGED <<left, inPut, userVars, checkVars, born>>

-----------------------------------------------------------------------------
(* checkConnection and the goroutine it starts.                            *)

\* Fault: connections in use are not skipped.
LookAtAny(i) ==
    /\ check.at = "rest" /\ probe[i] = "none"
    /\ check' = [at |-> "wait", of |-> i]
    /\ probe' = [probe EXCEPT ![i] = "start"]
    /\ born' = [born EXCEPT ![i] = session]
    /\ UNCHANGED <<expired, verdict, sock, userVars, drainVars>>

\* InUse is looked at once; everything else may find the connection borrowed.
Look(i) ==
    /\ check.at = "rest" /\ probe[i] = "none"
    /\ user \in {"idle", "taking"}
    /\ check' = [at |-> "wait", of |-> i]
    /\ probe' = [probe EXCEPT ![i] = "start"]
    /\ born' = [born EXCEPT ![i] = session]
    /\ UNCHANGED <<expired, verdict, sock, userVars, drainVars>>

ProbeTo(i, at) == probe' = [probe EXCEPT ![i] = at]
Says(i, healthy) == verdict' = [verdict EXCEPT ![i] = IF healthy THEN "well" ELSE "ill"]

\* A probe that finds its context ended returns; one that finds no connection
\* panics and recovers with "not healthy".
ProbeStart(i) ==
    /\ probe[i] = "start"
    /\ \/ i \in expired /\ ProbeTo(i, "gone") /\ UNCHANGED <<verdict, sock>>
       \/ i \notin expired /\ open /\ ProbeTo(i, "read") /\ Arm /\ UNCHANGED verdict
       \/ i \notin expired /\ ~open /\ ProbeTo(i, "offer") /\ Says(i, FALSE) /\ UNCHANGED sock
    /\ UNCHANGED <<check, expired, userVars, drainVars, born>>

\* The read of the probe takes a datagram of whoever it was meant for; a
\* timeout means the connection is alive.
ProbeRead(i) ==
    /\ probe[i] = "read"
    /\ \/ Reads /\ Consume /\ Says(i, TRUE)
       \/ TimesOut /\ UNCHANGED sock /\ Says(i, TRUE)
       \/ ~open /\ UNCHANGED sock /\ Says(i, FALSE)
    /\ ProbeTo(i, "reset")
    /\ UNCHANGED <<check, expired, userVars, drainVars, born>>

ProbeReset(i) ==
    /\ probe[i] = "reset"
    /\ ProbeTo(i, "offer") /\ Disarm
    /\ UNCHANGED <<check, expired, verdict, userVars, drainVars, born>>

\* The verdict goes into done, which has room for it, or nowhere.
ProbeOffer(i) ==
    /\ probe[i] = "offer"
    /\ \/ ProbeTo(i, "done")
       \/ i \in expired /\ ProbeTo(i, "gone")
    /\ UNCHANGED <<check, expired, verdict, sock, userVars, drainVars, born>>

\* Fault: the check waits for the verdict alone.
CheckNeverTimesOut ==
    /\ check.at = "wait" /\ check.of \in expired /\ probe[check.of] = "done"
    /\ ill' = TRUE
    /\ check' = NoCheck
    /\ UNCHANGED <<user, session, expired, probe, verdict, sock, drainVars, born>>

\* The check ends with the verdict, or with the context, and in both cases
\* after a pause of at most 100 ms whether the goroutine has gone or not.
CheckTimesOut ==
    /\ check.at = "wait" /\ check.of \in expired
    /\ ill' = TRUE
    /\ check' = NoCheck
    /\ UNCHANGED <<user, session, expired, probe, verdict, sock, drainVars, born>>

CheckHears ==
    /\ check.at = "wait" /\ probe[check.of] = "done"
    /\ ill' = (verdict[check.of] = "ill")
    /\ check' = NoCheck
    /\ UNCHANGED <<user, session, expired, probe, verdict, sock, drainVars, born>>

-----------------------------------------------------------------------------
(* Time and the network.                                                   *)

ContextEnds(i) ==
    /\ probe[i] # "none" /\ i \notin expired
    /\ expired' = expired \cup {i}
    /\ UNCHANGED <<check, probe, verdict, sock, userVars, drainVars, born>>

DeadlinePasses ==
    /\ deadline = "ahead"
    /\ deadline' = "past"
    /\ UNCHANGED <<open, data, userVars, checkVars, drainVars, born>>

Arrive ==
    /\ open /\ data < MaxData
    /\ data' = data + 1
    /\ UNCHANGED <<open, deadline, userVars, checkVars, drainVars, born>>

-----------------------------------------------------------------------------
\* A connection just made: the drain of createConnection is about to start, and
\* the Get that made it has yet to mark it in use.
Init ==
    /\ open = TRUE /\ data = 0 /\ deadline = "none"
    /\ user = "taking" /\ session = 0 /\ ill = FALSE
    /\ check = NoCheck /\ expired = {}
    /\ probe = [i \in Probes |-> "none"] /\ verdict = [i \in Probes |-> "none"]
    /\ \E d \in Drains : drain = [e \in Drains |-> IF e = d THEN "start" ELSE "none"]
    /\ left = [d \in Drains |-> MaxPackets] /\ inPut = {}
    /\ born = [r \in Readers |-> 0]

DrainStep(d) == DrainStart(d) \/ DrainArm(d) \/ DrainStops(d) \/ DrainRead(d) \/ DrainFails(d) \/ DrainReset(d)
ProbeStep(i) == ProbeStart(i) \/ ProbeRead(i) \/ ProbeReset(i) \/ ProbeOffer(i)
CheckStep == CheckTimesOut \/ CheckHears
TimeStep == DeadlinePasses \/ \E i \in Probes : ContextEnds(i)

Next ==
    \/ Get \/ MarkInUse \/ BorrowerRead \/ PutIll \/ MarkIdle
    \/ (\E d \in Drains : Put(d) \/ DrainStep(d))
    \/ \E i \in Probes : Look(i) \/ ProbeStep(i)
    \/ CheckStep \/ TimeStep \/ Arrive

Spec == Init /\ [][Next]_vars

\* Goroutines run and time passes; data need not arrive and nobody need borrow.
FairSpec ==
    /\ Spec
    /\ \A d \in Drains : WF_vars(DrainStep(d))
    /\ \A i \in Probes : WF_vars(ProbeStep(i)) /\ WF_vars(ContextEnds(i))
    /\ WF_vars(CheckStep) /\ WF_vars(DeadlinePasses)

-----------------------------------------------------------------------------
(* Properties.                                                             *)

Active(r) ==
    IF r \in Probes THEN probe[r] \in {"start", "read", "reset"}
    ELSE drain[r] \in {"start", "arm", "read", "reset"}

\* Whoever still probes or drains a connection that is borrowed was sent out
\* before it was borrowed: no probe and no drain starts on a borrower.
BackgroundBeforeBorrow ==
    user = "held" => \A r \in Readers : Active(r) => born[r] < session

\* When the last of them has gone, however their steps were mixed, the socket
\* has no read deadline that would fail the reads of the next borrower.
NoDeadlineLeft ==
    (\A r \in Readers : ~Active(r)) => deadline = "none"

\* Every check ends, although the read of its probe may block for ever on a
\* deadline that a drain has reset.  So does a round, and so does Stop.
CheckReturns == check.at = "wait" ~> check.at = "rest"

=============================================================================
