----------------------------- MODULE SocketProofs -----------------------------
(* Who sets the read deadline of the shared socket, and who is still at it  *)
(* when the connection is borrowed: proofs about SharedSocket.              *)
EXTENDS SharedSocket, TLAPS

-----------------------------------------------------------------------------
SocketTypeOK ==
    /\ data \in Nat /\ session \in Nat
    /\ user \in {"idle", "taking", "held", "putting", "gone"}
    /\ probe \in [Probes -> {"none", "start", "read", "reset", "offer", "done", "gone"}]
    /\ drain \in [Drains -> {"none", "start", "arm", "read", "reset", "over"}]
    /\ born \in [Readers -> Nat]

\* Nobody was sent out in a session that is still to come.
BornInv == BackgroundBeforeBorrow /\ \A r \in Readers : born[r] <= session

\* A reader that has set the deadline and has yet to reset it: a drain between
\* its start and the end of its reset, a probe from its first read.
Owes(r) ==
    \/ r \in Probes /\ probe[r] \in {"read", "reset"}
    \/ r \in Drains /\ drain[r] \in {"arm", "read", "reset"}

\* A deadline is somebody's, who will reset it.
DeadlineInv == deadline # "none" => \E r \in Readers : Owes(r)

SocketInv == SocketTypeOK /\ BornInv /\ DeadlineInv

LEMMA SocketInit == Init => SocketInv
<1> SUFFICES ASSUME Init PROVE SocketInv
  OBVIOUS
<1>1. PICK d \in Drains : drain = [e \in Drains |-> IF e = d THEN "start" ELSE "none"]
  BY DEF Init
<1>2. SocketTypeOK
  BY <1>1 DEF Init, SocketTypeOK
<1>3. BornInv /\ DeadlineInv
  BY DEF Init, BornInv, BackgroundBeforeBorrow, DeadlineInv
<1> QED BY <1>2, <1>3 DEF SocketInv

-----------------------------------------------------------------------------
(* The drains.                                                             *)

LEMMA DrainInv ==
    ASSUME SocketInv, NEW d \in Drains, DrainStep(d)
    PROVE  SocketInv'
<1>1. /\ drain[d] \in {"start", "arm", "read", "reset"}
      /\ \E at \in {"arm", "read", "reset", "over"} : drain' = [drain EXCEPT ![d] = at]
      /\ UNCHANGED <<user, session, probe, born>>
  BY DEF DrainStep, DrainStart, DrainArm, DrainStops, DrainRead, DrainFails, DrainReset,
     DrainTo, userVars, checkVars
<1>2. data' \in Nat
  BY DEF SocketInv, SocketTypeOK, DrainStep, DrainStart, DrainArm, DrainStops, DrainRead,
     DrainFails, DrainReset, Arm, Disarm, Consume, Reads, sock
<1>3. SocketTypeOK'
  BY <1>1, <1>2 DEF SocketInv, SocketTypeOK
<1>4. BornInv'
  <2>1. \A r \in Readers : Active(r)' => Active(r)
    BY <1>1, SocketAssumption DEF SocketInv, SocketTypeOK, Active, Readers
  <2> QED BY <1>1, <2>1 DEF SocketInv, BornInv, BackgroundBeforeBorrow
<1>5. DeadlineInv'
  <2>1. CASE DrainReset(d)
    BY <2>1 DEF DrainReset, Disarm, DeadlineInv
  <2>2. CASE ~DrainReset(d)
    <3>1. drain'[d] \in {"arm", "read", "reset"} /\ probe' = probe
      BY <2>2 DEF SocketInv, SocketTypeOK, DrainStep, DrainStart, DrainArm, DrainStops,
         DrainRead, DrainFails, DrainTo, checkVars
    <3> QED BY <3>1 DEF DeadlineInv, Owes, Readers
  <2> QED BY <2>1, <2>2
<1> QED BY <1>3, <1>4, <1>5 DEF SocketInv

-----------------------------------------------------------------------------
(* The probes.                                                             *)

LEMMA ProbeInv ==
    ASSUME SocketInv, NEW i \in Probes, ProbeStep(i)
    PROVE  SocketInv'
<1>1. /\ probe[i] \in {"start", "read", "reset", "offer"}
      /\ \E at \in {"read", "reset", "offer", "done", "gone"} :
            probe' = [probe EXCEPT ![i] = at] /\ (probe[i] = "offer" => at \in {"done", "gone"})
      /\ UNCHANGED <<user, session, drain, born>>
  <2>1. CASE ProbeStart(i)
    BY <2>1 DEF ProbeStart, ProbeTo, userVars, drainVars
  <2>2. CASE ProbeRead(i)
    BY <2>2 DEF ProbeRead, ProbeTo, userVars, drainVars
  <2>3. CASE ProbeReset(i)
    BY <2>3 DEF ProbeReset, ProbeTo, userVars, drainVars
  <2>4. CASE ProbeOffer(i)
    <3>1. ProbeTo(i, "done") \/ ProbeTo(i, "gone")
      BY <2>4 DEF ProbeOffer
    <3> QED BY <2>4, <3>1 DEF ProbeOffer, ProbeTo, userVars, drainVars
  <2> QED BY <2>1, <2>2, <2>3, <2>4 DEF ProbeStep
<1>2. data' \in Nat
  <2>1. data \in Nat
    BY DEF SocketInv, SocketTypeOK
  <2>2. ProbeRead(i) => data' = data \/ (data > 0 /\ data' = data - 1)
    BY DEF ProbeRead, Consume, Reads, sock
  <2>3. ProbeStart(i) \/ ProbeReset(i) \/ ProbeOffer(i) => data' = data
    BY DEF ProbeStart, ProbeReset, ProbeOffer, Arm, Disarm, sock
  <2> QED BY <2>1, <2>2, <2>3 DEF ProbeStep
<1>3. SocketTypeOK'
  BY <1>1, <1>2 DEF SocketInv, SocketTypeOK
<1>4. BornInv'
  <2>1. \A r \in Readers : Active(r)' => Active(r)
    BY <1>1, SocketAssumption DEF SocketInv, SocketTypeOK, Active, Readers
  <2> QED BY <1>1, <2>1 DEF SocketInv, BornInv, BackgroundBeforeBorrow
<1>5. DeadlineInv'
  <2>1. CASE ProbeReset(i)
    BY <2>1 DEF ProbeReset, Disarm, DeadlineInv
  <2>2. CASE ProbeStart(i) \/ ProbeOffer(i)
    <3>1. deadline' # "none" /\ deadline # deadline' => probe'[i] = "read"
      BY <2>2 DEF SocketInv, SocketTypeOK, ProbeStart, ProbeOffer, ProbeTo, Arm, sock
    <3>2. \A r \in Readers : Owes(r) => Owes(r)'
      BY <1>1, <2>2 DEF SocketInv, SocketTypeOK, Owes, ProbeStart, ProbeOffer
    <3> QED BY <3>1, <3>2 DEF SocketInv, DeadlineInv, Owes, Readers
  <2>3. CASE ProbeRead(i)
    <3>1. probe'[i] = "reset"
      BY <2>3 DEF SocketInv, SocketTypeOK, ProbeRead, ProbeTo
    <3> QED BY <3>1 DEF DeadlineInv, Owes, Readers
  <2> QED BY <2>1, <2>2, <2>3 DEF ProbeStep
<1> QED BY <1>3, <1>4, <1>5 DEF SocketInv

-----------------------------------------------------------------------------
(* The pool, the borrower and the checks.                                  *)

\* Put and Look send somebody out, in the session of the moment and never while
\* the connection is held: Put is how the borrower stops holding it.
LEMMA SendOut ==
    ASSUME SocketInv,
           (\E d \in Drains : Put(d)) \/ (\E i \in Probes : Look(i))
    PROVE  SocketInv'
<1>1. /\ UNCHANGED <<data, session, deadline>>
      /\ user' # "held" /\ user' \in {"idle", "taking", "putting"}
      /\ \E r \in Readers : born' = [born EXCEPT ![r] = session]
      /\ \/ \E d \in Drains : /\ drain[d] = "none" /\ drain' = [drain EXCEPT ![d] = "start"]
                              /\ probe' = probe
         \/ \E i \in Probes : /\ probe[i] = "none" /\ probe' = [probe EXCEPT ![i] = "start"]
                              /\ drain' = drain
  BY DEF Put, Look, sock, userVars, checkVars, drainVars, Readers
<1>2. SocketTypeOK'
  BY <1>1 DEF SocketInv, SocketTypeOK
<1>3. BornInv'
  BY <1>1 DEF SocketInv, SocketTypeOK, BornInv, BackgroundBeforeBorrow
<1>4. DeadlineInv'
  <2>1. \A r \in Readers : Owes(r) => Owes(r)'
    BY <1>1 DEF SocketInv, SocketTypeOK, Owes
  <2> QED BY <1>1, <2>1 DEF SocketInv, DeadlineInv
<1> QED BY <1>2, <1>3, <1>4 DEF SocketInv

\* MarkInUse begins a session: whoever is out was sent out before.
LEMMA BorrowInv ==
    ASSUME SocketInv, MarkInUse
    PROVE  SocketInv'
<1>1. /\ user' = "held" /\ session' = session + 1
      /\ UNCHANGED <<data, deadline, probe, drain, born>>
  BY DEF MarkInUse, sock, checkVars, drainVars
<1>2. SocketTypeOK'
  BY <1>1 DEF SocketInv, SocketTypeOK
<1>3. BornInv'
  BY <1>1 DEF SocketInv, SocketTypeOK, BornInv, BackgroundBeforeBorrow
<1>4. DeadlineInv'
  BY <1>1 DEF SocketInv, DeadlineInv, Owes
<1> QED BY <1>2, <1>3, <1>4 DEF SocketInv

LEMMA OtherInv ==
    ASSUME SocketInv,
           \/ Get \/ BorrowerRead \/ PutIll \/ MarkIdle \/ CheckStep \/ TimeStep \/ Arrive
           \/ UNCHANGED vars
    PROVE  SocketInv'
<1>1. /\ UNCHANGED <<session, probe, drain, born>>
      /\ user' = user \/ user' \in {"taking", "gone", "idle"}
      /\ data' \in Nat /\ (deadline = "none" => deadline' = "none")
  BY DEF SocketInv, SocketTypeOK, Get, BorrowerRead, PutIll, MarkIdle, CheckStep,
     CheckTimesOut, CheckHears, TimeStep, DeadlinePasses, ContextEnds, Arrive, Consume, Reads,
     vars, sock, userVars, checkVars, drainVars
<1>2. SocketTypeOK'
  BY <1>1 DEF SocketInv, SocketTypeOK
<1>3. BornInv'
  BY <1>1 DEF SocketInv, BornInv, BackgroundBeforeBorrow, Active
<1>4. DeadlineInv'
  BY <1>1 DEF SocketInv, DeadlineInv, Owes
<1> QED BY <1>2, <1>3, <1>4 DEF SocketInv

LEMMA SocketStep == SocketInv /\ [Next]_vars => SocketInv'
<1> SUFFICES ASSUME SocketInv, [Next]_vars PROVE SocketInv'
  OBVIOUS
<1> QED BY DrainInv, ProbeInv, SendOut, BorrowInv, OtherInv DEF Next

LEMMA SocketAlways == Spec => []SocketInv
BY SocketInit, SocketStep, PTL DEF Spec

-----------------------------------------------------------------------------
(* What follows from it.                                                   *)

\* Whoever still probes or drains a connection that is borrowed was sent out
\* before it was borrowed: no probe and no drain starts on a borrower.
THEOREM NobodySentToBorrower == Spec => []BackgroundBeforeBorrow
<1>1. SocketInv => BackgroundBeforeBorrow
  BY DEF SocketInv, BornInv
<1> QED BY <1>1, SocketAlways, PTL

\* When the last probe and the last drain have gone, however their steps were
\* mixed, no read deadline is left that would fail the reads of a borrower.
THEOREM DeadlineReset == Spec => []NoDeadlineLeft
<1>1. SocketInv => NoDeadlineLeft
  <2>1. \A r \in Readers : Owes(r) => Active(r)
    BY SocketAssumption DEF Owes, Active, Readers
  <2> QED BY <2>1 DEF SocketInv, DeadlineInv, NoDeadlineLeft
<1> QED BY <1>1, SocketAlways, PTL

=============================================================================
