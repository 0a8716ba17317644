---------------------------- MODULE AcceptorProofs ----------------------------
(* Where a connection that was accepted can be: proofs about Acceptor.      *)
EXTENDS Acceptor, FiniteSetTheorems, SequenceTheorems, TLAPS

-----------------------------------------------------------------------------
(* The inductive invariant.                                                *)

Results == Conns \cup {Nothing, Error}

AcceptorTypeOK ==
    /\ listening \in BOOLEAN /\ backlog \in Seq(Conns) /\ shut \in SUBSET Conns
    /\ call \in [Calls -> {"idle", "wait", "grace", "returned"}]
    /\ routine \in [Calls -> {"none", "accept", "offer", "done"}]
    /\ outcome \in [Calls -> Results] /\ took \in [Calls -> Results]
    /\ resultChan \in [Calls -> Results]
    /\ over \in SUBSET Calls

\* A connection waits in the backlog once, and nobody has had it before.
FreshInv ==
    \A m \in 1..Len(backlog) :
        /\ backlog[m] \notin shut
        /\ \A i \in Calls : took[i] # backlog[m]
        /\ \A n \in 1..Len(backlog) : backlog[m] = backlog[n] => m = n

\* No two goroutines get the same connection, and only they close one.
TookInv ==
    /\ \A i, j \in Calls : took[i] = took[j] /\ took[i] \in Conns => i = j
    /\ \A c \in shut : \E i \in Calls : took[i] = c

\* The goroutine hands over what it took, or closes it, and ends.
RoutineInv ==
    \A i \in Calls :
        /\ call[i] = "idle" => routine[i] = "none"
        /\ routine[i] \in {"none", "accept"} => took[i] = Nothing
        /\ resultChan[i] \in {Nothing, took[i]}
        /\ resultChan[i] # Nothing => routine[i] = "done"
        /\ took[i] \in shut => resultChan[i] = Nothing /\ routine[i] = "done" /\ i \in over
        /\ took[i] \in Conns /\ i \notin over => routine[i] = "offer" \/ resultChan[i] = took[i]

\* The call returns what its goroutine took; after it has returned, never again.
OutcomeInv ==
    \A i \in Calls :
        /\ call[i] \in {"idle", "wait", "grace"} => outcome[i] = Nothing
        /\ call[i] = "grace" => i \in over
        /\ outcome[i] \in Conns =>
            /\ outcome[i] = took[i] /\ took[i] \notin shut
            /\ resultChan[i] = Nothing /\ routine[i] = "done"
        /\ i \notin over => outcome[i] = Nothing

AcceptorInv == AcceptorTypeOK /\ FreshInv /\ TookInv /\ RoutineInv /\ OutcomeInv

LEMMA AcceptorInit == Init => AcceptorInv
BY AcceptorAssumption DEF Init, AcceptorInv, AcceptorTypeOK, Results, FreshInv, TookInv,
   RoutineInv, OutcomeInv

-----------------------------------------------------------------------------
(* The backlog and the goroutines.                                         *)

LEMMA ArriveInv == AcceptorInv /\ (\E c \in Conns : Arrive(c)) => AcceptorInv'
<1> SUFFICES ASSUME AcceptorInv, NEW c \in Conns, Arrive(c) PROVE AcceptorInv'
  OBVIOUS
<1>1. /\ AcceptorTypeOK' /\ Len(backlog') = Len(backlog) + 1
      /\ \A m \in 1..Len(backlog') :
            backlog'[m] = IF m <= Len(backlog) THEN backlog[m] ELSE c
      /\ Len(backlog) \in Nat
  BY AppendProperties, LenProperties DEF AcceptorInv, AcceptorTypeOK, Arrive, callVars, routineVars
<1>2. /\ c \notin shut /\ \A i \in Calls : took[i] # c
      /\ \A m \in 1..Len(backlog) : backlog[m] # c
  BY DEF Arrive, Range, AcceptorInv, AcceptorTypeOK
<1>3. FreshInv'
  BY <1>1, <1>2 DEF AcceptorInv, FreshInv, Arrive, routineVars
<1>4. TookInv' /\ RoutineInv' /\ OutcomeInv'
  BY DEF AcceptorInv, TookInv, RoutineInv, OutcomeInv, Arrive, callVars, routineVars
<1> QED BY <1>1, <1>3, <1>4 DEF AcceptorInv

LEMMA AcceptInv == AcceptorInv /\ (\E i \in Calls : Accept(i)) => AcceptorInv'
<1> SUFFICES ASSUME AcceptorInv, NEW i \in Calls, Accept(i) PROVE AcceptorInv'
  OBVIOUS
<1> DEFINE c == Head(backlog)
<1>1. /\ backlog' \in Seq(Conns) /\ Len(backlog') = Len(backlog) - 1
      /\ \A m \in 1..Len(backlog') : backlog'[m] = backlog[m + 1]
      /\ Len(backlog) \in Nat \ {0} /\ c = backlog[1] /\ c \in Conns
  BY HeadTailProperties, EmptySeq, LenProperties DEF AcceptorInv, AcceptorTypeOK, Accept
<1>2. /\ took' = [took EXCEPT ![i] = c] /\ routine' = [routine EXCEPT ![i] = "offer"]
      /\ routine[i] = "accept"
      /\ UNCHANGED <<listening, shut, call, outcome, resultChan, over>>
  BY DEF Accept, RoutineTo, callVars
<1>3. c \notin shut /\ \A j \in Calls : took[j] # c
  BY <1>1 DEF AcceptorInv, FreshInv
<1>4. \A m \in 1..Len(backlog') :
        /\ backlog'[m] # c /\ backlog'[m] \notin shut
        /\ \A j \in Calls : took[j] # backlog'[m]
        /\ \A n \in 1..Len(backlog') : backlog'[m] = backlog'[n] => m = n
  BY <1>1 DEF AcceptorInv, FreshInv
<1> HIDE DEF c
<1>5. AcceptorTypeOK'
  BY <1>1, <1>2 DEF AcceptorInv, AcceptorTypeOK, Results
<1>6. FreshInv'
  BY <1>2, <1>4 DEF AcceptorInv, AcceptorTypeOK, FreshInv
<1>7. took[i] = Nothing /\ resultChan[i] = Nothing /\ outcome[i] \notin Conns
  BY <1>2, AcceptorAssumption DEF AcceptorInv, RoutineInv, OutcomeInv
<1>8. TookInv'
  BY <1>1, <1>2, <1>3, <1>7, AcceptorAssumption DEF AcceptorInv, AcceptorTypeOK, TookInv
<1>9. RoutineInv'
  BY <1>1, <1>2, <1>3, <1>7 DEF AcceptorInv, AcceptorTypeOK, RoutineInv
<1>10. OutcomeInv'
  BY <1>2, <1>7 DEF AcceptorInv, AcceptorTypeOK, OutcomeInv
<1> QED BY <1>5, <1>6, <1>8, <1>9, <1>10 DEF AcceptorInv

LEMMA AcceptFailsInv == AcceptorInv /\ (\E i \in Calls : AcceptFails(i)) => AcceptorInv'
<1> SUFFICES ASSUME AcceptorInv, NEW i \in Calls, AcceptFails(i) PROVE AcceptorInv'
  OBVIOUS
<1>1. /\ took' = [took EXCEPT ![i] = Error] /\ routine' = [routine EXCEPT ![i] = "offer"]
      /\ routine[i] = "accept"
      /\ UNCHANGED <<listening, backlog, shut, call, outcome, resultChan, over>>
  BY DEF AcceptFails, RoutineTo, callVars, network
<1>2. took[i] = Nothing /\ resultChan[i] = Nothing /\ outcome[i] \notin Conns
  BY <1>1, AcceptorAssumption DEF AcceptorInv, RoutineInv, OutcomeInv
<1>3. AcceptorTypeOK'
  BY <1>1 DEF AcceptorInv, AcceptorTypeOK, Results
<1>4. FreshInv'
  <2>1. \A m \in 1..Len(backlog) : backlog[m] \in Conns
    BY DEF AcceptorInv, AcceptorTypeOK
  <2> QED BY <1>1, <2>1, AcceptorAssumption DEF AcceptorInv, AcceptorTypeOK, FreshInv
<1>5. TookInv'
  BY <1>1, <1>2, AcceptorAssumption DEF AcceptorInv, AcceptorTypeOK, TookInv
<1>6. RoutineInv'
  BY <1>1, <1>2, AcceptorAssumption DEF AcceptorInv, AcceptorTypeOK, RoutineInv
<1>7. OutcomeInv'
  BY <1>1, <1>2 DEF AcceptorInv, AcceptorTypeOK, OutcomeInv
<1> QED BY <1>3, <1>4, <1>5, <1>6, <1>7 DEF AcceptorInv

LEMMA OfferInv == AcceptorInv /\ (\E i \in Calls : Offer(i)) => AcceptorInv'
<1> SUFFICES ASSUME AcceptorInv, NEW i \in Calls, Offer(i) PROVE AcceptorInv'
  OBVIOUS
<1>1. /\ resultChan' = [resultChan EXCEPT ![i] = took[i]]
      /\ routine' = [routine EXCEPT ![i] = "done"] /\ routine[i] = "offer"
      /\ UNCHANGED <<listening, backlog, shut, call, outcome, took, over>>
  BY DEF Offer, RoutineTo, callVars, network
<1>2. took[i] \notin shut /\ outcome[i] \notin Conns
  BY <1>1 DEF AcceptorInv, RoutineInv, OutcomeInv
<1>3. AcceptorTypeOK'
  BY <1>1 DEF AcceptorInv, AcceptorTypeOK
<1>4. FreshInv' /\ TookInv'
  BY <1>1 DEF AcceptorInv, FreshInv, TookInv
<1>5. RoutineInv'
  BY <1>1, <1>2 DEF AcceptorInv, AcceptorTypeOK, RoutineInv
<1>6. OutcomeInv'
  BY <1>1, <1>2 DEF AcceptorInv, AcceptorTypeOK, OutcomeInv
<1> QED BY <1>3, <1>4, <1>5, <1>6 DEF AcceptorInv

LEMMA DiscardInv == AcceptorInv /\ (\E i \in Calls : Discard(i)) => AcceptorInv'
<1> SUFFICES ASSUME AcceptorInv, NEW i \in Calls, Discard(i) PROVE AcceptorInv'
  OBVIOUS
<1>1. /\ shut' = shut \cup ({took[i]} \cap Conns) /\ i \in over
      /\ routine' = [routine EXCEPT ![i] = "done"] /\ routine[i] = "offer"
      /\ UNCHANGED <<listening, backlog, call, outcome, took, resultChan, over>>
  BY DEF Discard, RoutineTo, callVars
<1>2. resultChan[i] = Nothing /\ outcome[i] \notin Conns
  BY <1>1 DEF AcceptorInv, RoutineInv, OutcomeInv
<1>3. AcceptorTypeOK'
  BY <1>1 DEF AcceptorInv, AcceptorTypeOK
<1>4. FreshInv' /\ TookInv'
  BY <1>1 DEF AcceptorInv, FreshInv, TookInv
<1>5. \A j \in Calls : took[j] \in shut' => took[j] \in shut \/ j = i
  BY <1>1 DEF AcceptorInv, TookInv
<1>6. RoutineInv'
  BY <1>1, <1>2, <1>5 DEF AcceptorInv, AcceptorTypeOK, RoutineInv
<1>7. OutcomeInv'
  BY <1>1, <1>2, <1>5 DEF AcceptorInv, AcceptorTypeOK, OutcomeInv
<1> QED BY <1>3, <1>4, <1>6, <1>7 DEF AcceptorInv

-----------------------------------------------------------------------------
(* The calls.                                                              *)

LEMMA ReceiveInv == AcceptorInv /\ (\E i \in Calls : Receive(i)) => AcceptorInv'
<1> SUFFICES ASSUME AcceptorInv, NEW i \in Calls, Receive(i) PROVE AcceptorInv'
  OBVIOUS
<1>1. /\ outcome' = [outcome EXCEPT ![i] = resultChan[i]]
      /\ resultChan' = [resultChan EXCEPT ![i] = Nothing] /\ resultChan[i] # Nothing
      /\ call' = [call EXCEPT ![i] = "returned"] /\ over' = over \cup {i}
      /\ UNCHANGED <<listening, backlog, shut, routine, took>>
  BY DEF Receive, CallTo, network
<1>2. resultChan[i] = took[i] /\ routine[i] = "done" /\ took[i] \notin shut
  BY <1>1 DEF AcceptorInv, RoutineInv
<1>3. AcceptorTypeOK'
  BY <1>1 DEF AcceptorInv, AcceptorTypeOK, Results
<1>4. FreshInv' /\ TookInv'
  BY <1>1 DEF AcceptorInv, FreshInv, TookInv
<1>5. RoutineInv'
  BY <1>1, <1>2 DEF AcceptorInv, AcceptorTypeOK, RoutineInv
<1>6. OutcomeInv'
  BY <1>1, <1>2 DEF AcceptorInv, AcceptorTypeOK, OutcomeInv
<1> QED BY <1>3, <1>4, <1>5, <1>6 DEF AcceptorInv

LEMMA CallInv ==
    AcceptorInv /\ (\E i \in Calls : Start(i) \/ Expire(i) \/ GiveUp(i) \/ GraceEnds(i))
        => AcceptorInv'
<1> SUFFICES ASSUME AcceptorInv, NEW i \in Calls,
                    Start(i) \/ Expire(i) \/ GiveUp(i) \/ GraceEnds(i)
             PROVE  AcceptorInv'
  OBVIOUS
<1> USE DEF AcceptorInv, AcceptorTypeOK, CallTo, RoutineTo, network, callVars, routineVars
<1>1. AcceptorTypeOK'
  BY DEF Start, Expire, GiveUp, GraceEnds, Results
<1>2. FreshInv' /\ TookInv'
  BY DEF Start, Expire, GiveUp, GraceEnds, FreshInv, TookInv
<1>3. CASE Start(i)
  <2>1. routine[i] = "none" /\ took[i] = Nothing
    BY <1>3 DEF Start, RoutineInv
  <2>2. RoutineInv'
    BY <1>3, <2>1, AcceptorAssumption DEF Start, RoutineInv
  <2>3. OutcomeInv'
    BY <1>3, <2>1, AcceptorAssumption DEF Start, OutcomeInv
  <2> QED BY <1>1, <1>2, <2>2, <2>3
<1>4. CASE Expire(i)
  <2>1. RoutineInv' /\ OutcomeInv'
    BY <1>4 DEF Expire, RoutineInv, OutcomeInv
  <2> QED BY <1>1, <1>2, <2>1
<1>5. CASE GiveUp(i)
  <2>1. RoutineInv' /\ OutcomeInv'
    BY <1>5 DEF GiveUp, RoutineInv, OutcomeInv
  <2> QED BY <1>1, <1>2, <2>1
<1>6. CASE GraceEnds(i)
  <2>1. outcome[i] = Nothing
    BY <1>6 DEF GraceEnds, OutcomeInv
  <2> QED BY <1>1, <1>2, <1>6, <2>1, AcceptorAssumption DEF GraceEnds, RoutineInv, OutcomeInv
<1> QED BY <1>3, <1>4, <1>5, <1>6

LEMMA CloseListenerInv == AcceptorInv /\ CloseListener => AcceptorInv'
<1> SUFFICES ASSUME AcceptorInv, CloseListener PROVE AcceptorInv'
  OBVIOUS
<1>1. backlog' = <<>> /\ listening' = FALSE
      /\ UNCHANGED <<shut, call, outcome, routine, took, resultChan, over>>
  BY DEF CloseListener, callVars, routineVars
<1>2. backlog' \in Seq(Conns) /\ Len(backlog') = 0
  BY <1>1, EmptySeq
<1>3. AcceptorTypeOK'
  BY <1>1, <1>2 DEF AcceptorInv, AcceptorTypeOK
<1>4. FreshInv'
  BY <1>2 DEF FreshInv
<1>5. TookInv' /\ RoutineInv' /\ OutcomeInv'
  BY <1>1 DEF AcceptorInv, TookInv, RoutineInv, OutcomeInv
<1> QED BY <1>3, <1>4, <1>5 DEF AcceptorInv

LEMMA AcceptorStep == AcceptorInv /\ [Next]_vars => AcceptorInv'
<1> SUFFICES ASSUME AcceptorInv, [Next]_vars PROVE AcceptorInv'
  OBVIOUS
<1>1. CASE UNCHANGED vars
  BY <1>1 DEF AcceptorInv, AcceptorTypeOK, FreshInv, TookInv, RoutineInv, OutcomeInv, vars,
     network, callVars, routineVars
<1>2. CASE \E i \in Calls : RoutineStep(i)
  BY <1>2, AcceptInv, AcceptFailsInv, OfferInv, DiscardInv DEF RoutineStep
<1>3. CASE \E i \in Calls : Start(i) \/ Expire(i) \/ CallStep(i)
  BY <1>3, ReceiveInv, CallInv DEF CallStep
<1> QED BY <1>1, <1>2, <1>3, ArriveInv, CloseListenerInv DEF Next

LEMMA AcceptorAlways == Spec => []AcceptorInv
BY AcceptorInit, AcceptorStep, PTL DEF Spec

-----------------------------------------------------------------------------
(* What follows from it.                                                   *)

\* A connection that a call returns is open, and no other call returns it or
\* has it on its way, however late goroutines and results are.
THEOREM ReturnedOnce == Spec => []DeliveredOpen
<1>1. AcceptorInv => DeliveredOpen
  <2> SUFFICES ASSUME AcceptorInv, NEW i \in Calls, outcome[i] \in Conns
               PROVE  /\ outcome[i] \notin shut
                      /\ \A j \in Calls : j # i =>
                            outcome[j] # outcome[i] /\ ~Underway(outcome[i], j)
    BY DEF DeliveredOpen
  <2>1. outcome[i] = took[i] /\ took[i] \notin shut
    BY DEF AcceptorInv, OutcomeInv
  <2>2. ASSUME NEW j \in Calls, j # i PROVE took[j] # took[i]
    BY <2>1, <2>2 DEF AcceptorInv, TookInv
  <2>3. ASSUME NEW j \in Calls, j # i PROVE outcome[j] # outcome[i]
    BY <2>1, <2>2, <2>3 DEF AcceptorInv, OutcomeInv
  <2> QED BY <2>1, <2>2, <2>3 DEF Underway
<1> QED BY <1>1, AcceptorAlways, PTL

\* A lost connection is the one that the goroutine of a call that gave up took.
LEMMA LostToOne ==
    ASSUME AcceptorInv, NEW c \in Lost
    PROVE  \E i \in GaveUp : took[i] = c
<1>1. c \in Conns /\ c \in Range(took) \cup shut /\ ~Delivered(c)
      /\ \A i \in Calls \ GaveUp : ~Underway(c, i)
  BY DEF Lost
<1>2. PICK i \in Calls : took[i] = c
  BY <1>1 DEF Range, AcceptorInv, AcceptorTypeOK, TookInv
<1>3. i \in GaveUp
  <2> SUFFICES ASSUME i \notin GaveUp PROVE FALSE
    OBVIOUS
  <2>1. CASE i \notin over
    <3>1. c \notin shut /\ (routine[i] = "offer" \/ resultChan[i] = c)
      BY <1>1, <1>2, <2>1 DEF AcceptorInv, RoutineInv
    <3> QED BY <1>1, <1>2, <3>1 DEF Underway
  <2>2. CASE outcome[i] \in Conns
    BY <1>1, <1>2, <2>2 DEF AcceptorInv, OutcomeInv, Delivered
  <2> QED BY <2>1, <2>2 DEF GaveUp
<1> QED BY <1>2, <1>3

\* A call that gives up costs at most one client its connection, whatever
\* arrives later: its goroutine accepts once more, for nobody, and ends.
THEOREM LossBounded == Spec => []OneLossPerTimeout
<1>1. AcceptorInv => OneLossPerTimeout
  <2> SUFFICES ASSUME AcceptorInv PROVE OneLossPerTimeout
    OBVIOUS
  <2> DEFINE f == [i \in GaveUp |-> took[i]]
             T == {took[i] : i \in GaveUp}
  <2>1. IsFiniteSet(GaveUp)
    <3>1. GaveUp \in SUBSET Calls
      BY DEF GaveUp, AcceptorInv, AcceptorTypeOK
    <3> QED BY <3>1, AcceptorAssumption, FS_Subset
  <2>2. f \in Surjection(GaveUp, T)
    BY DEF Surjection
  <2>3. IsFiniteSet(T) /\ Cardinality(T) <= Cardinality(GaveUp)
    <3> HIDE DEF f, T
    <3> QED BY <2>1, <2>2, FS_Surjection
  <2>4. Lost \in SUBSET T
    BY LostToOne
  <2> HIDE DEF f, T
  <2>5. Cardinality(Lost) <= Cardinality(T) /\ IsFiniteSet(Lost)
    BY <2>3, <2>4, FS_Subset
  <2>6. /\ Cardinality(Lost) \in Nat /\ Cardinality(T) \in Nat
        /\ Cardinality(GaveUp) \in Nat
    BY <2>1, <2>3, <2>5, FS_CardinalityType
  <2> QED BY <2>3, <2>5, <2>6 DEF OneLossPerTimeout
<1> QED BY <1>1, AcceptorAlways, PTL

=============================================================================
